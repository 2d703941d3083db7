--------------------------- MODULE Batteries_proofs ---------------------------
(* A battery does what SetModes asked of it: a Powerwall, for every command   *)
(* and every level (what it is asked settles, standby holds, a load releases) *)
(* and for one update after another; a Franklin gateway and an Enphase        *)
(* battery for any number of updates, as long as nobody else interferes.      *)
EXTENDS MCBatteries, TLAPS

-----------------------------------------------------------------------------
(* What SetModes wants of a Powerwall, for every command.                     *)
PowerwallTypes ==
    [grid : BOOLEAN, rule : Rules, tou : {"own", "s1", "s2"}, mode : Modes, soc : 0..100]

LEMMA RawReserveType ==
    ASSUME NEW c \in AllCommands, NEW s \in PowerwallSites, NEW l \in 0..100, NEW cur \in PowerwallTypes
    PROVE  RawReserve(c, s, l, cur) \in 0..100
<1>1. c.bat \in BatteryModes /\ c.to \in 0..100 /\ c.min \in 0..100 /\ cur.soc \in 0..100
  BY DEF AllCommands, PowerwallTypes
<1>2. Postable(c.to) \in 0..100
  BY <1>1, SMT DEF Postable
<1>3. HoldLevel(c, l) \in 0..100
  BY <1>1, SMT DEF HoldLevel, Larger
<1> QED
  BY <1>1, <1>2, <1>3, SMT DEF RawReserve, BatteryModes

LEMMA TargetType ==
    ASSUME NEW c \in AllCommands, NEW s \in PowerwallSites, NEW l \in 0..100, NEW cur \in PowerwallTypes
    PROVE  Target(c, s, l, cur) \in PowerwallTypes
<1>1. /\ c.bat \in BatteryModes /\ c.sol \in SolarModes /\ c.sched \in {"none", "s1", "s2"}
      /\ cur.soc \in 0..100 /\ cur.mode \in Modes /\ cur.rule \in Rules /\ cur.tou \in {"own", "s1", "s2"}
      /\ cur.grid \in BOOLEAN /\ s.gridCharge \in BOOLEAN
  BY DEF AllCommands, PowerwallTypes, PowerwallSites
<1>2. TargetReserve(c, s, l, cur) \in 0..100
  BY <1>1, RawReserveType, SMT DEF TargetReserve, Larger
<1>3. TargetMode(c, s, l, cur) \in Modes
  BY <1>1 DEF TargetMode, Modes
<1>4. TargetRule(c, s, cur) \in Rules
  BY <1>1 DEF TargetRule, Rules, SolarModes
<1>5. TargetGrid(c, s, l, cur) \in BOOLEAN
  BY <1>1 DEF TargetGrid
<1>6. (IF TouNeedsPost(c, s, l, cur) THEN c.sched ELSE cur.tou) \in {"own", "s1", "s2"}
  BY <1>1 DEF TouNeedsPost
<1> QED
  BY <1>2, <1>3, <1>4, <1>5, <1>6 DEF Target, PowerwallTypes

(* Once obeyed, the same command finds nothing to post.                       *)
LEMMA TargetSettles ==
    ASSUME NEW c \in AllCommands, NEW s \in PowerwallSites, NEW l \in 0..100, NEW cur \in PowerwallTypes
    PROVE  Needed(c, s, l, Target(c, s, l, cur), FALSE) = {}
<1> DEFINE to == Target(c, s, l, cur)
<1>1. /\ c.bat \in BatteryModes /\ c.sol \in SolarModes
      /\ cur.soc \in 0..100 /\ cur.grid \in BOOLEAN /\ s.gridCharge \in BOOLEAN
  BY DEF AllCommands, PowerwallTypes, PowerwallSites
<1>2. /\ to.grid = TargetGrid(c, s, l, cur) /\ to.rule = TargetRule(c, s, cur)
      /\ to.tou = IF TouNeedsPost(c, s, l, cur) THEN c.sched ELSE cur.tou
      /\ to.mode = TargetMode(c, s, l, cur) /\ to.soc = TargetReserve(c, s, l, cur)
  BY DEF Target
<1> HIDE DEF to
<1>3. TargetGrid(c, s, l, to) <=> to.grid
  BY <1>1, <1>2 DEF TargetGrid
<1>4. TargetRule(c, s, to) = to.rule
  BY <1>1, <1>2 DEF TargetRule, SolarModes
<1>5. TargetMode(c, s, l, to) = to.mode
  BY <1>1, <1>2 DEF TargetMode
<1>6. RawReserve(c, s, l, to) = IF c.bat = "nochange" THEN to.soc ELSE RawReserve(c, s, l, cur)
  BY <1>1 DEF RawReserve
<1>7. TargetReserve(c, s, l, to) = to.soc
  <2>1. RawReserve(c, s, l, cur) \in 0..100
    BY RawReserveType
  <2>2. c.bat = "nochange" => RawReserve(c, s, l, cur) = cur.soc
    BY DEF RawReserve
  <2> QED
    BY <1>1, <1>2, <1>6, <2>1, <2>2, SMT DEF TargetReserve, Larger
<1>8. ~ModeNeedsPost(c, s, l, to)
  BY <1>5 DEF ModeNeedsPost
<1>9. ~TouNeedsPost(c, s, l, to)
  BY <1>2, <1>8 DEF TouNeedsPost, ModeNeedsPost
<1>10. to.grid \in BOOLEAN
  BY <1>1, <1>2 DEF TargetGrid
<1>11. /\ Target(c, s, l, to).grid = to.grid /\ Target(c, s, l, to).rule = to.rule
       /\ Target(c, s, l, to).soc = to.soc
  BY <1>3, <1>4, <1>7, <1>10 DEF Target, TargetGrid
<1>12. ~Forced(c, l, to, FALSE)
  BY DEF Forced
<1>13. Needed(c, s, l, to, FALSE) = {}
  BY <1>8, <1>9, <1>11, <1>12 DEF Needed
<1> QED
  BY <1>13 DEF to

LEMMA TargetStands ==
    ASSUME NEW c \in AllCommands, NEW s \in PowerwallSites, NEW l \in 0..100, NEW cur \in PowerwallTypes,
           c.bat = "standby", ~Managed(c, s)
    PROVE  LET to == Target(c, s, l, cur) IN
           /\ to.soc >= l - 1
           /\ \/ to.soc <= Larger(HoldLevel(c, l), 5) + 1
              \/ to.mode = "backup" /\ ~to.grid
              \/ l >= 99 \/ l < c.min
<1> DEFINE raw == RawReserve(c, s, l, cur)
           soc == TargetReserve(c, s, l, cur)
<1>1. c.min \in 0..100 /\ cur.soc \in 0..100
  BY DEF AllCommands, PowerwallTypes
<1>2. raw = IF HoldLevel(c, l) <= 80 THEN HoldLevel(c, l) ELSE 100
  BY DEF RawReserve
<1>3. HoldLevel(c, l) \in 0..100 /\ HoldLevel(c, l) >= l /\ (HoldLevel(c, l) = l \/ l < c.min)
  BY <1>1, SMT DEF HoldLevel, Larger
<1>4. soc = IF Larger(raw, 5) - cur.soc \in -1..1 THEN cur.soc ELSE Larger(raw, 5)
  BY DEF TargetReserve
<1> HIDE DEF raw, soc
<1>5. soc >= l - 1
  BY <1>1, <1>2, <1>3, <1>4, SMT DEF Larger
<1>6. HoldLevel(c, l) <= 80 => soc <= Larger(HoldLevel(c, l), 5) + 1
  BY <1>1, <1>2, <1>3, <1>4, SMT DEF Larger
<1>7. HoldLevel(c, l) \in 81..98 => TargetMode(c, s, l, cur) = "backup" /\ ~TargetGrid(c, s, l, cur)
  BY DEF HeldByBackup, TargetMode, TargetGrid
<1>8. HoldLevel(c, l) <= 80 \/ HoldLevel(c, l) \in 81..98 \/ l >= 99 \/ l < c.min
  BY <1>1, <1>3, SMT
<1>9. /\ Target(c, s, l, cur).soc = soc /\ Target(c, s, l, cur).mode = TargetMode(c, s, l, cur)
      /\ Target(c, s, l, cur).grid = TargetGrid(c, s, l, cur)
  BY DEF Target, soc
<1> QED
  BY <1>5, <1>6, <1>7, <1>8, <1>9

LEMMA TargetReleases ==
    ASSUME NEW c \in AllCommands, NEW s \in PowerwallSites, NEW l \in 0..100, NEW cur \in PowerwallTypes,
           c.bat = "load"
    PROVE  LET to == Target(c, s, l, cur) IN
           to.mode # "backup" /\ to.soc <= Larger(c.min, 5) + 1
<1>1. c.min \in 0..100 /\ cur.soc \in 0..100
  BY DEF AllCommands, PowerwallTypes
<1>2. TargetMode(c, s, l, cur) # "backup"
  BY DEF TargetMode, HeldByBackup
<1>3. RawReserve(c, s, l, cur) = c.min
  BY DEF RawReserve
<1>4. TargetReserve(c, s, l, cur) <= Larger(c.min, 5) + 1
  <2> DEFINE low == Larger(c.min, 5)
             soc == TargetReserve(c, s, l, cur)
  <2>1. low \in 0..100
    BY <1>1, SMT DEF Larger
  <2>2. soc = IF low - cur.soc \in -1..1 THEN cur.soc ELSE low
    BY <1>3 DEF TargetReserve
  <2> HIDE DEF low, soc
  <2>3. soc <= low + 1
    BY <1>1, <2>1, <2>2, SMT
  <2> QED
    BY <2>3 DEF low, soc
<1> QED
  BY <1>2, <1>4 DEF Target

(* The part of it, with what the Powerwall may be by then.                    *)
TargetTypes == site \in PowerwallSites /\ level \in TargetLevels /\ bat \in PowerwallTypes

LEMMA TargetStarts == ASSUME TargetInit PROVE TargetTypes
<1>1. \A b \in [grid : BOOLEAN, rule : {"never"}, tou : {"own", "s2"}, mode : Modes, soc : {0, 20}] :
        b \in PowerwallTypes
  BY DEF PowerwallTypes, Rules
<1> QED
  BY <1>1 DEF TargetInit, TargetTypes

LEMMA TargetGoesOn == ASSUME TargetTypes, TargetNext PROVE TargetTypes'
<1>1. CASE level' \in TargetLevels /\ UNCHANGED <<site, bat>>
  BY <1>1 DEF TargetTypes
<1>2. ASSUME NEW c \in TargetAsked, bat' = Target(c, site, level, bat), UNCHANGED <<site, level>>
      PROVE  TargetTypes'
  <2>1. c \in AllCommands /\ level \in 0..100
    BY PowerwallAssumption DEF TargetTypes
  <2>2. bat' \in PowerwallTypes
    BY <1>2, <2>1, TargetType DEF TargetTypes
  <2> QED
    BY <1>2, <2>2 DEF TargetTypes
<1> QED
  BY <1>1, <1>2 DEF TargetNext

LEMMA TargetHolds == ASSUME part = "target" => TargetTypes PROVE TargetInv
<1>1. SUFFICES ASSUME part = "target", NEW c \in TargetAsked
      PROVE  /\ Needed(c, site, level, Target(c, site, level, bat), FALSE) = {}
             /\ c.bat = "standby" /\ ~Managed(c, site) =>
                  LET to == Target(c, site, level, bat) IN
                  /\ to.soc >= level - 1
                  /\ \/ to.soc <= Larger(HoldLevel(c, level), 5) + 1
                     \/ to.mode = "backup" /\ ~to.grid
                     \/ level >= 99 \/ level < c.min
             /\ c.bat = "load" =>
                  LET to == Target(c, site, level, bat) IN
                  to.mode # "backup" /\ to.soc <= Larger(c.min, 5) + 1
  BY <1>1 DEF TargetInv, Settles, StandbyHolds, LoadReleases
<1>2. c \in AllCommands /\ site \in PowerwallSites /\ level \in 0..100 /\ bat \in PowerwallTypes
  BY <1>1, PowerwallAssumption DEF TargetTypes
<1> QED
  BY <1>2, TargetSettles, TargetStands, TargetReleases

-----------------------------------------------------------------------------
(* A Powerwall commanded by one update after another, on one instance: what   *)
(* the posts already made have agreed upon stays so until the call returns,   *)
(* what the instance takes for current is so, and a verification finds the    *)
(* reserve as it was posted.                                                  *)
Agrees(p, b, to) ==
    CASE p = "grid" -> b.grid = to.grid /\ b.rule = to.rule
      [] p = "tou" -> b.tou = to.tou
      [] p = "mode" -> b.mode = to.mode
      [] p = "soc" -> b.soc = to.soc
Posts == {"grid", "tou", "mode", "soc"}

UpdateInv(q, v) ==
    /\ q.at = "posting" => \A p \in Posts : p \notin q.todo => Agrees(p, bat, q.to)
    /\ q.at \in {"ending", "waiting"} => last.ok /\ last.to = q.to /\ bat = q.to
    /\ q.at = "idle" => (last.ok => bat = last.to)
    /\ v.at # "idle" => q.at \in {"ending", "waiting"} /\ v.expect = bat.soc

PowerwallSound ==
    /\ Powerwall!TypeOK
    /\ Powerwall!CacheTrue
    /\ \A u \in One : UpdateInv(call[u], ver[u])

LEMMA SameTypes == Powerwall!Powerwalls = PowerwallTypes
BY DEF Powerwall!Powerwalls, PowerwallTypes, Rules, Modes, Powerwall!Rules, Powerwall!Modes

LEMMA SameTarget ==
    ASSUME NEW c, NEW s, NEW l, NEW cur
    PROVE  Powerwall!Target(c, s, l, cur) = Target(c, s, l, cur)
<1>1. Powerwall!HeldByBackup(c, s, l) <=> HeldByBackup(c, s, l)
  BY DEF HeldByBackup, Powerwall!HeldByBackup, Managed, Powerwall!Managed, HoldLevel, Powerwall!HoldLevel,
         Larger, Powerwall!Larger
<1>2. Powerwall!TargetMode(c, s, l, cur) = TargetMode(c, s, l, cur)
  BY <1>1 DEF TargetMode, Powerwall!TargetMode, FarBelow, Powerwall!FarBelow, Managed, Powerwall!Managed
<1>3. Powerwall!RawReserve(c, s, l, cur) = RawReserve(c, s, l, cur)
  BY DEF RawReserve, Powerwall!RawReserve, FarBelow, Powerwall!FarBelow, Managed, Powerwall!Managed,
         HoldLevel, Powerwall!HoldLevel, Larger, Powerwall!Larger, Postable, Powerwall!Postable
<1>4. Powerwall!TargetReserve(c, s, l, cur) = TargetReserve(c, s, l, cur)
  BY <1>3 DEF TargetReserve, Powerwall!TargetReserve, Larger, Powerwall!Larger
<1>5. Powerwall!TargetGrid(c, s, l, cur) = TargetGrid(c, s, l, cur)
  BY <1>1 DEF TargetGrid, Powerwall!TargetGrid
<1>6. Powerwall!TargetRule(c, s, cur) = TargetRule(c, s, cur)
  BY DEF TargetRule, Powerwall!TargetRule
<1>7. Powerwall!TouNeedsPost(c, s, l, cur) <=> TouNeedsPost(c, s, l, cur)
  BY <1>2 DEF TouNeedsPost, Powerwall!TouNeedsPost, ModeNeedsPost, Powerwall!ModeNeedsPost
<1> QED
  BY <1>2, <1>4, <1>5, <1>6, <1>7 DEF Target, Powerwall!Target

(* The next post is one that is left.                                         *)
LEMMA NextPostIsLeft ==
    ASSUME NEW todo \in SUBSET Posts, todo # {}
    PROVE  Powerwall!NextPost(todo) \in todo
<1> DEFINE Least(p) ==
        \A q \in todo : \A m, n \in 1..4 :
            Powerwall!Order[m] = p /\ Powerwall!Order[n] = q => m <= n
<1>1. \E p \in todo : Least(p)
  <2>1. \A n \in 1..4 : n = 1 \/ n = 2 \/ n = 3 \/ n = 4
    BY SMT
  <2>2. /\ Powerwall!Order[1] = "grid" /\ Powerwall!Order[2] = "tou"
        /\ Powerwall!Order[3] = "mode" /\ Powerwall!Order[4] = "soc"
    BY DEF Powerwall!Order
  <2>3. CASE "grid" \in todo
    <3>1. Least("grid")
      BY <2>1, <2>2
    <3> QED
      BY <2>3, <3>1
  <2>4. CASE "grid" \notin todo /\ "tou" \in todo
    <3>1. Least("tou")
      BY <2>1, <2>2, <2>4
    <3> QED
      BY <2>4, <3>1
  <2>5. CASE "grid" \notin todo /\ "tou" \notin todo /\ "mode" \in todo
    <3>1. Least("mode")
      BY <2>1, <2>2, <2>5
    <3> QED
      BY <2>5, <3>1
  <2>6. CASE "grid" \notin todo /\ "tou" \notin todo /\ "mode" \notin todo
    <3>1. todo = {"soc"}
      BY <2>6 DEF Posts
    <3>2. Least("soc")
      BY <2>1, <2>2, <3>1
    <3> QED
      BY <3>1, <3>2
  <2> QED
    BY <2>3, <2>4, <2>5, <2>6
<1>2. Powerwall!NextPost(todo) = CHOOSE p \in todo : Least(p)
  BY DEF Powerwall!NextPost
<1> QED
  BY <1>1, <1>2

(* A post makes what it is about agree, and nothing else disagree.            *)
LEMMA PostAgrees ==
    ASSUME NEW b \in PowerwallTypes, NEW to \in PowerwallTypes, NEW p \in Posts
    PROVE  /\ Powerwall!Posted(b, p, to) \in PowerwallTypes
           /\ Agrees(p, Powerwall!Posted(b, p, to), to)
           /\ \A q \in Posts : Agrees(q, b, to) => Agrees(q, Powerwall!Posted(b, p, to), to)
BY DEF Powerwall!Posted, PowerwallTypes, Posts, Agrees

LEMMA AllAgree ==
    ASSUME NEW b \in PowerwallTypes, NEW to \in PowerwallTypes, \A p \in Posts : Agrees(p, b, to)
    PROVE  b = to
BY DEF PowerwallTypes, Posts, Agrees

(* What needs no post agrees already.                                         *)
LEMMA UnneededAgrees ==
    ASSUME NEW c \in AllCommands, NEW s \in PowerwallSites, NEW l \in 0..100, NEW b \in PowerwallTypes,
           NEW odd \in BOOLEAN
    PROVE  /\ Powerwall!Needed(c, s, l, b, odd) \in SUBSET Posts
           /\ \A p \in Posts : p \notin Powerwall!Needed(c, s, l, b, odd) =>
                Agrees(p, b, Powerwall!Target(c, s, l, b))
<1> DEFINE to == Powerwall!Target(c, s, l, b)
<1>1. ~Powerwall!ModeNeedsPost(c, s, l, b) => b.mode = to.mode
  <2>1. to.mode = Powerwall!TargetMode(c, s, l, b)
    BY DEF Powerwall!Target
  <2>2. c.bat = "nochange" => Powerwall!TargetMode(c, s, l, b) = b.mode
    BY DEF Powerwall!TargetMode
  <2> QED
    BY <2>1, <2>2 DEF Powerwall!ModeNeedsPost
<1>2. ~Powerwall!TouNeedsPost(c, s, l, b) => b.tou = to.tou
  BY DEF Powerwall!Target
<1> HIDE DEF to
<1>3. Powerwall!Needed(c, s, l, b, odd) =
        {p \in Posts :
            CASE p = "grid" -> to.grid # b.grid \/ to.rule # b.rule
              [] p = "tou" -> Powerwall!TouNeedsPost(c, s, l, b)
              [] p = "mode" -> Powerwall!ModeNeedsPost(c, s, l, b) \/ Powerwall!Forced(c, l, b, odd)
              [] p = "soc" -> to.soc # b.soc \/ Powerwall!Forced(c, l, b, odd)}
  BY DEF Powerwall!Needed, Posts, to
<1>4. \A p \in Posts : p \notin Powerwall!Needed(c, s, l, b, odd) => Agrees(p, b, to)
  BY <1>1, <1>2, <1>3 DEF Posts, Agrees
<1> QED
  BY <1>3, <1>4 DEF to

LEMMA CallFields ==
    /\ Powerwall!Idle \in Powerwall!Calls /\ Powerwall!Idle \in Powerwall!Verifications
    /\ Powerwall!Idle.at = "idle"
    /\ \A q \in Powerwall!Calls :
        /\ q.at \in {"idle", "posting", "ending", "waiting"}
        /\ q.at # "idle" =>
            /\ q \in [at : {"posting", "ending", "waiting"}, sweep : BOOLEAN, inst : Server,
                      to : PowerwallTypes, todo : SUBSET Posts, soc : BOOLEAN]
            /\ q.inst \in Server /\ q.to \in PowerwallTypes /\ q.todo \in SUBSET Posts
    /\ \A q \in [at : {"posting", "ending", "waiting"}, sweep : BOOLEAN, inst : Server,
                 to : PowerwallTypes, todo : SUBSET Posts, soc : BOOLEAN] : q \in Powerwall!Calls
    /\ \A v \in Powerwall!Verifications :
        /\ v.at \in {"idle", "sleeping", "looking", "posting"}
        /\ v.at # "idle" =>
            v \in [at : {"sleeping", "looking", "posting"}, expect : 0..100, n : 1..2, dead : BOOLEAN]
    /\ \A v \in [at : {"sleeping", "looking", "posting"}, expect : 0..100, n : 1..2, dead : BOOLEAN] :
        v \in Powerwall!Verifications
<1>1. Powerwall!Calls = {Powerwall!Idle} \union
        [at : {"posting", "ending", "waiting"}, sweep : BOOLEAN, inst : Server,
         to : PowerwallTypes, todo : SUBSET Posts, soc : BOOLEAN]
  BY DEF Powerwall!Calls, Posts, PowerwallTypes, Rules, Modes, Powerwall!Rules, Powerwall!Modes
<1> QED
  BY <1>1 DEF Powerwall!Verifications, Powerwall!Idle

(* What is known of the Powerwall, of the one update and the one instance.    *)
LEMMA PowerwallFacts ==
    ASSUME PowerwallSound, NEW u, One = {u}, NEW i, Server = {i}
    PROVE  /\ wanted \in AllCommands /\ wanted \in PowerwallAsked
           /\ bat \in PowerwallTypes
           /\ cache \in [Server -> PowerwallTypes] /\ fresh \in [Server -> BOOLEAN]
           /\ call \in [One -> Powerwall!Calls] /\ ver \in [One -> Powerwall!Verifications]
           /\ call[u] \in Powerwall!Calls /\ ver[u] \in Powerwall!Verifications
           /\ changes \in 0..PowerwallChanges /\ faults \in 0..PowerwallFaults
           /\ PowerwallChanges \in Nat /\ PowerwallFaults \in Nat
           /\ last \in [ok : BOOLEAN, to : PowerwallTypes] /\ newest \in 0..100
           /\ Powerwall!Known(i) = bat
           /\ (fresh[i] => cache[i] = bat) /\ UpdateInv(call[u], ver[u])
BY SameTypes, PowerwallAssumption, PartsAssumption
   DEF PowerwallSound, Powerwall!TypeOK, Powerwall!CacheTrue, Powerwall!Known, Powerwall!Assumptions

(* To keep what is sound, it is enough to keep the types, what the instance   *)
(* takes for current, and the update's invariant.                             *)
LEMMA SoundAgain ==
    ASSUME NEW u, One = {u}, NEW i, Server = {i},
           wanted' \in PowerwallAsked, bat' \in PowerwallTypes,
           cache' \in [Server -> PowerwallTypes], fresh' \in [Server -> BOOLEAN],
           call' \in [One -> Powerwall!Calls], ver' \in [One -> Powerwall!Verifications],
           changes' \in 0..PowerwallChanges, faults' \in 0..PowerwallFaults,
           last' \in [ok : BOOLEAN, to : PowerwallTypes], newest' \in 0..100,
           fresh'[i] => cache'[i] = bat',
           UpdateInv(call[u], ver[u])'
    PROVE  PowerwallSound'
BY SameTypes DEF PowerwallSound, Powerwall!TypeOK, Powerwall!CacheTrue

LEMMA PowerwallStarts == ASSUME Powerwall!Init PROVE PowerwallSound
<1>1. PICK u \in One : One = {u}
  BY PowerwallAssumption
<1>2. PICK i \in Server : Server = {i}
  BY PowerwallAssumption
<1>3. PowerwallOwned \in PowerwallTypes /\ PowerwallOwned.soc \in 0..100
  BY SameTypes, PowerwallAssumption DEF PowerwallTypes
<1>4. Powerwall!TypeOK
  BY <1>3, SameTypes, CallFields, PartsAssumption DEF Powerwall!Init, Powerwall!TypeOK, Powerwall!Assumptions
<1>5. Powerwall!CacheTrue
  BY DEF Powerwall!Init, Powerwall!CacheTrue
<1>6. \A w \in One : UpdateInv(call[w], ver[w])
  BY CallFields DEF Powerwall!Init, UpdateInv
<1> QED
  BY <1>4, <1>5, <1>6 DEF PowerwallSound

(* The update's own step and the Powerwall's: one lemma for every action.     *)
LEMMA PowerwallWants ==
    ASSUME PowerwallSound, NEW u, One = {u}, NEW i, Server = {i}, Powerwall!Change
    PROVE  PowerwallSound'
<1>1. wanted' \in PowerwallAsked /\ changes' \in 0..PowerwallChanges
  <2>1. changes \in 0..PowerwallChanges /\ PowerwallChanges \in Nat
    BY PowerwallFacts
  <2>2. changes < PowerwallChanges /\ changes' = changes + 1 /\ wanted' \in PowerwallAsked
    BY DEF Powerwall!Change
  <2>3. changes' \in 0..PowerwallChanges
    BY <2>1, <2>2, SMT
  <2> QED
    BY <2>2, <2>3
<1>2. UpdateInv(call[u], ver[u])'
  BY PowerwallFacts DEF Powerwall!Change, UpdateInv
<1>3. /\ bat' = bat /\ cache' = cache /\ fresh' = fresh /\ call' = call /\ ver' = ver /\ faults' = faults
      /\ last' = last /\ newest' = newest
  BY DEF Powerwall!Change
<1> QED
  BY <1>1, <1>2, <1>3, PowerwallFacts, SoundAgain

LEMMA PowerwallAges ==
    ASSUME PowerwallSound, NEW u, One = {u}, NEW i, Server = {i}, Powerwall!Age(i)
    PROVE  PowerwallSound'
<1>1. fresh' \in [Server -> BOOLEAN] /\ ~fresh'[i]
  BY PowerwallFacts DEF Powerwall!Age
<1>2. UpdateInv(call[u], ver[u])'
  BY PowerwallFacts DEF Powerwall!Age, UpdateInv
<1>3. /\ bat' = bat /\ cache' = cache /\ wanted' = wanted /\ call' = call /\ ver' = ver /\ faults' = faults
      /\ last' = last /\ newest' = newest /\ changes' = changes
  BY DEF Powerwall!Age
<1> QED
  BY <1>1, <1>2, <1>3, PowerwallFacts, SoundAgain

LEMMA PowerwallBegins ==
    ASSUME PowerwallSound, NEW u, One = {u}, NEW i, Server = {i}, Powerwall!Begin(u)
    PROVE  PowerwallSound'
<1>1. PICK sweep \in BOOLEAN, odd \in BOOLEAN :
        LET known == Powerwall!Known(i)
            needed == Powerwall!Needed(wanted, PowerwallSite, PowerwallLevel, known, odd) IN
        /\ call[u].at = "idle"
        /\ cache' = [cache EXCEPT ![i] = known] /\ fresh' = [fresh EXCEPT ![i] = TRUE]
        /\ call' = [call EXCEPT ![u] =
              [at |-> "posting", sweep |-> sweep, inst |-> i,
               to |-> Powerwall!Target(wanted, PowerwallSite, PowerwallLevel, known),
               todo |-> IF PowerwallSite.dry THEN {} ELSE needed,
               soc |-> ~PowerwallSite.dry /\ "soc" \in needed]]
        /\ UNCHANGED <<wanted, bat, ver, changes, faults, last, newest>>
  BY DEF Powerwall!Begin
<1> DEFINE needed == Powerwall!Needed(wanted, PowerwallSite, PowerwallLevel, bat, odd)
           to == Powerwall!Target(wanted, PowerwallSite, PowerwallLevel, bat)
           q == [at |-> "posting", sweep |-> sweep, inst |-> i, to |-> to,
                 todo |-> IF PowerwallSite.dry THEN {} ELSE needed,
                 soc |-> ~PowerwallSite.dry /\ "soc" \in needed]
<1>2. /\ wanted \in AllCommands /\ bat \in PowerwallTypes /\ Powerwall!Known(i) = bat
      /\ PowerwallSite \in PowerwallSites /\ PowerwallLevel \in 0..100 /\ ~PowerwallSite.dry
  BY PowerwallFacts, PowerwallAssumption DEF PowerwallSites
<1>3. /\ cache' = [cache EXCEPT ![i] = bat] /\ fresh' = [fresh EXCEPT ![i] = TRUE]
      /\ call' = [call EXCEPT ![u] = q]
  BY <1>1, <1>2
<1>4. to \in PowerwallTypes
  BY <1>2, SameTarget, TargetType
<1>5. needed \in SUBSET Posts /\ \A p \in Posts : p \notin needed => Agrees(p, bat, to)
  BY <1>2, UnneededAgrees
<1> HIDE DEF needed, to
<1>6. q \in Powerwall!Calls
  <2>1. q \in [at : {"posting", "ending", "waiting"}, sweep : BOOLEAN, inst : Server,
               to : PowerwallTypes, todo : SUBSET Posts, soc : BOOLEAN]
    BY <1>2, <1>4, <1>5
  <2> QED
    BY <2>1, CallFields
<1>7. q.at = "posting" /\ q.to = to /\ q.todo = needed
  BY <1>2
<1> HIDE DEF q
<1>8. call' \in [One -> Powerwall!Calls] /\ call'[u] = q
  BY <1>3, <1>6, PowerwallFacts
<1>9. cache' \in [Server -> PowerwallTypes] /\ fresh' \in [Server -> BOOLEAN] /\ cache'[i] = bat
  BY <1>2, <1>3, PowerwallFacts
<1>10. /\ bat' = bat /\ wanted' = wanted /\ ver' = ver /\ faults' = faults
       /\ last' = last /\ newest' = newest /\ changes' = changes
  BY <1>1
<1>11. ver'[u].at = "idle"
  BY <1>1, <1>10, PowerwallFacts DEF UpdateInv
<1>12. UpdateInv(call[u], ver[u])'
  BY <1>5, <1>7, <1>8, <1>10, <1>11 DEF UpdateInv
<1> QED
  BY <1>8, <1>9, <1>10, <1>12, PowerwallFacts, SoundAgain

LEMMA PowerwallPosts ==
    ASSUME PowerwallSound, NEW u, One = {u}, NEW i, Server = {i}, Powerwall!Post(u)
    PROVE  PowerwallSound'
<1> DEFINE q == call[u]
           p == Powerwall!NextPost(q.todo)
           done == Powerwall!Posted(bat, p, q.to)
<1>1. /\ q.at = "posting" /\ q.todo # {} /\ UNCHANGED <<wanted, ver, changes>>
      /\ newest' = IF p = "soc" THEN q.to.soc ELSE newest
  BY DEF Powerwall!Post
<1>2. \/ /\ bat' = done /\ UNCHANGED <<faults, last>>
         /\ Powerwall!Remembers(q.inst, p, q.to)
         /\ call' = [call EXCEPT ![u].todo = @ \ {p}]
      \/ /\ Powerwall!Fault("refused") /\ UNCHANGED bat
         /\ Powerwall!Fails(u, q.inst, p, q.to)
  BY DEF Powerwall!Post, Powerwall!Fault
<1>3. /\ q.inst = i /\ q.to \in PowerwallTypes /\ q.todo \in SUBSET Posts /\ q.to.soc \in 0..100
      /\ q \in [at : {"posting", "ending", "waiting"}, sweep : BOOLEAN, inst : Server,
                to : PowerwallTypes, todo : SUBSET Posts, soc : BOOLEAN]
      /\ bat \in PowerwallTypes
  <2>1. q.at # "idle" /\ q \in Powerwall!Calls
    BY <1>1, PowerwallFacts
  <2> QED
    BY <2>1, CallFields, PowerwallFacts DEF PowerwallTypes
<1>4. p \in q.todo /\ p \in Posts
  BY <1>1, <1>3, NextPostIsLeft
<1>5. newest' \in 0..100
  BY <1>1, <1>3, PowerwallFacts
<1>6. ver[u].at = "idle" /\ \A r \in Posts : r \notin q.todo => Agrees(r, bat, q.to)
  BY <1>1, PowerwallFacts DEF UpdateInv
<1>7. CASE /\ bat' = done /\ UNCHANGED <<faults, last>>
           /\ Powerwall!Remembers(q.inst, p, q.to)
           /\ call' = [call EXCEPT ![u].todo = @ \ {p}]
  <2> DEFINE on == [q EXCEPT !.todo = @ \ {p}]
  <2>1. /\ done \in PowerwallTypes /\ Agrees(p, done, q.to)
        /\ \A r \in Posts : Agrees(r, bat, q.to) => Agrees(r, done, q.to)
    BY <1>3, <1>4, PostAgrees
  <2>2. /\ on \in [at : {"posting", "ending", "waiting"}, sweep : BOOLEAN, inst : Server,
                   to : PowerwallTypes, todo : SUBSET Posts, soc : BOOLEAN]
        /\ on.at = "posting" /\ on.to = q.to /\ on.todo = q.todo \ {p}
    BY <1>1, <1>3
  <2>3. call' = [call EXCEPT ![u] = on]
    BY <1>7
  <2> HIDE DEF on, done, q
  <2>4. call'[u] = on /\ call' \in [One -> Powerwall!Calls]
    BY <2>2, <2>3, CallFields, PowerwallFacts
  <2>5. /\ cache' = [cache EXCEPT ![i] = Powerwall!Posted(cache[i], p, q.to)]
        /\ fresh' = [fresh EXCEPT ![i] = fresh[i] /\ p = "tou"]
    BY <1>3, <1>7 DEF Powerwall!Remembers
  <2>6. Powerwall!Posted(cache[i], p, q.to) \in PowerwallTypes
    BY <1>3, <1>4, PostAgrees, PowerwallFacts
  <2>7. /\ cache' \in [Server -> PowerwallTypes] /\ fresh' \in [Server -> BOOLEAN]
        /\ cache'[i] = Powerwall!Posted(cache[i], p, q.to) /\ (fresh'[i] => fresh[i])
    BY <2>5, <2>6, PowerwallFacts
  <2>8. fresh'[i] => cache'[i] = bat'
    BY <2>7, <1>7, PowerwallFacts DEF done
  <2>9. \A r \in Posts : r \notin on.todo => Agrees(r, bat', on.to)
    BY <1>6, <1>7, <2>1, <2>2
  <2>10. UpdateInv(call[u], ver[u])'
    BY <1>1, <1>6, <2>2, <2>4, <2>9 DEF UpdateInv
  <2> QED
    BY <1>1, <1>5, <1>7, <2>1, <2>4, <2>7, <2>8, <2>10, PowerwallFacts, SoundAgain
<1>8. CASE /\ Powerwall!Fault("refused") /\ UNCHANGED bat
           /\ Powerwall!Fails(u, q.inst, p, q.to)
  <2>1. faults' \in 0..PowerwallFaults
    BY <1>8, PowerwallFacts, SMT DEF Powerwall!Fault
  <2>2. call' = [call EXCEPT ![u] = Powerwall!Idle] /\ UNCHANGED <<cache, fresh>>
    BY <1>8 DEF Powerwall!Fails
  <2>3. call'[u].at = "idle" /\ call' \in [One -> Powerwall!Calls]
    BY <2>2, CallFields, PowerwallFacts
  <2>4. last' = [last EXCEPT !.ok = FALSE]
    BY <1>8 DEF Powerwall!Fails
  <2>5. last' \in [ok : BOOLEAN, to : PowerwallTypes] /\ ~last'.ok
    BY <2>4, PowerwallFacts
  <2>6. UpdateInv(call[u], ver[u])'
    BY <1>1, <1>6, <2>3, <2>5 DEF UpdateInv
  <2> QED
    BY <1>1, <1>5, <1>8, <2>1, <2>2, <2>3, <2>5, <2>6, PowerwallFacts, SoundAgain
<1> QED
  BY <1>2, <1>7, <1>8

LEMMA PowerwallReturns ==
    ASSUME PowerwallSound, NEW u, One = {u}, NEW i, Server = {i}, Powerwall!Return(u)
    PROVE  PowerwallSound'
<1> DEFINE q == call[u]
           v == [at |-> "sleeping", expect |-> q.to.soc, n |-> 1, dead |-> FALSE]
           on == [q EXCEPT !.at = "ending"]
<1>1. /\ q.at = "posting" /\ q.todo = {} /\ ver[u].at = "idle"
      /\ call' = [call EXCEPT ![u] = on]
      /\ ver' = IF q.soc THEN [ver EXCEPT ![u] = v] ELSE ver
      /\ last' = [ok |-> TRUE, to |-> q.to]
      /\ UNCHANGED <<wanted, bat, cache, fresh, changes, faults, newest>>
  BY DEF Powerwall!Return
<1>2. /\ q.to \in PowerwallTypes /\ q.to.soc \in 0..100 /\ bat \in PowerwallTypes
      /\ q \in [at : {"posting", "ending", "waiting"}, sweep : BOOLEAN, inst : Server,
                to : PowerwallTypes, todo : SUBSET Posts, soc : BOOLEAN]
  <2>1. q.at # "idle" /\ q \in Powerwall!Calls
    BY <1>1, PowerwallFacts
  <2> QED
    BY <2>1, CallFields, PowerwallFacts DEF PowerwallTypes
<1>3. bat = q.to
  <2>1. \A r \in Posts : Agrees(r, bat, q.to)
    BY <1>1, PowerwallFacts DEF UpdateInv
  <2> QED
    BY <1>2, <2>1, AllAgree
<1>4. /\ on \in [at : {"posting", "ending", "waiting"}, sweep : BOOLEAN, inst : Server,
                 to : PowerwallTypes, todo : SUBSET Posts, soc : BOOLEAN]
      /\ on.at = "ending" /\ on.to = q.to
  BY <1>2
<1>5. v \in Powerwall!Verifications /\ v.expect = q.to.soc
  <2>1. v \in [at : {"sleeping", "looking", "posting"}, expect : 0..100, n : 1..2, dead : BOOLEAN]
    BY <1>2, SMT
  <2> QED
    BY <2>1, CallFields
<1> HIDE DEF on, v, q
<1>6. call'[u] = on /\ call' \in [One -> Powerwall!Calls]
  BY <1>1, <1>4, CallFields, PowerwallFacts
<1>7. ver' \in [One -> Powerwall!Verifications] /\ (ver'[u] = v \/ ver'[u] = ver[u])
  BY <1>1, <1>5, PowerwallFacts
<1>8. last' \in [ok : BOOLEAN, to : PowerwallTypes] /\ last'.ok /\ last'.to = q.to
  BY <1>1, <1>2
<1>9. UpdateInv(call[u], ver[u])'
  BY <1>1, <1>3, <1>4, <1>5, <1>6, <1>7, <1>8 DEF UpdateInv
<1> QED
  BY <1>1, <1>6, <1>7, <1>8, <1>9, PowerwallFacts, SoundAgain

LEMMA PowerwallFinishes ==
    ASSUME PowerwallSound, NEW u, One = {u}, NEW i, Server = {i}, Powerwall!Finish(u)
    PROVE  PowerwallSound'
<1> DEFINE q == call[u]
           on == [q EXCEPT !.at = "waiting"]
           v == [ver[u] EXCEPT !.dead = TRUE]
<1>1. /\ q.at = "ending"
      /\ call' = [call EXCEPT ![u] = on]
      /\ ver' = IF q.sweep /\ ver[u].at # "idle" THEN [ver EXCEPT ![u] = v] ELSE ver
      /\ UNCHANGED <<wanted, bat, cache, fresh, changes, faults, last, newest>>
  BY DEF Powerwall!Finish
<1>2. q \in [at : {"posting", "ending", "waiting"}, sweep : BOOLEAN, inst : Server,
             to : PowerwallTypes, todo : SUBSET Posts, soc : BOOLEAN]
  <2>1. q.at # "idle" /\ q \in Powerwall!Calls
    BY <1>1, PowerwallFacts
  <2> QED
    BY <2>1, CallFields
<1>3. /\ on \in [at : {"posting", "ending", "waiting"}, sweep : BOOLEAN, inst : Server,
                 to : PowerwallTypes, todo : SUBSET Posts, soc : BOOLEAN]
      /\ on.at = "waiting" /\ on.to = q.to
  BY <1>2
<1>4. ver[u].at # "idle" => v \in Powerwall!Verifications /\ v.expect = ver[u].expect /\ v.at = ver[u].at
  <2>1. SUFFICES ASSUME ver[u].at # "idle"
        PROVE  v \in Powerwall!Verifications /\ v.expect = ver[u].expect /\ v.at = ver[u].at
    OBVIOUS
  <2>2. ver[u] \in [at : {"sleeping", "looking", "posting"}, expect : 0..100, n : 1..2, dead : BOOLEAN]
    BY <2>1, CallFields, PowerwallFacts
  <2>3. /\ v \in [at : {"sleeping", "looking", "posting"}, expect : 0..100, n : 1..2, dead : BOOLEAN]
        /\ v.expect = ver[u].expect /\ v.at = ver[u].at
    BY <2>2
  <2> QED
    BY <2>3, CallFields
<1> HIDE DEF on, v, q
<1>5. call'[u] = on /\ call' \in [One -> Powerwall!Calls]
  BY <1>1, <1>3, CallFields, PowerwallFacts
<1>6. ver' \in [One -> Powerwall!Verifications] /\ (ver'[u] = ver[u] \/ (ver[u].at # "idle" /\ ver'[u] = v))
  BY <1>1, <1>4, PowerwallFacts
<1>7. UpdateInv(call[u], ver[u])'
  BY <1>1, <1>3, <1>4, <1>5, <1>6, PowerwallFacts DEF UpdateInv, q
<1> QED
  BY <1>1, <1>5, <1>6, <1>7, PowerwallFacts, SoundAgain

LEMMA PowerwallAnswers ==
    ASSUME PowerwallSound, NEW u, One = {u}, NEW i, Server = {i}, Powerwall!Answer(u)
    PROVE  PowerwallSound'
<1>1. /\ call[u].at = "waiting" /\ ver[u].at = "idle"
      /\ call' = [call EXCEPT ![u] = Powerwall!Idle]
      /\ UNCHANGED <<wanted, bat, cache, fresh, ver, changes, faults, last, newest>>
  BY DEF Powerwall!Answer
<1>2. call'[u].at = "idle" /\ call' \in [One -> Powerwall!Calls]
  BY <1>1, CallFields, PowerwallFacts
<1>3. UpdateInv(call[u], ver[u])'
  BY <1>1, <1>2, PowerwallFacts DEF UpdateInv
<1> QED
  BY <1>1, <1>2, <1>3, PowerwallFacts, SoundAgain

(* A verification that goes on, or ends, as long as the Powerwall's reserve   *)
(* is what it expects.                                                        *)
LEMMA VerificationGoesOn ==
    ASSUME PowerwallSound, NEW u, One = {u}, NEW i, Server = {i}, NEW v \in Powerwall!Verifications,
           ver' = [ver EXCEPT ![u] = v], ver[u].at # "idle",
           v.at # "idle" => v.expect = ver[u].expect,
           UNCHANGED <<wanted, bat, call, changes, last, newest>>, faults' \in 0..PowerwallFaults,
           \/ UNCHANGED <<cache, fresh>>
           \/ cache' = [cache EXCEPT ![i] = bat] /\ fresh' = [fresh EXCEPT ![i] = TRUE]
    PROVE  PowerwallSound'
<1>1. ver' \in [One -> Powerwall!Verifications] /\ ver'[u] = v
  BY PowerwallFacts
<1>2. /\ cache' \in [Server -> PowerwallTypes] /\ fresh' \in [Server -> BOOLEAN]
      /\ (fresh'[i] => cache'[i] = bat')
  BY PowerwallFacts
<1>3. UpdateInv(call[u], ver[u])'
  BY <1>1, PowerwallFacts DEF UpdateInv
<1> QED
  BY <1>1, <1>2, <1>3, PowerwallFacts, SoundAgain

LEMMA PowerwallWakes ==
    ASSUME PowerwallSound, NEW u, One = {u}, NEW i, Server = {i}, Powerwall!Wake(u)
    PROVE  PowerwallSound'
<1> DEFINE v == IF Powerwall!Outlives(u) THEN [ver[u] EXCEPT !.at = "looking"] ELSE Powerwall!Idle
<1>1. /\ ver[u].at = "sleeping" /\ ver' = [ver EXCEPT ![u] = v]
      /\ UNCHANGED <<wanted, bat, cache, fresh, call, changes, faults, last, newest>>
  BY DEF Powerwall!Wake, Powerwall!Verifies
<1>2. v \in Powerwall!Verifications /\ (v.at # "idle" => v.expect = ver[u].expect)
  BY <1>1, CallFields, PowerwallFacts
<1> HIDE DEF v
<1> QED
  BY <1>1, <1>2, VerificationGoesOn, PowerwallFacts

LEMMA PowerwallLooks ==
    ASSUME PowerwallSound, NEW u, One = {u}, NEW i, Server = {i}, Powerwall!Look(u)
    PROVE  PowerwallSound'
<1> DEFINE w == ver[u]
<1>1. /\ w.at = "looking" /\ UNCHANGED <<wanted, bat, call, changes, last, newest>>
      /\ w \in [at : {"sleeping", "looking", "posting"}, expect : 0..100, n : 1..2, dead : BOOLEAN]
  BY CallFields, PowerwallFacts DEF Powerwall!Look
<1>2. call[u].inst = i
  <2>1. call[u].at # "idle" /\ call[u] \in Powerwall!Calls
    BY <1>1, PowerwallFacts DEF UpdateInv
  <2> QED
    BY <2>1, CallFields
<1>3. /\ Powerwall!Idle \in Powerwall!Verifications /\ Powerwall!Idle.at = "idle"
      /\ Powerwall!TooEarly(w) \in Powerwall!Verifications
      /\ (Powerwall!TooEarly(w).at # "idle" => Powerwall!TooEarly(w).expect = w.expect)
      /\ [w EXCEPT !.at = "posting"] \in Powerwall!Verifications
      /\ [w EXCEPT !.at = "posting"].expect = w.expect
  <2>1. /\ [w EXCEPT !.at = "posting"] \in
              [at : {"sleeping", "looking", "posting"}, expect : 0..100, n : 1..2, dead : BOOLEAN]
        /\ [w EXCEPT !.at = "posting"].expect = w.expect
    BY <1>1
  <2>2. /\ [w EXCEPT !.at = "sleeping", !.n = 2] \in
              [at : {"sleeping", "looking", "posting"}, expect : 0..100, n : 1..2, dead : BOOLEAN]
        /\ [w EXCEPT !.at = "sleeping", !.n = 2].expect = w.expect
    <3>1. 2 \in 1..2
      BY SMT
    <3> QED
      BY <1>1, <3>1
  <2> QED
    BY <2>1, <2>2, CallFields DEF Powerwall!TooEarly
<1>4. PICK v \in {Powerwall!Idle, Powerwall!TooEarly(w), [w EXCEPT !.at = "posting"]} :
        /\ ver' = [ver EXCEPT ![u] = v]
        /\ \/ cache' = [cache EXCEPT ![i] = bat] /\ fresh' = [fresh EXCEPT ![i] = TRUE] /\ UNCHANGED faults
           \/ Powerwall!Fault("read") /\ UNCHANGED <<cache, fresh>>
  BY <1>2 DEF Powerwall!Look, Powerwall!Verifies
<1>5. faults' \in 0..PowerwallFaults
  BY <1>4, PowerwallFacts, SMT DEF Powerwall!Fault
<1>6. v \in Powerwall!Verifications /\ (v.at # "idle" => v.expect = w.expect)
  BY <1>3
<1> QED
  BY <1>1, <1>4, <1>5, <1>6, VerificationGoesOn, PowerwallFacts

LEMMA PowerwallReposts ==
    ASSUME PowerwallSound, NEW u, One = {u}, NEW i, Server = {i}, Powerwall!Repost(u)
    PROVE  PowerwallSound'
<1>1. /\ ver[u].at = "posting" /\ bat' \in {bat, [bat EXCEPT !.soc = ver[u].expect]}
      /\ UNCHANGED faults \/ Powerwall!Fault("refused")
      /\ ver' = [ver EXCEPT ![u] = Powerwall!Idle]
      /\ UNCHANGED <<wanted, cache, fresh, call, changes, last, newest>>
  BY DEF Powerwall!Repost, Powerwall!Verifies
<1>2. ver[u].expect = bat.soc
  BY <1>1, PowerwallFacts DEF UpdateInv
<1>3. bat' = bat
  BY <1>1, <1>2, PowerwallFacts DEF PowerwallTypes
<1>4. faults' \in 0..PowerwallFaults
  <2>1. faults \in 0..PowerwallFaults /\ PowerwallFaults \in Nat
    BY PowerwallFacts
  <2> QED
    BY <1>1, <2>1, SMT DEF Powerwall!Fault
<1> QED
  BY <1>1, <1>3, <1>4, CallFields, VerificationGoesOn, PowerwallFacts

LEMMA PowerwallGoesOn == ASSUME PowerwallSound, Powerwall!Next PROVE PowerwallSound'
<1>1. PICK u \in One : One = {u}
  BY PowerwallAssumption
<1>2. PICK i \in Server : Server = {i}
  BY PowerwallAssumption
<1>3. ~Powerwall!BeginUnread(u) /\ ~Powerwall!Storm(u)
  BY DEF Powerwall!BeginUnread, Powerwall!Storm, Powerwall!Fault
<1>4. \/ Powerwall!Change \/ Powerwall!Age(i) \/ Powerwall!Begin(u) \/ Powerwall!Post(u)
      \/ Powerwall!Return(u) \/ Powerwall!Finish(u) \/ Powerwall!Answer(u)
      \/ Powerwall!Wake(u) \/ Powerwall!Look(u) \/ Powerwall!Repost(u)
  BY <1>1, <1>2, <1>3 DEF Powerwall!Next
<1> QED
  BY <1>1, <1>2, <1>4, PowerwallWants, PowerwallAges, PowerwallBegins, PowerwallPosts, PowerwallReturns,
     PowerwallFinishes, PowerwallAnswers, PowerwallWakes, PowerwallLooks, PowerwallReposts

LEMMA PowerwallHolds == ASSUME part = "powerwall" => PowerwallSound PROVE PowerwallInv
<1>1. SUFFICES ASSUME part = "powerwall", PowerwallSound
      PROVE  Powerwall!TypeOK /\ Powerwall!Obeyed /\ Powerwall!CacheTrue
  BY <1>1 DEF PowerwallInv, PowerwallObeys, CacheTrue
<1>2. PICK u \in One : One = {u}
  BY PowerwallAssumption
<1>3. Powerwall!Obeyed
  BY <1>1, <1>2 DEF PowerwallSound, UpdateInv, Powerwall!Obeyed, Powerwall!Quiet
<1> QED
  BY <1>1, <1>3 DEF PowerwallSound

-----------------------------------------------------------------------------
(* An Enphase battery commanded by any number of updates: the puts a call has *)
(* left, and what those it made, or found needless, have brought about as     *)
(* long as nobody else asked anything of the battery.                         *)
EnphaseTarget(c, l) ==
    IF c.bat = "charge" THEN c.to
    ELSE IF c.bat = "standby" THEN Larger(l, Larger(c.min, 10)) ELSE Larger(c.min, 10)

EnphaseCall(u) ==
    LET q == call[u] IN
    /\ (q.at = "posting" <=> q.todo # {}) /\ (site.dry => q.todo = {})
    /\ q.held => "profile" \notin q.todo
    /\ alone[u] => /\ "charge" \in q.todo => asked.sched \/ asked.charge # q.charge
                   /\ "profile" \in q.todo => asked.soc # q.soc \/ asked.profile # "self"
    /\ alone[u] /\ ~q.held =>
        /\ ~Microinverters!Backup
        /\ "charge" \in q.todo => (asked.charge => q.charge)
        /\ site.dry \/ (IF "profile" \in q.todo THEN Microinverters!Near(q.soc, EnphaseTarget(q.cmd, q.level))
                        ELSE Microinverters!Obeys(q.cmd, q.level))

EnphaseSound ==
    /\ Microinverters!TypeOK
    /\ \A u \in Two : call[u].at # "idle" => EnphaseCall(u)

EnphaseCalls ==
    [at : {"posting", "done"}, cmd : EnphaseAsked, level : EnphaseLevels, held : BOOLEAN,
     charge : BOOLEAN, soc : 10..100, todo : SUBSET {"charge", "profile"}]

LEMMA EnphaseCallFields ==
    /\ Microinverters!Idle \in Microinverters!Calls /\ Microinverters!Idle.at = "idle"
    /\ \A q \in EnphaseCalls : q \in Microinverters!Calls
    /\ \A q \in Microinverters!Calls : q.at # "idle" => q \in EnphaseCalls
BY DEF Microinverters!Calls, Microinverters!Idle, EnphaseCalls

LEMMA EnphaseFacts ==
    ASSUME Microinverters!TypeOK
    PROVE  /\ site.gridCharge \in BOOLEAN /\ site.dry \in BOOLEAN
           /\ wanted \in EnphaseAsked /\ level \in EnphaseLevels /\ level \in 0..100
           /\ wanted.bat \in BatteryModes /\ wanted.to \in 10..100 /\ wanted.min \in 0..100
           /\ now \in Microinverters!AllConfigs /\ asked \in Microinverters!AllConfigs
           /\ call \in [Two -> Microinverters!Calls] /\ alone \in [Two -> BOOLEAN]
           /\ weather \in [Two -> {"unread", "calm", "storm"}]
           /\ faults \in 0..EnphaseFaults /\ EnphaseFaults \in Nat
           /\ changes \in 0..EnphaseChanges /\ EnphaseChanges \in Nat
           /\ storm \in BOOLEAN /\ site \in EnphaseSites
BY EnphaseAssumption, PartsAssumption DEF Microinverters!TypeOK, Microinverters!Assumptions

(* The reserve put is the one the command needs, or what is asked, if near.   *)
LEMMA EnphaseReserve ==
    ASSUME NEW c, c.bat \in BatteryModes, c.to \in 10..100, c.min \in 0..100, NEW l \in 0..100,
           asked.soc \in 10..100
    PROVE  /\ Microinverters!Reserve(c, l) \in 10..100
           /\ Microinverters!Near(Microinverters!Reserve(c, l), EnphaseTarget(c, l))
<1> DEFINE soc == CASE c.bat = "charge" -> c.to
                    [] c.bat = "standby" -> Microinverters!Larger(l, c.min)
                    [] OTHER -> c.min
           kept == Microinverters!Larger(soc, 10)
<1>1. kept = EnphaseTarget(c, l) /\ kept \in 10..100
  <2>1. CASE c.bat = "charge"
    <3>1. soc = c.to
      BY <2>1
    <3> HIDE DEF soc
    <3> QED
      BY <2>1, <3>1, SMT DEF Microinverters!Larger, EnphaseTarget
  <2>2. CASE c.bat = "standby"
    <3>1. soc = Microinverters!Larger(l, c.min)
      BY <2>2
    <3> HIDE DEF soc
    <3> QED
      BY <2>2, <3>1, SMT DEF Microinverters!Larger, Larger, EnphaseTarget
  <2>3. CASE c.bat # "charge" /\ c.bat # "standby"
    <3>1. soc = c.min
      BY <2>3
    <3> HIDE DEF soc
    <3> QED
      BY <2>3, <3>1, SMT DEF Microinverters!Larger, Larger, EnphaseTarget
  <2> QED
    BY <2>1, <2>2, <2>3
<1>2. Microinverters!Reserve(c, l) = IF kept - asked.soc \in -1..1 THEN asked.soc ELSE kept
  BY DEF Microinverters!Reserve, Microinverters!Current
<1> HIDE DEF kept
<1> QED
  BY <1>1, <1>2, SMT DEF Microinverters!Near

LEMMA EnphaseObeysMeans ==
    ASSUME NEW c, NEW l
    PROVE  Microinverters!Obeys(c, l) <=>
             asked.profile = "self" /\ Microinverters!Near(asked.soc, EnphaseTarget(c, l))
BY DEF Microinverters!Obeys, EnphaseTarget, Larger, Microinverters!Larger

(* A call that another's step leaves where it was.                            *)
LEMMA EnphaseCallKept ==
    ASSUME NEW w, EnphaseCall(w), call'[w] = call[w], site' = site,
           alone'[w] => alone[w] /\ asked' = asked /\ now' \in {now, asked}
    PROVE  EnphaseCall(w)'
BY DEF EnphaseCall, Microinverters!Backup, Microinverters!Obeys

LEMMA EnphaseChange == ASSUME EnphaseSound, Microinverters!Change PROVE EnphaseSound'
<1>1. /\ UNCHANGED <<site, now, weather, call, faults>>
      /\ wanted' \in EnphaseAsked /\ level' \in EnphaseLevels /\ storm' \in BOOLEAN
      /\ \/ UNCHANGED <<asked, alone>>
         \/ asked' \in EnphaseOwned /\ alone' = [u \in Two |-> FALSE]
  BY EnphaseFacts DEF Microinverters!Change, EnphaseSound
<1>2. changes' \in 0..EnphaseChanges
  <2>1. changes \in 0..EnphaseChanges /\ EnphaseChanges \in Nat
    BY EnphaseFacts DEF EnphaseSound
  <2> QED
    BY <2>1, SMT DEF Microinverters!Change
<1>3. Microinverters!TypeOK'
  BY <1>1, <1>2, EnphaseAssumption DEF Microinverters!TypeOK, EnphaseSound
<1>4. ASSUME NEW w \in Two, call'[w].at # "idle" PROVE EnphaseCall(w)'
  BY <1>1, <1>4, EnphaseCallKept DEF EnphaseSound
<1> QED
  BY <1>3, <1>4 DEF EnphaseSound

LEMMA EnphaseApplies == ASSUME EnphaseSound, Microinverters!Apply PROVE EnphaseSound'
<1>1. now' = asked /\ UNCHANGED <<site, wanted, level, storm, changes, asked, weather, call, alone, faults>>
  BY DEF Microinverters!Apply, Microinverters!env
<1>2. Microinverters!TypeOK'
  BY <1>1 DEF Microinverters!TypeOK, EnphaseSound
<1>3. ASSUME NEW w \in Two, call'[w].at # "idle" PROVE EnphaseCall(w)'
  BY <1>1, <1>3, EnphaseCallKept DEF EnphaseSound
<1> QED
  BY <1>2, <1>3 DEF EnphaseSound

(* The weather is forgotten, a battery cannot be read, a call returns.        *)
LEMMA EnphaseRest ==
    ASSUME EnphaseSound, NEW u \in Two,
           Microinverters!Age(u) \/ Microinverters!BeginUnread(u) \/ Microinverters!Return(u)
    PROVE  EnphaseSound'
<1>1. /\ UNCHANGED <<site, wanted, level, storm, changes, now, asked, alone>>
      /\ weather' \in {weather, [weather EXCEPT ![u] = "unread"]}
      /\ call' \in {call, [call EXCEPT ![u] = Microinverters!Idle]}
      /\ faults' = faults \/ Microinverters!Fault("read")
  BY DEF Microinverters!Age, Microinverters!BeginUnread, Microinverters!Return, Microinverters!env
<1>2. faults' \in 0..EnphaseFaults
  <2>1. faults \in 0..EnphaseFaults /\ EnphaseFaults \in Nat
    BY EnphaseFacts DEF EnphaseSound
  <2> QED
    BY <1>1, <2>1, SMT DEF Microinverters!Fault
<1>3. Microinverters!TypeOK'
  BY <1>1, <1>2, EnphaseCallFields DEF Microinverters!TypeOK, EnphaseSound
<1>4. ASSUME NEW w \in Two, call'[w].at # "idle" PROVE EnphaseCall(w)'
  <2>1. call'[w] = call[w]
    BY <1>1, <1>4, EnphaseCallFields, EnphaseFacts DEF EnphaseSound
  <2> QED
    BY <1>1, <1>4, <2>1, EnphaseCallKept DEF EnphaseSound
<1> QED
  BY <1>3, <1>4 DEF EnphaseSound

LEMMA EnphaseBegins ==
    ASSUME EnphaseSound, NEW u \in Two, Microinverters!Begin(u) PROVE EnphaseSound'
<1> DEFINE known == IF weather[u] # "unread" THEN weather[u] ELSE IF storm THEN "storm" ELSE "calm"
           held == known = "storm" \/ Microinverters!Backup
           todo == Microinverters!Todo(wanted, level, held)
           q == [at |-> IF todo = {} THEN "done" ELSE "posting", cmd |-> wanted, level |-> level,
                 held |-> held, charge |-> Microinverters!Charge(held),
                 soc |-> Microinverters!Reserve(wanted, level), todo |-> todo]
<1>1. /\ weather' = [weather EXCEPT ![u] = known]
      /\ call' = [call EXCEPT ![u] = IF held /\ wanted.bat = "export" THEN Microinverters!Idle ELSE q]
      /\ alone' = [alone EXCEPT ![u] = TRUE]
      /\ UNCHANGED <<site, wanted, level, storm, changes, now, asked, faults>>
  BY DEF Microinverters!Begin, Microinverters!env
<1>2. known \in {"unread", "calm", "storm"} /\ held \in BOOLEAN
  BY EnphaseFacts DEF EnphaseSound
<1>3. ~held => ~Microinverters!Backup
  OBVIOUS
<1>4. /\ asked.charge \in BOOLEAN /\ asked.sched \in BOOLEAN /\ asked.soc \in 10..100
      /\ asked.profile \in Microinverters!Profiles
  BY EnphaseFacts DEF EnphaseSound, Microinverters!AllConfigs
<1> HIDE DEF known, held
<1> DEFINE charge == Microinverters!Charge(held)
           soc == Microinverters!Reserve(wanted, level)
<1>5. charge \in BOOLEAN /\ (~held => (asked.charge => charge))
  BY <1>4, EnphaseFacts DEF EnphaseSound, Microinverters!Charge, Microinverters!Current
<1>6. soc \in 10..100 /\ Microinverters!Near(soc, EnphaseTarget(wanted, level))
  BY <1>4, EnphaseReserve, EnphaseFacts DEF EnphaseSound
<1>7. /\ todo \in SUBSET {"charge", "profile"} /\ (site.dry => todo = {})
      /\ "charge" \in todo => charge # asked.charge \/ asked.sched
      /\ "profile" \in todo => ~held /\ (soc # asked.soc \/ asked.profile # "self")
      /\ ~site.dry /\ ~held /\ "profile" \notin todo => soc = asked.soc /\ asked.profile = "self"
  BY DEF Microinverters!Todo, Microinverters!Current
<1> HIDE DEF charge, soc, todo
<1>8. q = [at |-> IF todo = {} THEN "done" ELSE "posting", cmd |-> wanted, level |-> level,
           held |-> held, charge |-> charge, soc |-> soc, todo |-> todo]
  BY DEF charge, soc
<1> HIDE DEF q
<1>9. /\ q.at = (IF todo = {} THEN "done" ELSE "posting") /\ q.cmd = wanted /\ q.level = level
      /\ q.held = held /\ q.charge = charge /\ q.soc = soc /\ q.todo = todo
  BY <1>8
<1>10. q \in EnphaseCalls
  BY <1>2, <1>5, <1>6, <1>7, <1>8, EnphaseFacts DEF EnphaseCalls, EnphaseSound
<1>11. q \in Microinverters!Calls
  BY <1>10, EnphaseCallFields
<1>12. Microinverters!TypeOK'
  BY <1>1, <1>2, <1>11, EnphaseCallFields DEF Microinverters!TypeOK, EnphaseSound
<1>13. call'[u].at # "idle" => call'[u] = q
  BY <1>1, EnphaseCallFields, EnphaseFacts DEF EnphaseSound
<1>14. /\ alone'[u] /\ \A w \in Two : w # u => call'[w] = call[w] /\ alone'[w] = alone[w]
       /\ \A w \in Two : alone'[w] \in BOOLEAN
  BY <1>1, EnphaseFacts DEF EnphaseSound
<1>15. call'[u] = q => EnphaseCall(u)'
  <2>1. SUFFICES ASSUME call'[u] = q PROVE EnphaseCall(u)'
    OBVIOUS
  <2>2. ~held => ~Microinverters!Backup'
    BY <1>1, <1>3 DEF Microinverters!Backup
  <2>3. /\ q.at = "posting" <=> q.todo # {}
        /\ site.dry => q.todo = {}
        /\ q.held => "profile" \notin q.todo
        /\ "charge" \in q.todo => asked.sched \/ asked.charge # q.charge
        /\ "profile" \in q.todo => asked.soc # q.soc \/ asked.profile # "self"
        /\ ~q.held => ("charge" \in q.todo => (asked.charge => q.charge))
    BY <1>5, <1>7, <1>9
  <2>4. ~q.held => site.dry \/ (IF "profile" \in q.todo
                                THEN Microinverters!Near(q.soc, EnphaseTarget(q.cmd, q.level))
                                ELSE Microinverters!Obeys(q.cmd, q.level))
    BY <1>6, <1>7, <1>9, EnphaseObeysMeans
  <2> QED
    BY <1>1, <1>9, <2>1, <2>2, <2>3, <2>4 DEF EnphaseCall, Microinverters!Obeys
<1>16. ASSUME NEW w \in Two, w # u, call'[w].at # "idle" PROVE EnphaseCall(w)'
  BY <1>1, <1>14, <1>16, EnphaseCallKept DEF EnphaseSound
<1> QED
  BY <1>12, <1>13, <1>15, <1>16 DEF EnphaseSound

LEMMA EnphasePuts ==
    ASSUME EnphaseSound, NEW u \in Two, Microinverters!PutOne(u) PROVE EnphaseSound'
<1> DEFINE q == call[u]
           p == Microinverters!NextPut(q.todo)
           on == [q EXCEPT !.todo = q.todo \ {p}, !.at = IF q.todo \ {p} = {} THEN "done" ELSE @]
<1>1. /\ q.at = "posting" /\ UNCHANGED <<site, wanted, level, storm, changes, now>>
      /\ alone' = [v \in Two |-> alone[v] /\ (v = u \/ asked' = asked)]
      /\ weather' \in {weather, [weather EXCEPT ![u] = "unread"]}
  BY DEF Microinverters!PutOne, Microinverters!env
<1>2. [call EXCEPT ![u].todo = q.todo \ {p}, ![u].at = IF q.todo \ {p} = {} THEN "done" ELSE @]
        = [call EXCEPT ![u] = on]
  BY EnphaseFacts, EnphaseCallFields, <1>1 DEF EnphaseSound, EnphaseCalls
<1>3. /\ asked' \in {asked, Microinverters!Put(p, q)}
      /\ \/ call' = [call EXCEPT ![u] = on] /\ (asked' = Microinverters!Put(p, q) \/ ~Microinverters!Ends(p, q))
         \/ call' = [call EXCEPT ![u] = Microinverters!Idle]
      /\ faults' = faults \/ Microinverters!Fault("lost") \/ Microinverters!Fault("refused")
  BY <1>2 DEF Microinverters!PutOne
<1>4. /\ q \in EnphaseCalls /\ q.todo \in SUBSET {"charge", "profile"} /\ q.todo # {}
      /\ q.charge \in BOOLEAN /\ q.soc \in 10..100 /\ q.held \in BOOLEAN
      /\ EnphaseCall(u)
  <2>1. q \in EnphaseCalls /\ EnphaseCall(u)
    BY <1>1, EnphaseFacts, EnphaseCallFields DEF EnphaseSound
  <2> QED
    BY <1>1, <2>1 DEF EnphaseCalls, EnphaseCall
<1>5. p \in q.todo /\ p \in {"charge", "profile"} /\ (p = "profile" => "charge" \notin q.todo)
  BY <1>4 DEF Microinverters!NextPut
<1>6. /\ asked' \in Microinverters!AllConfigs
      /\ p = "charge" => asked'.profile = asked.profile /\ asked'.soc = asked.soc
      /\ asked' = asked \/ (p = "charge" /\ asked'.charge = q.charge)
           \/ (p = "profile" /\ asked'.profile = "self" /\ asked'.soc = q.soc)
  <2>1. asked \in Microinverters!AllConfigs
    BY EnphaseFacts DEF EnphaseSound
  <2>2. /\ Microinverters!Put(p, q) \in Microinverters!AllConfigs
        /\ p = "charge" => /\ Microinverters!Put(p, q).profile = asked.profile
                           /\ Microinverters!Put(p, q).soc = asked.soc
                           /\ Microinverters!Put(p, q).charge = q.charge
        /\ p = "profile" => /\ Microinverters!Put(p, q).profile = "self"
                            /\ Microinverters!Put(p, q).soc = q.soc
    BY <1>4, <1>5, <2>1 DEF Microinverters!Put, Microinverters!AllConfigs, Microinverters!Profiles
  <2> QED
    BY <1>3, <1>5, <2>1, <2>2
<1>7. /\ on \in EnphaseCalls /\ on.cmd = q.cmd /\ on.level = q.level /\ on.held = q.held
      /\ on.charge = q.charge /\ on.soc = q.soc /\ on.todo = q.todo \ {p}
      /\ on.at = (IF q.todo \ {p} = {} THEN "done" ELSE "posting")
  BY <1>1, <1>4 DEF EnphaseCalls
<1>8. faults' \in 0..EnphaseFaults
  <2>1. faults \in 0..EnphaseFaults /\ EnphaseFaults \in Nat
    BY EnphaseFacts DEF EnphaseSound
  <2> QED
    BY <1>3, <2>1, SMT DEF Microinverters!Fault
<1> HIDE DEF on, p, q
<1>9. call' \in [Two -> Microinverters!Calls] /\ call'[u] \in {on, Microinverters!Idle}
      /\ \A w \in Two : w # u => call'[w] = call[w]
  BY <1>3, <1>7, EnphaseCallFields, EnphaseFacts DEF EnphaseSound
<1>10. Microinverters!TypeOK'
  <2>1. alone' \in [Two -> BOOLEAN]
    BY <1>1, EnphaseFacts DEF EnphaseSound
  <2>2. weather' \in [Two -> {"unread", "calm", "storm"}]
    BY <1>1, EnphaseFacts DEF EnphaseSound
  <2> QED
    BY <1>1, <1>6, <1>8, <1>9, <2>1, <2>2 DEF Microinverters!TypeOK, EnphaseSound
<1>11. call'[u].at # "idle" =>
         call'[u] = on /\ (asked' = Microinverters!Put(p, q) \/ (p = "charge" /\ asked' = asked))
  <2>1. Microinverters!Idle # on
    BY <1>7, EnphaseCallFields
  <2>2. call \in [Two -> Microinverters!Calls]
    BY EnphaseFacts DEF EnphaseSound
  <2> QED
    BY <1>3, <1>5, <2>1, <2>2, EnphaseCallFields DEF Microinverters!Ends
<1>12. (alone'[u] => alone[u]) /\ \A w \in Two : w # u => (alone'[w] => alone[w] /\ asked' = asked)
  BY <1>1
<1>13. ASSUME call'[u].at # "idle" PROVE EnphaseCall(u)'
  <2>1. call'[u] = on
    BY <1>11, <1>13
  <2>2. /\ "charge" \notin on.todo
        /\ "profile" \in on.todo => p = "charge" /\ "profile" \in q.todo
        /\ "profile" \notin on.todo => p = "profile" \/ "profile" \notin q.todo
    BY <1>5, <1>7, <1>4
  <2>3. /\ (on.at = "posting" <=> on.todo # {}) /\ (site.dry => on.todo = {})
        /\ on.held => "profile" \notin on.todo
    BY <1>4, <1>7 DEF EnphaseCall, q
  <2>4. alone[u] /\ "profile" \in on.todo => asked'.soc # on.soc \/ asked'.profile # "self"
    BY <1>4, <1>6, <1>7, <2>2 DEF EnphaseCall, q
  <2>5. alone[u] /\ ~on.held => ~Microinverters!Backup'
    <3>1. SUFFICES ASSUME alone[u], ~on.held PROVE ~Microinverters!Backup'
      OBVIOUS
    <3>2. ~Microinverters!Backup
      BY <1>4, <1>7, <3>1 DEF EnphaseCall, q
    <3>3. asked'.profile # "backup"
      BY <1>5, <1>6, <3>2 DEF Microinverters!Backup
    <3> QED
      BY <1>1, <3>2, <3>3 DEF Microinverters!Backup
  <2>6. ASSUME alone[u], ~on.held, ~site.dry
        PROVE  IF "profile" \in on.todo THEN Microinverters!Near(on.soc, EnphaseTarget(on.cmd, on.level))
               ELSE asked'.profile = "self" /\ Microinverters!Near(asked'.soc, EnphaseTarget(on.cmd, on.level))
    <3>1. /\ "profile" \in q.todo => Microinverters!Near(q.soc, EnphaseTarget(q.cmd, q.level))
          /\ "profile" \notin q.todo => Microinverters!Obeys(q.cmd, q.level)
      BY <1>4, <1>7, <2>6 DEF EnphaseCall, q
    <3>2. CASE "profile" \in on.todo
      BY <1>7, <2>2, <3>1, <3>2
    <3>3. CASE "profile" \notin on.todo
      <4> DEFINE reserve == EnphaseTarget(q.cmd, q.level)
      <4>1. asked'.profile = "self" /\ Microinverters!Near(asked'.soc, reserve)
        <5>1. CASE p = "profile"
          <6>1. asked' = Microinverters!Put(p, q)
            BY <1>11, <1>13, <5>1
          <6>2. asked \in Microinverters!AllConfigs
            BY EnphaseFacts DEF EnphaseSound
          <6>3. asked'.profile = "self" /\ asked'.soc = q.soc
            BY <5>1, <6>1, <6>2 DEF Microinverters!Put, Microinverters!AllConfigs
          <6> QED
            BY <1>5, <3>1, <5>1, <6>3
        <5>2. CASE p = "charge"
          <6>1. Microinverters!Obeys(q.cmd, q.level)
            BY <2>2, <3>1, <3>3, <5>2
          <6> QED
            BY <1>6, <5>2, <6>1, EnphaseObeysMeans
        <5> QED
          BY <1>5, <5>1, <5>2
      <4> QED
        BY <1>7, <3>3, <4>1
    <3> QED
      BY <3>2, <3>3
  <2>7. \A c, l : asked'.profile = "self" /\ Microinverters!Near(asked'.soc, EnphaseTarget(c, l))
                    => Microinverters!Obeys(c, l)'
    BY DEF Microinverters!Obeys, EnphaseTarget, Larger, Microinverters!Larger
  <2>8. ASSUME NEW c, NEW l, c = on.cmd, l = on.level, Microinverters!Obeys(c, l)'
        PROVE  Microinverters!Obeys(call[u].cmd, call[u].level)'
    <3>1. call'[u].cmd = c /\ call'[u].level = l
      BY <2>1, <2>8
    <3> QED
      BY <2>8, <3>1 DEF Microinverters!Obeys
  <2>9. alone[u] /\ ~on.held =>
          site.dry \/ (IF "profile" \in on.todo
                       THEN Microinverters!Near(on.soc, EnphaseTarget(on.cmd, on.level))
                       ELSE Microinverters!Obeys(call[u].cmd, call[u].level)')
    BY <2>6, <2>7, <2>8
  <2>10. site' = site
    BY <1>1
  <2> QED
    BY <1>12, <2>1, <2>2, <2>3, <2>4, <2>5, <2>9, <2>10 DEF EnphaseCall
<1>14. ASSUME NEW w \in Two, w # u, call'[w].at # "idle" PROVE EnphaseCall(w)'
  BY <1>1, <1>9, <1>12, <1>14, EnphaseCallKept DEF EnphaseSound
<1> QED
  BY <1>10, <1>13, <1>14 DEF EnphaseSound

LEMMA EnphaseStarts == ASSUME Microinverters!Init PROVE EnphaseSound
<1>1. Microinverters!TypeOK
  BY EnphaseCallFields, EnphaseAssumption, PartsAssumption
     DEF Microinverters!Init, Microinverters!TypeOK, Microinverters!Assumptions
<1> QED
  BY <1>1, EnphaseCallFields DEF EnphaseSound, Microinverters!Init

LEMMA EnphaseGoesOn == ASSUME EnphaseSound, Microinverters!Next PROVE EnphaseSound'
BY EnphaseChange, EnphaseApplies, EnphaseRest, EnphaseBegins, EnphasePuts DEF Microinverters!Next

LEMMA EnphaseHolds == ASSUME part \in Enphases => EnphaseSound PROVE EnphaseInv
<1>1. SUFFICES ASSUME part \in Enphases, EnphaseSound
      PROVE  Microinverters!TypeOK /\ Microinverters!Obeyed
  BY <1>1 DEF EnphaseInv, EnphaseObeys
<1>2. Microinverters!Obeyed
  <2>1. SUFFICES ASSUME NEW u \in Two, Microinverters!Answered(u), ~call[u].held
        PROVE  Microinverters!Obeys(call[u].cmd, call[u].level)
    BY DEF Microinverters!Obeyed
  <2>2. call[u].at = "done" /\ alone[u] /\ ~site.dry
    BY <2>1 DEF Microinverters!Answered
  <2>3. EnphaseCall(u)
    BY <1>1, <2>2 DEF EnphaseSound
  <2> QED
    BY <2>1, <2>2, <2>3 DEF EnphaseCall
<1> QED
  BY <1>1, <1>2 DEF EnphaseSound

(* What a step never does: end a backup, or take the grid from a battery of   *)
(* its owner's; and what is asked for already it does not ask again.          *)
LEMMA EnphaseSteps ==
    ASSUME EnphaseSound, Microinverters!Next
    PROVE  Microinverters!KeepsBackup /\ Microinverters!KeepsOwnersCharge /\ Microinverters!AsksOnce
<1>1. CASE asked' = asked /\ \A u \in Two : ~Microinverters!PutOne(u)
  <2>1. \A u \in Two : call[u].at = "posting" => call'[u] = call[u]
    BY <1>1, EnphaseFacts DEF EnphaseSound, Microinverters!Next, Microinverters!Change, Microinverters!Apply,
       Microinverters!Age, Microinverters!Begin, Microinverters!BeginUnread, Microinverters!Return
  <2> QED
    BY <1>1, <2>1 DEF Microinverters!KeepsBackup, Microinverters!KeepsOwnersCharge, Microinverters!AsksOnce
<1>2. CASE Microinverters!Change
  BY <1>2, EnphaseFacts, SMT
     DEF EnphaseSound, Microinverters!Change,
         Microinverters!KeepsBackup, Microinverters!KeepsOwnersCharge, Microinverters!AsksOnce
<1>3. ASSUME NEW u \in Two, Microinverters!PutOne(u)
      PROVE  Microinverters!KeepsBackup /\ Microinverters!KeepsOwnersCharge /\ Microinverters!AsksOnce
  <2> DEFINE q == call[u]
             p == Microinverters!NextPut(q.todo)
  <2>1. /\ q.at = "posting" /\ \A w \in Two : w # u => call'[w] = call[w]
        /\ asked' \in {asked, Microinverters!Put(p, q)}
        /\ asked' = Microinverters!Put(p, q) \/ Microinverters!Fault("lost") \/ Microinverters!Fault("refused")
    BY <1>3, EnphaseFacts DEF EnphaseSound, Microinverters!PutOne
  <2>2. EnphaseCall(u) /\ q \in EnphaseCalls
    BY <2>1, EnphaseFacts, EnphaseCallFields DEF EnphaseSound
  <2>3. p \in q.todo /\ p \in {"charge", "profile"} /\ q.charge \in BOOLEAN /\ q.held \in BOOLEAN
    BY <2>1, <2>2 DEF EnphaseCall, EnphaseCalls, Microinverters!NextPut
  <2>4. asked \in Microinverters!AllConfigs /\ faults \in Nat
    BY EnphaseFacts, SMT DEF EnphaseSound
  <2>5. /\ p = "charge" => /\ Microinverters!Put(p, q).profile = asked.profile
                           /\ Microinverters!Put(p, q).soc = asked.soc
                           /\ Microinverters!Put(p, q).charge = q.charge
                           /\ ~Microinverters!Put(p, q).sched
        /\ p = "profile" => /\ Microinverters!Put(p, q).profile = "self"
                            /\ Microinverters!Put(p, q).soc = q.soc
                            /\ Microinverters!Put(p, q).charge = asked.charge
    BY <2>3, <2>4 DEF Microinverters!Put, Microinverters!AllConfigs
  <2> HIDE DEF p
  <2>6. alone[u] => /\ "charge" \in q.todo => asked.sched \/ asked.charge # q.charge
                    /\ "profile" \in q.todo => asked.soc # q.soc \/ asked.profile # "self"
    BY <2>2 DEF EnphaseCall
  <2>7. /\ q.held => "profile" \notin q.todo
        /\ alone[u] /\ ~q.held => /\ ~Microinverters!Backup
                                  /\ "charge" \in q.todo => (asked.charge => q.charge)
    BY <2>2 DEF EnphaseCall
  <2>8. Microinverters!KeepsBackup
    BY <2>1, <2>3, <2>5, <2>7 DEF Microinverters!KeepsBackup
  <2>9. Microinverters!KeepsOwnersCharge
    BY <2>1, <2>3, <2>5, <2>7 DEF Microinverters!KeepsOwnersCharge
  <2>10. Microinverters!AsksOnce
    <3>1. Microinverters!Fault("lost") \/ Microinverters!Fault("refused") => faults' # faults
      BY <2>4, SMT DEF Microinverters!Fault
    <3>2. asked' = Microinverters!Put(p, q) /\ alone[u] => asked' # asked
      BY <2>3, <2>5, <2>6
    <3> QED
      BY <2>1, <3>1, <3>2 DEF Microinverters!AsksOnce
  <2> QED
    BY <2>8, <2>9, <2>10
<1>4. \/ Microinverters!Change
      \/ asked' = asked \/ \E u \in Two : Microinverters!PutOne(u)
  BY DEF Microinverters!Next, Microinverters!Apply, Microinverters!Age, Microinverters!Begin,
         Microinverters!BeginUnread, Microinverters!Return
<1> QED
  BY <1>1, <1>2, <1>3, <1>4

-----------------------------------------------------------------------------
(* A Franklin gateway commanded by any number of updates: what a call may     *)
(* still post or save, and, as long as nobody else changed the gateway, that  *)
(* what it need not post is in place.                                         *)
FranklinTarget(c, l) ==
    IF c.bat = "standby" THEN Larger(l, Larger(c.min, 5))
    ELSE IF c.bat = "charge" /\ ~Gateway!Managed(c) THEN c.to ELSE Larger(c.min, 5)

FranklinPlan(q) ==
    /\ q.to = Gateway!TargetMode(q.cmd) /\ ~Gateway!Refused(q.cmd)
    /\ q.missing => Gateway!Managed(q.cmd)
    /\ q.at = "fetching" => q.missing /\ ~site.dry
    /\ q.at \in {"posting", "waiting"} => q.todo # {}
    /\ q.at = "done" => q.todo = {}
    /\ site.dry => q.todo = {}
    /\ "soc" \in q.todo => ~Gateway!ByBackup(q.cmd) /\ q.soc \in 5..100
    /\ ~Gateway!Managed(q.cmd) =>
        /\ q.at \in {"checking", "saving"} => q.todo = {} /\ q.made = {}
        /\ "sched" \in q.made => q.todo = {} /\ q.made = {"sched"}

FranklinInPlace(q, g) ==
    /\ "mode" \notin q.todo => g.mode = q.to
    /\ ~Gateway!ByBackup(q.cmd) =>
        Gateway!Near(IF "soc" \in q.todo THEN q.soc ELSE g.soc[q.to], FranklinTarget(q.cmd, q.level))
    /\ Gateway!Managed(q.cmd) =>
        \/ q.at \in {"checking", "saving"} \/ g.sched = q.cmd.sched
        \/ q.at = "fetching" /\ g.soc.tou = Gateway!Absent

FranklinAlone(q, g) ==
    /\ ~site.dry => FranklinInPlace(q, g)
    /\ q.missing /\ q.at \in {"checking", "saving"} => g.soc.tou = Gateway!Absent
    /\ g.busy => "sched" \in q.made /\ q.at # "posting"
    /\ q.at = "saving" /\ ~Gateway!Managed(q.cmd) => g.sched \in {"s1", "s2"}

GatewaySound ==
    /\ Gateway!TypeOK
    /\ \A u \in Two : call[u].at # "idle" =>
        FranklinPlan(call[u]) /\ (alone[u] => FranklinAlone(call[u], gateway))

FranklinCalls ==
    [at : {"checking", "saving", "fetching", "waiting", "posting", "done"}, cmd : FranklinAsked,
     level : FranklinLevels, to : Gateway!AllModes, soc : -1..100, todo : SUBSET {"soc", "mode"},
     missing : BOOLEAN, made : SUBSET {"sched", "soc", "mode"}]

LEMMA FranklinCallFields ==
    /\ Gateway!Idle \in Gateway!Calls /\ Gateway!Idle.at = "idle"
    /\ \A q \in FranklinCalls : q \in Gateway!Calls /\ q.at # "idle"
    /\ \A q \in Gateway!Calls : q.at # "idle" => q \in FranklinCalls
BY DEF Gateway!Calls, Gateway!Idle, FranklinCalls

LEMMA FranklinAskedFields ==
    ASSUME NEW c \in FranklinAsked
    PROVE  /\ c.bat \in BatteryModes /\ c.to \in 5..100 /\ c.min \in 0..100
           /\ c.sched \in {"none", "s1", "s2"}
BY FranklinAssumption

LEMMA GatewayFacts ==
    ASSUME Gateway!TypeOK
    PROVE  /\ site \in FranklinSites /\ site.dry \in BOOLEAN /\ site.managed \in BOOLEAN
           /\ wanted \in FranklinAsked /\ level \in FranklinLevels /\ level \in 0..100
           /\ gateway \in Gateway!AllGateways
           /\ call \in [Two -> Gateway!Calls] /\ alone \in [Two -> BOOLEAN]
           /\ faults \in 0..FranklinFaults /\ FranklinFaults \in Nat
           /\ changes \in 0..FranklinChanges /\ FranklinChanges \in Nat
BY FranklinAssumption, PartsAssumption DEF Gateway!TypeOK, Gateway!Assumptions

LEMMA GatewayFields ==
    ASSUME NEW g \in Gateway!AllGateways
    PROVE  /\ g.mode \in Gateway!AllModes /\ g.sched \in {"none", "own", "s1", "s2"} /\ g.busy \in BOOLEAN
           /\ g.soc \in [{"sc", "tou"} -> {-1} \union 5..100]
           /\ g.soc.sc \in {-1} \union 5..100 /\ g.soc.tou \in {-1} \union 5..100
           /\ g.soc["sc"] = g.soc.sc /\ g.soc["tou"] = g.soc.tou
BY DEF Gateway!AllGateways, Gateway!Reserves, Gateway!Absent

LEMMA FranklinTargetType ==
    ASSUME NEW c \in FranklinAsked, NEW l \in 0..100
    PROVE  FranklinTarget(c, l) \in 5..100
BY FranklinAskedFields, SMT DEF FranklinTarget, Larger

(* A reserve is changed to the one the command needs, or is near it.          *)
LEMMA FranklinReserve ==
    ASSUME NEW c \in FranklinAsked, NEW l \in 0..100, NEW g \in Gateway!AllGateways
    PROVE  /\ Gateway!Reserve(c, l, g) \in -1..100
           /\ Gateway!SocChanged(c, l, g) =>
                /\ ~Gateway!ByBackup(c) /\ Gateway!Reserve(c, l, g) \in 5..100
                /\ Gateway!Near(Gateway!Reserve(c, l, g), FranklinTarget(c, l))
           /\ ~Gateway!SocChanged(c, l, g) /\ ~Gateway!ByBackup(c) =>
                Gateway!Near(g.soc[Gateway!TargetMode(c)], FranklinTarget(c, l))
<1> DEFINE floor == Gateway!Asked(c, l, g)
           need == Gateway!Larger(floor, 5)
           has == g.soc[Gateway!TargetMode(c)]
           target == FranklinTarget(c, l)
<1>1. c.bat \in BatteryModes /\ c.to \in 5..100 /\ c.min \in 0..100
  BY FranklinAskedFields
<1>2. Gateway!Reserve(c, l, g) = IF Gateway!ByBackup(c) \/ need - has \notin -1..1 THEN need ELSE has
  BY DEF Gateway!Reserve
<1>3. ~Gateway!ByBackup(c) => has \in {-1} \union 5..100
  BY GatewayFields DEF Gateway!TargetMode
<1>4. Gateway!ByBackup(c) => floor = g.soc.sc
  BY DEF Gateway!Asked, Gateway!ByBackup
<1>5. ~Gateway!ByBackup(c) =>
        floor = IF c.bat = "standby" THEN Gateway!Larger(l, c.min)
                ELSE IF c.bat = "charge" /\ ~Gateway!Managed(c) THEN c.to ELSE c.min
  BY DEF Gateway!Asked
<1>6. target = IF c.bat = "standby" THEN Larger(l, Larger(c.min, 5))
               ELSE IF c.bat = "charge" /\ ~Gateway!Managed(c) THEN c.to ELSE Larger(c.min, 5)
  BY DEF FranklinTarget
<1> HIDE DEF floor, target
<1>7. ~Gateway!ByBackup(c) => need = target
  <2>1. CASE c.bat = "standby"
    BY <1>1, <1>5, <1>6, <2>1, SMT DEF Gateway!Larger, Larger
  <2>2. CASE c.bat # "standby" /\ c.bat = "charge" /\ ~Gateway!Managed(c)
    BY <1>1, <1>5, <1>6, <2>2, SMT DEF Gateway!Larger, Larger
  <2>3. CASE c.bat # "standby" /\ ~(c.bat = "charge" /\ ~Gateway!Managed(c))
    BY <1>1, <1>5, <1>6, <2>3, SMT DEF Gateway!Larger, Larger
  <2> QED
    BY <2>1, <2>2, <2>3
<1>8. target \in 5..100
  BY FranklinTargetType DEF target
<1>9. need \in 5..100
  <2>1. CASE Gateway!ByBackup(c)
    <3>1. floor \in {-1} \union 5..100
      BY <1>4, <2>1, GatewayFields
    <3> QED
      BY <3>1, SMT DEF Gateway!Larger
  <2>2. CASE ~Gateway!ByBackup(c)
    BY <1>7, <1>8, <2>2
  <2> QED
    BY <2>1, <2>2
<1> HIDE DEF need, has
<1>10. Gateway!Reserve(c, l, g) \in -1..100
  BY <1>2, <1>3, <1>9, SMT
<1>11. Gateway!SocChanged(c, l, g) <=> ~Gateway!ByBackup(c) /\ Gateway!Reserve(c, l, g) # has
  BY DEF Gateway!SocChanged, has
<1>12. ASSUME ~Gateway!ByBackup(c), Gateway!Reserve(c, l, g) # has
       PROVE  Gateway!Reserve(c, l, g) \in 5..100 /\ Gateway!Near(Gateway!Reserve(c, l, g), target)
  <2>1. Gateway!Reserve(c, l, g) = need
    BY <1>2, <1>12
  <2> QED
    BY <1>7, <1>9, <1>12, <2>1, SMT DEF Gateway!Near
<1>13. ASSUME ~Gateway!ByBackup(c), Gateway!Reserve(c, l, g) = has
       PROVE  Gateway!Near(has, target)
  BY <1>2, <1>3, <1>7, <1>9, <1>13, SMT DEF Gateway!Near
<1> QED
  BY <1>10, <1>11, <1>12, <1>13 DEF target, has

(* What is sound of a call stays so while the site is the same, and when the  *)
(* gateway ends loading.                                                      *)
LEMMA SamePlan ==
    ASSUME NEW u, NEW q, NEW g, call'[u] = q, gateway' = g, site' = site
    PROVE  /\ FranklinPlan(q) => FranklinPlan(call[u])'
           /\ FranklinAlone(q, g) => FranklinAlone(call[u], gateway)'
<1>1. \A c : /\ Gateway!Managed(c)' <=> Gateway!Managed(c)
             /\ Gateway!ByBackup(c)' <=> Gateway!ByBackup(c)
             /\ Gateway!Refused(c)' <=> Gateway!Refused(c)
             /\ Gateway!TargetMode(c)' = Gateway!TargetMode(c)
  BY DEF Gateway!Managed, Gateway!ByBackup, Gateway!Refused, Gateway!TargetMode
<1>2. \A c, l : FranklinTarget(c, l)' = FranklinTarget(c, l)
  BY <1>1 DEF FranklinTarget
<1>3. FranklinPlan(q) => FranklinPlan(call[u])'
  BY <1>1 DEF FranklinPlan
<1>4. FranklinAlone(q, g) => FranklinAlone(call[u], gateway)'
  BY <1>1, <1>2 DEF FranklinAlone, FranklinInPlace
<1> QED
  BY <1>3, <1>4

LEMMA LoadedAlone ==
    ASSUME NEW q, NEW g \in Gateway!AllGateways, FranklinAlone(q, g)
    PROVE  /\ FranklinAlone(q, [g EXCEPT !.busy = FALSE])
           /\ [g EXCEPT !.busy = FALSE] \in Gateway!AllGateways
<1> DEFINE h == [g EXCEPT !.busy = FALSE]
<1>1. h.mode = g.mode /\ h.soc = g.soc /\ h.sched = g.sched /\ ~h.busy /\ h \in Gateway!AllGateways
  BY DEF Gateway!AllGateways
<1> HIDE DEF h
<1>2. FranklinAlone(q, h)
  BY <1>1 DEF FranklinAlone, FranklinInPlace
<1> QED
  BY <1>1, <1>2 DEF h

(* To keep what is sound, it is enough that the one call that goes on is      *)
(* sound, and that whoever else is alone still is.                            *)
LEMMA GatewayAgain ==
    ASSUME GatewaySound, NEW u \in Two, NEW q \in Gateway!Calls, NEW g \in Gateway!AllGateways,
           call' = [call EXCEPT ![u] = q], gateway' = g, UNCHANGED <<site, wanted, level, changes>>,
           faults' \in 0..FranklinFaults, alone' \in [Two -> BOOLEAN],
           \A w \in Two : w # u => (alone'[w] => alone[w] /\ g = gateway),
           q.at # "idle" => FranklinPlan(q) /\ (alone'[u] => FranklinAlone(q, g))
    PROVE  GatewaySound'
<1>1. call' \in [Two -> Gateway!Calls] /\ call'[u] = q /\ \A w \in Two : w # u => call'[w] = call[w]
  BY GatewayFacts DEF GatewaySound
<1>2. Gateway!TypeOK'
  BY <1>1 DEF GatewaySound, Gateway!TypeOK
<1>3. ASSUME call'[u].at # "idle"
      PROVE  FranklinPlan(call[u])' /\ (alone'[u] => FranklinAlone(call[u], gateway)')
  BY <1>1, <1>3, SamePlan
<1>4. ASSUME NEW w \in Two, w # u, call'[w].at # "idle"
      PROVE  FranklinPlan(call[w])' /\ (alone'[w] => FranklinAlone(call[w], gateway)')
  <2>1. FranklinPlan(call[w]) /\ (alone[w] => FranklinAlone(call[w], gateway)) /\ call'[w] = call[w]
    BY <1>1, <1>4 DEF GatewaySound
  <2>2. FranklinPlan(call[w])'
    BY <2>1, SamePlan
  <2>3. alone'[w] => FranklinAlone(call[w], gateway)'
    BY <1>4, <2>1, SamePlan
  <2> QED
    BY <2>2, <2>3
<1>5. ASSUME NEW w \in Two, call'[w].at # "idle"
      PROVE  FranklinPlan(call[w])' /\ (alone'[w] => FranklinAlone(call[w], gateway)')
  BY <1>3, <1>4, <1>5
<1> QED
  BY <1>2, <1>5 DEF GatewaySound

LEMMA GatewayChange == ASSUME GatewaySound, Gateway!Change \/ Gateway!Loaded PROVE GatewaySound'
<1>1. gateway \in Gateway!AllGateways /\ alone \in [Two -> BOOLEAN] /\ call \in [Two -> Gateway!Calls]
  BY GatewayFacts DEF GatewaySound
<1>2. /\ UNCHANGED <<site, call, faults>> /\ wanted' \in FranklinAsked /\ level' \in FranklinLevels
      /\ \/ gateway' \in {gateway, [gateway EXCEPT !.busy = FALSE]} /\ UNCHANGED alone
         \/ gateway' \in FranklinOwned /\ alone' = [u \in Two |-> FALSE]
  BY GatewayFacts DEF Gateway!Change, Gateway!Loaded, GatewaySound
<1>3. changes' \in 0..FranklinChanges
  <2>1. changes \in 0..FranklinChanges /\ FranklinChanges \in Nat
    BY GatewayFacts DEF GatewaySound
  <2> QED
    BY <2>1, SMT DEF Gateway!Change, Gateway!Loaded
<1>4. gateway' \in Gateway!AllGateways /\ alone' \in [Two -> BOOLEAN]
  <2>1. [gateway EXCEPT !.busy = FALSE] \in Gateway!AllGateways
    BY <1>1 DEF Gateway!AllGateways
  <2> QED
    BY <1>1, <1>2, <2>1, FranklinAssumption
<1>5. Gateway!TypeOK'
  BY <1>2, <1>3, <1>4 DEF GatewaySound, Gateway!TypeOK
<1>6. ASSUME NEW w \in Two, call'[w].at # "idle"
      PROVE  FranklinPlan(call[w])' /\ (alone'[w] => FranklinAlone(call[w], gateway)')
  <2>1. FranklinPlan(call[w]) /\ (alone[w] => FranklinAlone(call[w], gateway)) /\ call'[w] = call[w]
    BY <1>2, <1>6 DEF GatewaySound
  <2>2. FranklinPlan(call[w])'
    BY <1>2, <2>1, SamePlan
  <2>3. ASSUME alone'[w] PROVE FranklinAlone(call[w], gateway)'
    <3>1. alone[w] /\ gateway' \in {gateway, [gateway EXCEPT !.busy = FALSE]}
      BY <1>2, <2>3
    <3>2. FranklinAlone(call[w], gateway')
      BY <1>1, <2>1, <3>1, LoadedAlone
    <3> QED
      BY <1>2, <2>1, <3>2, SamePlan
  <2> QED
    BY <2>2, <2>3
<1> QED
  BY <1>5, <1>6 DEF GatewaySound

(* Calls that go no further, or were never begun.                             *)
LEMMA GatewayRest ==
    ASSUME GatewaySound, NEW u \in Two, Gateway!BeginNone(u) \/ Gateway!Return(u)
    PROVE  GatewaySound'
<1>1. /\ UNCHANGED <<site, wanted, level, gateway, alone, changes>>
      /\ call' \in {call, [call EXCEPT ![u] = Gateway!Idle]}
      /\ faults' = faults \/ Gateway!Fault("read") \/ Gateway!Fault("storm")
  BY DEF Gateway!BeginNone, Gateway!Return, Gateway!Goes
<1>2. faults' \in 0..FranklinFaults
  <2>1. faults \in 0..FranklinFaults /\ FranklinFaults \in Nat
    BY GatewayFacts DEF GatewaySound
  <2> QED
    BY <1>1, <2>1, SMT DEF Gateway!Fault
<1>3. PICK q \in Gateway!Calls : call' = [call EXCEPT ![u] = q] /\ (q = call[u] \/ q = Gateway!Idle)
  <2>1. call = [call EXCEPT ![u] = call[u]] /\ call[u] \in Gateway!Calls
    BY GatewayFacts DEF GatewaySound
  <2> QED
    BY <1>1, <2>1, FranklinCallFields
<1>4. q.at # "idle" => FranklinPlan(q) /\ (alone'[u] => FranklinAlone(q, gateway))
  BY <1>1, <1>3, FranklinCallFields DEF GatewaySound
<1>5. gateway \in Gateway!AllGateways /\ alone' \in [Two -> BOOLEAN]
  BY <1>1, GatewayFacts DEF GatewaySound
<1> QED
  BY <1>1, <1>2, <1>3, <1>4, <1>5, GatewayAgain

LEMMA AfterScheduleFields ==
    ASSUME NEW q \in FranklinCalls
    PROVE  /\ Gateway!AfterSchedule(q) \in FranklinCalls
           /\ Gateway!AfterSchedule(q).at =
                (IF q.todo = {} THEN "done" ELSE IF "sched" \in q.made THEN "waiting" ELSE "posting")
           /\ Gateway!AfterSchedule(q).cmd = q.cmd /\ Gateway!AfterSchedule(q).level = q.level
           /\ Gateway!AfterSchedule(q).to = q.to /\ Gateway!AfterSchedule(q).soc = q.soc
           /\ Gateway!AfterSchedule(q).todo = q.todo /\ Gateway!AfterSchedule(q).missing = q.missing
           /\ Gateway!AfterSchedule(q).made = q.made
BY DEF Gateway!AfterSchedule, FranklinCalls

LEMMA GatewayBegins ==
    ASSUME GatewaySound, NEW u \in Two, Gateway!Begin(u) PROVE GatewaySound'
<1> DEFINE c == wanted
           missing == Gateway!Managed(c) /\ gateway.soc.tou = Gateway!Absent
           soc == Gateway!Reserve(c, level, gateway)
           todo == Gateway!Todo(c, level, gateway, missing)
           q == [at |-> "checking", cmd |-> c, level |-> level, to |-> Gateway!TargetMode(c),
                 soc |-> soc, todo |-> todo, missing |-> missing, made |-> {}]
           on == IF Gateway!ChecksSchedule(c, level, gateway) THEN q ELSE Gateway!AfterSchedule(q)
<1>1. /\ ~Gateway!Refused(c) /\ call' = [call EXCEPT ![u] = on]
      /\ alone' = [alone EXCEPT ![u] = ~gateway.busy]
      /\ UNCHANGED <<site, wanted, level, gateway, changes, faults>>
  BY DEF Gateway!Begin, Gateway!Goes
<1>2. /\ c \in FranklinAsked /\ level \in FranklinLevels /\ level \in 0..100
      /\ gateway \in Gateway!AllGateways /\ faults \in 0..FranklinFaults
      /\ alone \in [Two -> BOOLEAN] /\ site.dry \in BOOLEAN /\ site.managed \in BOOLEAN
  BY GatewayFacts DEF GatewaySound
<1>3. /\ soc \in -1..100
      /\ Gateway!SocChanged(c, level, gateway) =>
           /\ ~Gateway!ByBackup(c) /\ soc \in 5..100 /\ Gateway!Near(soc, FranklinTarget(c, level))
      /\ ~Gateway!SocChanged(c, level, gateway) /\ ~Gateway!ByBackup(c) =>
           Gateway!Near(gateway.soc[Gateway!TargetMode(c)], FranklinTarget(c, level))
  BY <1>2, FranklinReserve
<1>4. /\ todo \in SUBSET {"soc", "mode"} /\ (site.dry => todo = {})
      /\ "soc" \in todo => Gateway!SocChanged(c, level, gateway)
      /\ ~site.dry /\ "soc" \notin todo => ~Gateway!SocChanged(c, level, gateway)
      /\ ~site.dry /\ "mode" \notin todo => ~missing /\ gateway.mode = Gateway!TargetMode(c)
      /\ ~missing /\ gateway.mode = Gateway!TargetMode(c) /\ ~Gateway!SocChanged(c, level, gateway) => todo = {}
  BY DEF Gateway!Todo, Gateway!ModeChanged
<1>5. missing \in BOOLEAN /\ (missing => Gateway!Managed(c) /\ gateway.soc.tou = Gateway!Absent)
  OBVIOUS
<1>6. /\ Gateway!Managed(c) => Gateway!ChecksSchedule(c, level, gateway)
      /\ Gateway!ChecksSchedule(c, level, gateway) =>
           Gateway!Managed(c) \/ (gateway.mode = Gateway!TargetMode(c) /\ ~Gateway!SocChanged(c, level, gateway))
  BY <1>1 DEF Gateway!ChecksSchedule, Gateway!Refused, Gateway!Managed, Gateway!ModeChanged
<1>7. Gateway!TargetMode(c) \in Gateway!AllModes
  BY DEF Gateway!TargetMode, Gateway!AllModes, Gateway!Reserves
<1> HIDE DEF missing, soc, todo
<1>8. /\ q \in FranklinCalls /\ q.at = "checking" /\ q.cmd = c /\ q.level = level
      /\ q.to = Gateway!TargetMode(c) /\ q.soc = soc /\ q.todo = todo /\ q.missing = missing /\ q.made = {}
  BY <1>2, <1>3, <1>4, <1>5, <1>7 DEF FranklinCalls
<1> HIDE DEF q
<1>9. /\ on \in FranklinCalls /\ on.cmd = c /\ on.level = level /\ on.to = Gateway!TargetMode(c)
      /\ on.soc = soc /\ on.todo = todo /\ on.missing = missing /\ on.made = {}
      /\ on.at = IF Gateway!ChecksSchedule(c, level, gateway) THEN "checking"
                 ELSE IF todo = {} THEN "done" ELSE "posting"
  BY <1>8, AfterScheduleFields
<1> HIDE DEF on
<1>10. FranklinPlan(on)
  BY <1>1, <1>3, <1>4, <1>5, <1>6, <1>9 DEF FranklinPlan
<1>11. ASSUME ~gateway.busy PROVE FranklinAlone(on, gateway)
  <2>1. ASSUME ~site.dry PROVE FranklinInPlace(on, gateway)
    BY <1>3, <1>4, <1>6, <1>9, <2>1 DEF FranklinInPlace
  <2> QED
    BY <1>5, <1>9, <1>11, <2>1 DEF FranklinAlone
<1>12. alone' \in [Two -> BOOLEAN] /\ alone'[u] = ~gateway.busy /\ \A w \in Two : w # u => alone'[w] = alone[w]
  BY <1>1, <1>2
<1>13. on \in Gateway!Calls
  BY <1>9, FranklinCallFields
<1> QED
  BY <1>1, <1>2, <1>10, <1>11, <1>12, <1>13, GatewayAgain

(* What is known of a call that is under way.                                 *)
LEMMA UnderWay ==
    ASSUME GatewaySound, NEW u \in Two, call[u].at # "idle"
    PROVE  /\ call[u] \in FranklinCalls
           /\ call[u].cmd \in FranklinAsked /\ call[u].level \in 0..100
           /\ call[u].to \in Gateway!AllModes /\ call[u].soc \in -1..100
           /\ call[u].todo \in SUBSET {"soc", "mode"} /\ call[u].missing \in BOOLEAN
           /\ call[u].made \in SUBSET {"sched", "soc", "mode"}
           /\ FranklinPlan(call[u]) /\ (alone[u] => FranklinAlone(call[u], gateway))
           /\ gateway \in Gateway!AllGateways /\ alone \in [Two -> BOOLEAN]
           /\ faults \in 0..FranklinFaults /\ FranklinFaults \in Nat
<1>1. call[u] \in FranklinCalls /\ FranklinPlan(call[u]) /\ (alone[u] => FranklinAlone(call[u], gateway))
  BY GatewayFacts, FranklinCallFields DEF GatewaySound
<1>2. FranklinLevels \subseteq 0..100
  BY FranklinAssumption
<1> QED
  BY <1>1, <1>2, GatewayFacts DEF GatewaySound, FranklinCalls

(* A call that goes on, and leaves the gateway alone.                         *)
LEMMA CallGoesOn ==
    ASSUME GatewaySound, NEW u \in Two, call[u].at # "idle", NEW q \in FranklinCalls \union {Gateway!Idle},
           call' = [call EXCEPT ![u] = q], UNCHANGED <<site, wanted, level, gateway, alone, changes>>,
           faults' = faults \/ \E kind \in {"read", "late"} : Gateway!Fault(kind),
           q.at # "idle" => FranklinPlan(q) /\ (alone[u] => FranklinAlone(q, gateway))
    PROVE  GatewaySound'
<1>1. faults' \in 0..FranklinFaults
  <2>1. faults \in 0..FranklinFaults /\ FranklinFaults \in Nat
    BY UnderWay
  <2> QED
    BY <2>1, SMT DEF Gateway!Fault
<1>2. q \in Gateway!Calls
  BY FranklinCallFields
<1> QED
  BY <1>1, <1>2, UnderWay, GatewayAgain

LEMMA GatewayChecks ==
    ASSUME GatewaySound, NEW u \in Two, Gateway!Check(u) PROVE GatewaySound'
<1> DEFINE q == call[u]
<1>1. PICK read \in BOOLEAN :
        /\ q.at = "checking" /\ UNCHANGED <<site, wanted, level, gateway, alone, changes>>
        /\ faults' = faults \/ Gateway!Fault("read")
        /\ call' = [call EXCEPT ![u] =
             IF Gateway!Saves(q.cmd, read) THEN [q EXCEPT !.at = "saving"]
             ELSE IF q.missing /\ ~site.dry THEN [q EXCEPT !.at = "fetching"]
             ELSE Gateway!AfterSchedule(q)]
  BY DEF Gateway!Check, Gateway!Goes
<1>2. /\ q \in FranklinCalls /\ FranklinPlan(q) /\ (alone[u] => FranklinAlone(q, gateway))
      /\ gateway \in Gateway!AllGateways
      /\ call[u].at # "idle" /\ (faults' = faults \/ \E kind \in {"read", "late"} : Gateway!Fault(kind))
  BY <1>1, UnderWay
<1> HIDE DEF q
<1>3. CASE Gateway!Saves(q.cmd, read)
  <2> DEFINE on == [q EXCEPT !.at = "saving"]
  <2>1. /\ on \in FranklinCalls /\ on.at = "saving" /\ on.cmd = q.cmd /\ on.level = q.level /\ on.to = q.to
        /\ on.soc = q.soc /\ on.todo = q.todo /\ on.missing = q.missing /\ on.made = q.made
    BY <1>2 DEF FranklinCalls
  <2>2. call' = [call EXCEPT ![u] = on]
    BY <1>1, <1>3
  <2> HIDE DEF on
  <2>3. FranklinPlan(on)
    BY <1>1, <1>2, <2>1 DEF FranklinPlan
  <2>4. alone[u] => FranklinAlone(on, gateway)
    BY <1>1, <1>2, <1>3, <2>1 DEF FranklinAlone, FranklinInPlace, Gateway!Saves
  <2> QED
    BY <1>1, <1>2, <2>1, <2>2, <2>3, <2>4, CallGoesOn
<1>4. CASE ~Gateway!Saves(q.cmd, read) /\ q.missing /\ ~site.dry
  <2> DEFINE on == [q EXCEPT !.at = "fetching"]
  <2>1. /\ on \in FranklinCalls /\ on.at = "fetching" /\ on.cmd = q.cmd /\ on.level = q.level /\ on.to = q.to
        /\ on.soc = q.soc /\ on.todo = q.todo /\ on.missing = q.missing /\ on.made = q.made
    BY <1>2 DEF FranklinCalls
  <2>2. call' = [call EXCEPT ![u] = on]
    BY <1>1, <1>4
  <2> HIDE DEF on
  <2>3. FranklinPlan(on)
    BY <1>1, <1>2, <1>4, <2>1 DEF FranklinPlan
  <2>4. alone[u] => FranklinAlone(on, gateway)
    BY <1>1, <1>2, <1>4, <2>1 DEF FranklinAlone, FranklinInPlace, Gateway!Saves
  <2> QED
    BY <1>1, <1>2, <2>1, <2>2, <2>3, <2>4, CallGoesOn
<1>5. CASE ~Gateway!Saves(q.cmd, read) /\ ~(q.missing /\ ~site.dry)
  <2> DEFINE on == Gateway!AfterSchedule(q)
  <2>1. /\ on \in FranklinCalls /\ on.cmd = q.cmd /\ on.level = q.level /\ on.to = q.to
        /\ on.soc = q.soc /\ on.todo = q.todo /\ on.missing = q.missing /\ on.made = q.made
        /\ on.at = IF q.todo = {} THEN "done" ELSE IF "sched" \in q.made THEN "waiting" ELSE "posting"
    BY <1>2, AfterScheduleFields
  <2>2. call' = [call EXCEPT ![u] = on]
    BY <1>1, <1>5
  <2> HIDE DEF on
  <2>3. FranklinPlan(on)
    BY <1>1, <1>2, <2>1 DEF FranklinPlan
  <2>4. alone[u] => FranklinAlone(on, gateway)
    BY <1>1, <1>2, <1>5, <2>1 DEF FranklinAlone, FranklinInPlace, Gateway!Saves
  <2> QED
    BY <1>1, <1>2, <2>1, <2>2, <2>3, <2>4, CallGoesOn
<1> QED
  BY <1>3, <1>4, <1>5

LEMMA GatewayFetches ==
    ASSUME GatewaySound, NEW u \in Two, Gateway!Fetch(u) PROVE GatewaySound'
<1> DEFINE q == call[u]
           mid == Gateway!Fetched(q)
           on == Gateway!AfterSchedule(mid)
<1>1. /\ q.at = "fetching" /\ UNCHANGED <<site, wanted, level, gateway, alone, changes>>
      /\ \/ gateway.soc.tou # Gateway!Absent /\ call' = [call EXCEPT ![u] = on] /\ faults' = faults
         \/ /\ faults' = faults \/ Gateway!Fault("read")
            /\ call' = [call EXCEPT ![u] = Gateway!Idle]
  BY DEF Gateway!Fetch, Gateway!Goes, Gateway!Fails
<1>2. /\ q \in FranklinCalls /\ FranklinPlan(q) /\ (alone[u] => FranklinAlone(q, gateway))
      /\ gateway \in Gateway!AllGateways /\ q.cmd \in FranklinAsked /\ q.level \in 0..100
  BY <1>1, UnderWay
<1>3. CASE call' = [call EXCEPT ![u] = Gateway!Idle]
  BY <1>1, <1>3, FranklinCallFields, CallGoesOn
<1>4. CASE gateway.soc.tou # Gateway!Absent /\ call' = [call EXCEPT ![u] = on] /\ faults' = faults
  <2> DEFINE soc == Gateway!Reserve(q.cmd, q.level, gateway)
             todo == Gateway!Todo(q.cmd, q.level, gateway, TRUE)
             changed == Gateway!SocChanged(q.cmd, q.level, gateway)
  <2>1. /\ soc \in -1..100
        /\ changed => ~Gateway!ByBackup(q.cmd) /\ soc \in 5..100
                        /\ Gateway!Near(soc, FranklinTarget(q.cmd, q.level))
        /\ ~changed /\ ~Gateway!ByBackup(q.cmd) =>
             Gateway!Near(gateway.soc[Gateway!TargetMode(q.cmd)], FranklinTarget(q.cmd, q.level))
    BY <1>2, FranklinReserve
  <2>2. q.missing /\ ~site.dry /\ Gateway!Managed(q.cmd)
    BY <1>1, <1>2 DEF FranklinPlan
  <2>3. /\ todo \in SUBSET {"soc", "mode"} /\ "mode" \in todo /\ ("soc" \in todo <=> changed)
    BY <2>2 DEF Gateway!Todo
  <2> HIDE DEF soc, todo, changed, q
  <2>4. /\ mid \in FranklinCalls /\ mid.cmd = q.cmd /\ mid.level = q.level /\ mid.to = q.to
        /\ mid.soc = soc /\ mid.todo = todo /\ mid.missing = q.missing /\ mid.made = q.made
    BY <1>2, <2>1, <2>3 DEF FranklinCalls, Gateway!Fetched, soc, todo
  <2> HIDE DEF mid
  <2>5. /\ on \in FranklinCalls /\ on.cmd = q.cmd /\ on.level = q.level /\ on.to = q.to
        /\ on.soc = soc /\ on.todo = todo /\ on.missing = q.missing /\ on.made = q.made
        /\ on.at = IF "sched" \in q.made THEN "waiting" ELSE "posting"
    BY <2>3, <2>4, AfterScheduleFields
  <2> HIDE DEF on
  <2>6. FranklinPlan(on)
    BY <1>2, <2>1, <2>2, <2>3, <2>5 DEF FranklinPlan
  <2>7. ASSUME alone[u] PROVE FranklinAlone(on, gateway)
    <3>1. FranklinInPlace(q, gateway) /\ (gateway.busy => "sched" \in q.made)
      BY <1>2, <2>2, <2>7 DEF FranklinAlone
    <3>2. gateway.sched = q.cmd.sched
      BY <1>1, <1>4, <2>2, <3>1 DEF FranklinInPlace, q
    <3>3. q.to = Gateway!TargetMode(q.cmd)
      BY <1>2 DEF FranklinPlan
    <3>4. FranklinInPlace(on, gateway)
      BY <2>1, <2>3, <2>5, <3>2, <3>3 DEF FranklinInPlace
    <3> QED
      BY <2>5, <3>1, <3>4 DEF FranklinAlone
  <2> QED
    BY <1>1, <1>4, <2>5, <2>6, <2>7, CallGoesOn DEF q
<1> QED
  BY <1>1, <1>3, <1>4

LEMMA GatewayWaits ==
    ASSUME GatewaySound, NEW u \in Two, Gateway!Wait(u) PROVE GatewaySound'
<1> DEFINE q == call[u]
           on == [q EXCEPT !.at = "posting"]
<1>1. /\ q.at = "waiting" /\ UNCHANGED <<site, wanted, level, gateway, alone, changes>>
      /\ \/ ~gateway.busy /\ call' = [call EXCEPT ![u] = on] /\ faults' = faults
         \/ Gateway!Fault("late") /\ call' = [call EXCEPT ![u] = Gateway!Idle]
  BY DEF Gateway!Wait, Gateway!Goes, Gateway!Fails
<1>2. q \in FranklinCalls /\ FranklinPlan(q) /\ (alone[u] => FranklinAlone(q, gateway))
  BY <1>1, UnderWay
<1>3. CASE Gateway!Fault("late") /\ call' = [call EXCEPT ![u] = Gateway!Idle]
  BY <1>1, <1>3, FranklinCallFields, CallGoesOn
<1>4. CASE ~gateway.busy /\ call' = [call EXCEPT ![u] = on] /\ faults' = faults
  <2>1. /\ on \in FranklinCalls /\ on.at = "posting" /\ on.cmd = q.cmd /\ on.level = q.level /\ on.to = q.to
        /\ on.soc = q.soc /\ on.todo = q.todo /\ on.missing = q.missing /\ on.made = q.made
    BY <1>2 DEF FranklinCalls
  <2> HIDE DEF on, q
  <2>2. FranklinPlan(on)
    BY <1>1, <1>2, <2>1 DEF FranklinPlan, q
  <2>3. alone[u] => FranklinAlone(on, gateway)
    BY <1>1, <1>2, <1>4, <2>1 DEF FranklinAlone, FranklinInPlace, q
  <2> QED
    BY <1>1, <1>4, <2>1, <2>2, <2>3, CallGoesOn DEF q
<1> QED
  BY <1>1, <1>3, <1>4

(* The gateway after a step of one call: whoever is alone saw no change.      *)
LEMMA GatewayTouched ==
    ASSUME GatewaySound, NEW u \in Two, call[u].at # "idle", NEW q \in FranklinCalls \union {Gateway!Idle},
           NEW g \in Gateway!AllGateways,
           call' = [call EXCEPT ![u] = q], gateway' = g, Gateway!Touches(u),
           UNCHANGED <<site, wanted, level, changes>>,
           faults' = faults \/ \E kind \in {"lost", "refused", "missing"} : Gateway!Fault(kind),
           q.at # "idle" => FranklinPlan(q) /\ (alone[u] => FranklinAlone(q, g))
    PROVE  GatewaySound'
<1>1. faults' \in 0..FranklinFaults
  <2>1. faults \in 0..FranklinFaults /\ FranklinFaults \in Nat
    BY UnderWay
  <2> QED
    BY <2>1, SMT DEF Gateway!Fault
<1>2. q \in Gateway!Calls
  BY FranklinCallFields
<1>3. /\ alone' \in [Two -> BOOLEAN] /\ (alone'[u] => alone[u])
      /\ \A w \in Two : w # u => (alone'[w] => alone[w] /\ g = gateway)
  BY UnderWay DEF Gateway!Touches
<1> QED
  BY <1>1, <1>2, <1>3, GatewayAgain

LEMMA GatewaySaves ==
    ASSUME GatewaySound, NEW u \in Two, Gateway!Save(u) PROVE GatewaySound'
<1> DEFINE q == call[u]
           made == [q EXCEPT !.made = @ \union {"sched"}]
           on == IF q.missing /\ ~site.dry THEN [made EXCEPT !.at = "fetching"] ELSE Gateway!AfterSchedule(made)
<1>1. /\ q.at = "saving" /\ UNCHANGED <<site, wanted, level, changes>> /\ Gateway!Touches(u)
      /\ \/ /\ call' = [call EXCEPT ![u] = on]
            /\ \/ gateway' = Gateway!Saved(q.cmd) /\ faults' = faults
               \/ q.missing /\ ~site.dry /\ Gateway!Fault("missing") /\ gateway' = gateway
         \/ /\ call' = [call EXCEPT ![u] = Gateway!Idle]
            /\ \/ Gateway!Fault("lost") /\ gateway' = Gateway!Saved(q.cmd)
               \/ Gateway!Fault("refused") /\ gateway' = gateway
  BY DEF Gateway!Save, Gateway!Goes, Gateway!Fails
<1>2. /\ q \in FranklinCalls /\ FranklinPlan(q) /\ (alone[u] => FranklinAlone(q, gateway))
      /\ gateway \in Gateway!AllGateways /\ q.cmd \in FranklinAsked /\ q.level \in 0..100
      /\ call[u].at # "idle"
  BY <1>1, UnderWay
<1>3. /\ Gateway!Saved(q.cmd) \in Gateway!AllGateways
      /\ Gateway!Saved(q.cmd).mode = gateway.mode
      /\ Gateway!Saved(q.cmd).soc.sc = gateway.soc.sc
      /\ gateway.soc.tou # Gateway!Absent => Gateway!Saved(q.cmd).soc.tou = gateway.soc.tou
      /\ ~site.dry => Gateway!Saved(q.cmd).sched = q.cmd.sched
  <2>1. q.cmd.sched \in {"none", "s1", "s2"}
    BY <1>2, FranklinAskedFields
  <2>2. 20 \in 5..100
    BY SMT
  <2>3. gateway.soc \in [{"sc", "tou"} -> {-1} \union 5..100]
    BY <1>2, GatewayFields
  <2> DEFINE tou == IF gateway.soc.tou = Gateway!Absent THEN 20 ELSE gateway.soc.tou
             soc == [gateway.soc EXCEPT !.tou = tou]
  <2>4. tou \in {-1} \union 5..100
    BY <1>2, <2>2, GatewayFields
  <2> HIDE DEF tou
  <2>5. /\ soc \in [{"sc", "tou"} -> {-1} \union 5..100] /\ soc.sc = gateway.soc.sc /\ soc.tou = tou
    BY <2>3, <2>4
  <2>6. Gateway!Saved(q.cmd) = IF site.dry THEN gateway
                               ELSE [gateway EXCEPT !.sched = q.cmd.sched, !.busy = TRUE, !.soc = soc]
    BY <1>2 DEF Gateway!Saved, Gateway!AllGateways, tou
  <2>7. gateway.soc.tou # Gateway!Absent => tou = gateway.soc.tou
    BY DEF tou
  <2> HIDE DEF soc
  <2>8. CASE site.dry
    BY <1>2, <2>6, <2>8
  <2>9. CASE ~site.dry
    <3>1. Gateway!Saved(q.cmd) = [gateway EXCEPT !.sched = q.cmd.sched, !.busy = TRUE, !.soc = soc]
      BY <2>6, <2>9
    <3>2. Gateway!Saved(q.cmd) \in Gateway!AllGateways
      BY <1>2, <2>1, <2>5, <3>1 DEF Gateway!AllGateways, Gateway!Reserves, Gateway!Absent
    <3>3. /\ Gateway!Saved(q.cmd).mode = gateway.mode /\ Gateway!Saved(q.cmd).soc = soc
          /\ Gateway!Saved(q.cmd).sched = q.cmd.sched
      BY <1>2, <3>1 DEF Gateway!AllGateways
    <3> QED
      BY <2>5, <2>7, <3>2, <3>3
  <2> QED
    BY <2>8, <2>9
<1>4. made \in FranklinCalls /\ made.at = "saving" /\ made.cmd = q.cmd /\ made.level = q.level /\ made.to = q.to
      /\ made.soc = q.soc /\ made.todo = q.todo /\ made.missing = q.missing /\ made.made = q.made \union {"sched"}
  BY <1>1, <1>2 DEF FranklinCalls
<1> DEFINE fetch == [made EXCEPT !.at = "fetching"]
<1> HIDE DEF made
<1>5. /\ fetch \in FranklinCalls /\ fetch.at = "fetching" /\ fetch.cmd = q.cmd /\ fetch.level = q.level
      /\ fetch.to = q.to /\ fetch.soc = q.soc /\ fetch.todo = q.todo /\ fetch.missing = q.missing
      /\ fetch.made = q.made \union {"sched"}
  BY <1>4 DEF FranklinCalls
<1>6. /\ on \in FranklinCalls /\ on.cmd = q.cmd /\ on.level = q.level /\ on.to = q.to
      /\ on.soc = q.soc /\ on.todo = q.todo /\ on.missing = q.missing /\ on.made = q.made \union {"sched"}
      /\ on.at = IF q.missing /\ ~site.dry THEN "fetching" ELSE IF q.todo = {} THEN "done" ELSE "waiting"
  BY <1>4, <1>5, AfterScheduleFields
<1> HIDE DEF on, fetch, q
<1>7. FranklinPlan(on)
  BY <1>1, <1>2, <1>6 DEF FranklinPlan
<1>8. ASSUME alone[u], NEW g \in Gateway!AllGateways,
             g = Gateway!Saved(q.cmd) \/ (q.missing /\ ~site.dry /\ g = gateway)
      PROVE  FranklinAlone(on, g)
  <2>1. ASSUME ~site.dry PROVE FranklinInPlace(on, g)
    <3>1. FranklinInPlace(q, gateway) /\ (q.missing => gateway.soc.tou = Gateway!Absent)
      BY <1>1, <1>2, <1>8, <2>1 DEF FranklinAlone
    <3>2. q.to = Gateway!TargetMode(q.cmd)
      BY <1>2 DEF FranklinPlan
    <3>3. "mode" \notin on.todo => g.mode = on.to
      BY <1>3, <1>6, <1>8, <3>1 DEF FranklinInPlace
    <3>4. ASSUME ~Gateway!ByBackup(q.cmd), "soc" \notin q.todo
          PROVE  g.soc[q.to] = gateway.soc[q.to]
      <4>1. q.to \in {"sc", "tou"}
        BY <3>2, <3>4 DEF Gateway!TargetMode
      <4>2. Gateway!Near(gateway.soc[q.to], FranklinTarget(q.cmd, q.level))
        BY <3>1, <3>4 DEF FranklinInPlace
      <4>3. q.to = "tou" => gateway.soc.tou # Gateway!Absent
        <5>1. FranklinTarget(q.cmd, q.level) \in 5..100
          BY <1>2, FranklinTargetType
        <5>2. ~Gateway!Near(-1, FranklinTarget(q.cmd, q.level))
          BY <5>1, SMT DEF Gateway!Near
        <5> QED
          BY <4>2, <5>2, <1>2, GatewayFields DEF Gateway!Absent
      <4>4. g.soc.sc = gateway.soc.sc /\ (gateway.soc.tou # Gateway!Absent => g.soc.tou = gateway.soc.tou)
        BY <1>3, <1>8
      <4> QED
        BY <1>2, <4>1, <4>3, <4>4, GatewayFields
    <3>5. ~Gateway!ByBackup(on.cmd) =>
            Gateway!Near(IF "soc" \in on.todo THEN on.soc ELSE g.soc[on.to], FranklinTarget(on.cmd, on.level))
      BY <1>6, <3>1, <3>4 DEF FranklinInPlace
    <3>6. g.sched = q.cmd.sched \/ (q.missing /\ g = gateway /\ g.soc.tou = Gateway!Absent)
      BY <1>3, <1>8, <2>1, <3>1
    <3> QED
      BY <1>6, <2>1, <3>3, <3>5, <3>6 DEF FranklinInPlace
  <2> QED
    BY <1>6, <2>1 DEF FranklinAlone
<1>9. CASE call' = [call EXCEPT ![u] = on]
  <2>1. gateway' = Gateway!Saved(q.cmd) \/ (q.missing /\ ~site.dry /\ gateway' = gateway)
    <3>1. Gateway!Idle # on
      BY <1>6, FranklinCallFields
    <3>2. call[u] \in Gateway!Calls /\ call \in [Two -> Gateway!Calls]
      BY GatewayFacts DEF GatewaySound
    <3> QED
      BY <1>1, <1>9, <3>1, <3>2
  <2>2. gateway' \in Gateway!AllGateways
    BY <1>2, <1>3, <2>1
  <2>3. faults' = faults \/ \E kind \in {"lost", "refused", "missing"} : Gateway!Fault(kind)
    BY <1>1
  <2>4. alone[u] => FranklinAlone(on, gateway')
    BY <1>8, <2>1, <2>2
  <2> QED
    BY <1>1, <1>2, <1>6, <1>7, <1>9, <2>2, <2>3, <2>4, GatewayTouched
<1>10. CASE call' = [call EXCEPT ![u] = Gateway!Idle]
  BY <1>1, <1>2, <1>3, <1>10, FranklinCallFields, GatewayTouched
<1> QED
  BY <1>1, <1>9, <1>10

(* A post leaves all but what it is about as it is.                           *)
LEMMA GatewayPosted ==
    ASSUME NEW g \in Gateway!AllGateways, NEW q \in FranklinCalls, NEW p \in q.todo,
           p = "soc" => q.to \in {"sc", "tou"} /\ q.soc \in 5..100
    PROVE  /\ Gateway!Posted(g, p, q) \in Gateway!AllGateways
           /\ Gateway!Posted(g, p, q).sched = g.sched /\ Gateway!Posted(g, p, q).busy = g.busy
           /\ p = "soc" => Gateway!Posted(g, p, q).mode = g.mode /\ Gateway!Posted(g, p, q).soc[q.to] = q.soc
           /\ p # "soc" => Gateway!Posted(g, p, q).mode = q.to /\ Gateway!Posted(g, p, q).soc = g.soc
<1>1. q.to \in Gateway!AllModes /\ q.todo \in SUBSET {"soc", "mode"}
  BY DEF FranklinCalls
<1>2. CASE p = "soc"
  <2> DEFINE soc == [g.soc EXCEPT ![q.to] = q.soc]
  <2>1. soc \in [{"sc", "tou"} -> {-1} \union 5..100] /\ soc[q.to] = q.soc
    BY <1>2, GatewayFields
  <2>2. Gateway!Posted(g, p, q) = [g EXCEPT !.soc = soc]
    BY <1>2 DEF Gateway!Posted, Gateway!AllGateways
  <2> HIDE DEF soc
  <2> QED
    BY <1>2, <2>1, <2>2 DEF Gateway!AllGateways, Gateway!Reserves, Gateway!Absent
<1>3. CASE p # "soc"
  BY <1>1, <1>3 DEF Gateway!Posted, Gateway!AllGateways
<1> QED
  BY <1>2, <1>3

LEMMA GatewayPosts ==
    ASSUME GatewaySound, NEW u \in Two, Gateway!Post(u) PROVE GatewaySound'
<1> DEFINE q == call[u]
           p == Gateway!NextPost(q.todo)
           on == [q EXCEPT !.todo = q.todo \ {p}, !.made = @ \union {p},
                           !.at = IF q.todo \ {p} = {} THEN "done" ELSE @]
<1>1. /\ q.at = "posting" /\ UNCHANGED <<site, wanted, level, changes>> /\ Gateway!Touches(u)
      /\ \/ /\ call' = [call EXCEPT ![u] = on] /\ faults' = faults
            /\ gateway' = Gateway!Posted(gateway, p, q) \/ (gateway.busy /\ gateway' = gateway)
         \/ /\ call' = [call EXCEPT ![u] = Gateway!Idle]
            /\ \/ Gateway!Fault("lost") /\ gateway' = Gateway!Posted(gateway, p, q)
               \/ Gateway!Fault("refused") /\ gateway' = gateway
  BY DEF Gateway!Post, Gateway!Goes, Gateway!Fails
<1>2. /\ q \in FranklinCalls /\ FranklinPlan(q) /\ (alone[u] => FranklinAlone(q, gateway))
      /\ gateway \in Gateway!AllGateways /\ q.todo \in SUBSET {"soc", "mode"}
      /\ call[u].at # "idle"
  BY <1>1, UnderWay
<1>3. /\ q.todo # {} /\ ~site.dry /\ q.to = Gateway!TargetMode(q.cmd)
      /\ "soc" \in q.todo => ~Gateway!ByBackup(q.cmd) /\ q.soc \in 5..100
  BY <1>1, <1>2 DEF FranklinPlan
<1>4. p \in q.todo /\ p \in {"soc", "mode"} /\ (p = "mode" => "soc" \notin q.todo)
  BY <1>2, <1>3 DEF Gateway!NextPost
<1>5. on \in FranklinCalls /\ on.cmd = q.cmd /\ on.level = q.level /\ on.to = q.to
      /\ on.soc = q.soc /\ on.todo = q.todo \ {p} /\ on.missing = q.missing /\ on.made = q.made \union {p}
      /\ on.at = IF q.todo \ {p} = {} THEN "done" ELSE "posting"
  BY <1>1, <1>2, <1>4 DEF FranklinCalls
<1> DEFINE done == Gateway!Posted(gateway, p, q)
<1>6. p = "soc" => q.to \in {"sc", "tou"}
  BY <1>3, <1>4 DEF Gateway!TargetMode
<1> HIDE DEF on, q, p, done
<1>7. /\ done \in Gateway!AllGateways /\ done.sched = gateway.sched /\ done.busy = gateway.busy
      /\ p = "soc" => done.mode = gateway.mode /\ done.soc[q.to] = q.soc
      /\ p # "soc" => done.mode = q.to /\ done.soc = gateway.soc
  BY <1>2, <1>3, <1>4, <1>6, GatewayPosted DEF done
<1>8. FranklinPlan(on)
  BY <1>1, <1>2, <1>3, <1>4, <1>5 DEF FranklinPlan
<1>9. ASSUME alone[u] PROVE FranklinAlone(on, done) /\ ~gateway.busy
  <2>1. FranklinInPlace(q, gateway) /\ ~gateway.busy
    BY <1>1, <1>2, <1>3, <1>9 DEF FranklinAlone
  <2>2. "mode" \notin on.todo => done.mode = on.to
    BY <1>4, <1>5, <1>7, <2>1 DEF FranklinInPlace
  <2>3. ASSUME ~Gateway!ByBackup(q.cmd)
        PROVE  Gateway!Near(IF "soc" \in on.todo THEN q.soc ELSE done.soc[q.to], FranklinTarget(q.cmd, q.level))
    BY <1>4, <1>5, <1>7, <2>1, <2>3 DEF FranklinInPlace
  <2>4. Gateway!Managed(q.cmd) => done.sched = q.cmd.sched
    BY <1>1, <1>7, <2>1 DEF FranklinInPlace
  <2>5. FranklinInPlace(on, done)
    BY <1>5, <2>2, <2>3, <2>4 DEF FranklinInPlace
  <2> QED
    BY <1>5, <1>7, <2>1, <2>5 DEF FranklinAlone
<1>10. CASE call' = [call EXCEPT ![u] = on]
  <2>1. /\ faults' = faults
        /\ gateway' = done \/ (gateway.busy /\ gateway' = gateway)
    <3>1. Gateway!Idle # on
      BY <1>5, FranklinCallFields
    <3>2. call[u] \in Gateway!Calls /\ call \in [Two -> Gateway!Calls]
      BY GatewayFacts DEF GatewaySound
    <3> QED
      BY <1>1, <1>10, <3>1, <3>2 DEF done
  <2>2. alone[u] => FranklinAlone(on, gateway')
    BY <1>9, <2>1
  <2>3. gateway' \in Gateway!AllGateways
    BY <1>2, <1>7, <2>1
  <2> QED
    BY <1>1, <1>2, <1>5, <1>8, <1>10, <2>1, <2>2, <2>3, GatewayTouched
<1>11. CASE call' = [call EXCEPT ![u] = Gateway!Idle]
  <2>1. gateway' \in Gateway!AllGateways
    BY <1>1, <1>2, <1>7 DEF done
  <2> QED
    BY <1>1, <1>2, <1>11, <2>1, FranklinCallFields, GatewayTouched
<1> QED
  BY <1>1, <1>10, <1>11

LEMMA GatewayStarts == ASSUME Gateway!Init PROVE GatewaySound
<1>1. Gateway!TypeOK
  BY FranklinCallFields, FranklinAssumption, PartsAssumption DEF Gateway!Init, Gateway!TypeOK, Gateway!Assumptions
<1> QED
  BY <1>1, FranklinCallFields DEF GatewaySound, Gateway!Init

LEMMA GatewayGoesOn == ASSUME GatewaySound, Gateway!Next PROVE GatewaySound'
BY GatewayChange, GatewayRest, GatewayBegins, GatewayChecks, GatewaySaves, GatewayFetches, GatewayWaits,
   GatewayPosts DEF Gateway!Next

(* A gateway on which all is in place obeys.                                  *)
LEMMA InPlaceObeys ==
    ASSUME NEW q, NEW g, FranklinPlan(q), FranklinInPlace(q, g), q.todo = {}, q.at \in {"posting", "done"}
    PROVE  Gateway!Obeys(g, q.cmd, q.level)
<1>1. /\ g.mode = Gateway!TargetMode(q.cmd) /\ (Gateway!Managed(q.cmd) => g.sched = q.cmd.sched)
      /\ ~Gateway!ByBackup(q.cmd) =>
           Gateway!Near(g.soc[Gateway!TargetMode(q.cmd)], FranklinTarget(q.cmd, q.level))
  BY DEF FranklinPlan, FranklinInPlace
<1>2. CASE Gateway!Managed(q.cmd)
  BY <1>1, <1>2 DEF Gateway!Obeys, Gateway!TargetMode, Gateway!ByBackup, Gateway!Floored, FranklinTarget,
     Larger, Gateway!Larger
<1>3. CASE ~Gateway!Managed(q.cmd) /\ Gateway!ByBackup(q.cmd)
  BY <1>1, <1>3 DEF Gateway!Obeys, Gateway!TargetMode, Gateway!ByBackup
<1>4. CASE ~Gateway!Managed(q.cmd) /\ ~Gateway!ByBackup(q.cmd)
  BY <1>1, <1>4 DEF Gateway!Obeys, Gateway!TargetMode, Gateway!Floored, FranklinTarget,
     Larger, Gateway!Larger
<1> QED
  BY <1>2, <1>3, <1>4

LEMMA GatewayHolds == ASSUME part \in Franklins => GatewaySound PROVE GatewayInv
<1>1. SUFFICES ASSUME part \in Franklins, GatewaySound
      PROVE  Gateway!TypeOK /\ Gateway!Obeyed /\ Gateway!ReloadsAlone
  BY <1>1 DEF GatewayInv, GatewayObeys, ReloadsAlone
<1>2. ASSUME NEW u \in Two, call[u].at = "done", alone[u], ~site.dry
      PROVE  Gateway!Obeys(gateway, call[u].cmd, call[u].level)
  <2>1. FranklinPlan(call[u]) /\ FranklinInPlace(call[u], gateway) /\ call[u].todo = {}
    BY <1>1, <1>2 DEF GatewaySound, FranklinPlan, FranklinAlone
  <2> QED
    BY <1>2, <2>1, InPlaceObeys
<1>3. Gateway!ReloadsAlone
  BY <1>1 DEF GatewaySound, FranklinPlan, Gateway!ReloadsAlone
<1> QED
  BY <1>1, <1>2, <1>3 DEF GatewaySound, Gateway!Obeyed

(* What a step never does: put the gateway in a mode before the rest is in    *)
(* place, save over the owner's schedule unasked, touch a gateway of a dry    *)
(* run.                                                                       *)
LEMMA GatewaySteps ==
    ASSUME GatewaySound, Gateway!Next
    PROVE  Gateway!ModeIsLast /\ Gateway!KeepsOwnSchedule /\ Gateway!TouchesNothing
<1>1. call \in [Two -> Gateway!Calls]
  BY GatewayFacts DEF GatewaySound
<1>2. ASSUME NEW u \in Two, Gateway!Post(u)
      PROVE  Gateway!ModeIsLast /\ Gateway!KeepsOwnSchedule /\ Gateway!TouchesNothing
  <2> DEFINE q == call[u]
             p == Gateway!NextPost(q.todo)
             done == Gateway!Posted(gateway, p, q)
  <2>1. /\ q.at = "posting" /\ gateway' \in {gateway, done} /\ UNCHANGED site
        /\ \A w \in Two : w # u => call'[w] = call[w]
    BY <1>1, <1>2 DEF Gateway!Post, Gateway!Goes, Gateway!Fails
  <2>2. /\ q \in FranklinCalls /\ FranklinPlan(q) /\ (alone[u] => FranklinAlone(q, gateway))
        /\ gateway \in Gateway!AllGateways /\ q.todo \in SUBSET {"soc", "mode"}
    BY <2>1, UnderWay
  <2>3. /\ q.todo # {} /\ ~site.dry /\ q.to = Gateway!TargetMode(q.cmd)
        /\ "soc" \in q.todo => ~Gateway!ByBackup(q.cmd) /\ q.soc \in 5..100
    BY <2>1, <2>2 DEF FranklinPlan
  <2>4. p \in q.todo /\ p \in {"soc", "mode"} /\ (p = "mode" => "soc" \notin q.todo)
    BY <2>2, <2>3 DEF Gateway!NextPost
  <2>5. p = "soc" => q.to \in {"sc", "tou"}
    BY <2>3, <2>4 DEF Gateway!TargetMode
  <2> HIDE DEF p, q, done
  <2>6. /\ done \in Gateway!AllGateways /\ done.sched = gateway.sched
        /\ p = "soc" => done.mode = gateway.mode
        /\ p # "soc" => done.mode = q.to /\ done.soc = gateway.soc
    BY <2>2, <2>3, <2>4, <2>5, GatewayPosted DEF done
  <2>7. gateway'.sched = gateway.sched
    BY <2>1, <2>6
  <2>8. ASSUME alone[u], gateway'.mode # gateway.mode
        PROVE  Gateway!Obeys(gateway', q.cmd, q.level)
    <3>1. gateway' = done /\ p = "mode" /\ "soc" \notin q.todo /\ q.todo = {"mode"}
      BY <2>1, <2>2, <2>4, <2>6, <2>8
    <3>2. FranklinInPlace(q, gateway)
      BY <2>2, <2>3, <2>8 DEF FranklinAlone
    <3> DEFINE rest == [q EXCEPT !.at = "done", !.todo = {}]
    <3>3. /\ rest.at = "done" /\ rest.todo = {} /\ rest.to = q.to /\ rest.cmd = q.cmd
          /\ rest.level = q.level /\ rest.missing = q.missing /\ rest.made = q.made
      BY <2>2 DEF FranklinCalls
    <3> HIDE DEF rest
    <3>4. FranklinInPlace(rest, done)
      BY <2>1, <2>6, <3>1, <3>2, <3>3 DEF FranklinInPlace
    <3>5. FranklinPlan(rest)
      BY <2>2, <2>3, <3>3 DEF FranklinPlan
    <3> QED
      BY <3>1, <3>3, <3>4, <3>5, InPlaceObeys
  <2>9. Gateway!ModeIsLast
    BY <2>1, <2>8 DEF Gateway!ModeIsLast, q
  <2> QED
    BY <2>3, <2>7, <2>9 DEF Gateway!KeepsOwnSchedule, Gateway!TouchesNothing
<1>3. ASSUME NEW u \in Two, Gateway!Save(u)
      PROVE  Gateway!ModeIsLast /\ Gateway!KeepsOwnSchedule /\ Gateway!TouchesNothing
  <2>1. /\ call[u].at = "saving" /\ \A w \in Two : w # u => call'[w] = call[w]
        /\ gateway' \in {gateway, Gateway!Saved(call[u].cmd)}
        /\ call'[u] # call[u]
    <3>1. /\ call[u].at = "saving" /\ gateway' \in {gateway, Gateway!Saved(call[u].cmd)}
      BY <1>3 DEF Gateway!Save
    <3> DEFINE made == [call[u] EXCEPT !.made = @ \union {"sched"}]
    <3>2. PICK q \in {[made EXCEPT !.at = "fetching"], Gateway!AfterSchedule(made), Gateway!Idle} :
            call' = [call EXCEPT ![u] = q]
      BY <1>3 DEF Gateway!Save, Gateway!Goes, Gateway!Fails
    <3>3. made \in FranklinCalls
      BY <3>1, UnderWay DEF FranklinCalls
    <3>4. q.at # "saving"
      <4> HIDE DEF made
      <4>1. [made EXCEPT !.at = "fetching"].at = "fetching"
        BY <3>3 DEF FranklinCalls
      <4> QED
        BY <3>3, <4>1, AfterScheduleFields, FranklinCallFields
    <3> QED
      BY <1>1, <3>1, <3>2, <3>4
  <2>2. site.dry => gateway' = gateway
    BY <2>1 DEF Gateway!Saved
  <2>3. FranklinPlan(call[u]) /\ (alone[u] => FranklinAlone(call[u], gateway)) /\ alone \in [Two -> BOOLEAN]
    BY <2>1, UnderWay
  <2>4. gateway.sched = "own" => Gateway!Managed(call[u].cmd) \/ ~alone[u]
    BY <2>1, <2>3 DEF FranklinAlone
  <2> QED
    BY <2>1, <2>2, <2>4 DEF Gateway!ModeIsLast, Gateway!KeepsOwnSchedule, Gateway!TouchesNothing
<1>4. CASE gateway' = gateway
  BY <1>4 DEF Gateway!ModeIsLast, Gateway!KeepsOwnSchedule, Gateway!TouchesNothing
<1>5. CASE Gateway!Change
  <2>1. call' = call /\ changes' # changes
    <3>1. changes \in Nat
      BY GatewayFacts, SMT DEF GatewaySound
    <3> QED
      BY <1>5, <3>1, SMT DEF Gateway!Change
  <2>2. gateway' = gateway \/ gateway' \in FranklinOwned
    BY <1>5 DEF Gateway!Change
  <2> QED
    BY <2>1, <2>2, FranklinAssumption
       DEF Gateway!ModeIsLast, Gateway!KeepsOwnSchedule, Gateway!TouchesNothing
<1>6. CASE Gateway!Loaded
  <2>1. call' = call /\ gateway' = [gateway EXCEPT !.busy = FALSE] /\ gateway \in Gateway!AllGateways
    BY <1>6, GatewayFacts DEF Gateway!Loaded, GatewaySound
  <2>2. gateway'.sched = gateway.sched
    BY <2>1 DEF Gateway!AllGateways
  <2> QED
    BY <2>1, <2>2 DEF Gateway!ModeIsLast, Gateway!KeepsOwnSchedule, Gateway!TouchesNothing
<1>7. \/ gateway' = gateway \/ Gateway!Change \/ Gateway!Loaded
      \/ \E u \in Two : Gateway!Post(u) \/ Gateway!Save(u)
  BY DEF Gateway!Next, Gateway!Begin, Gateway!BeginNone, Gateway!Check, Gateway!Fetch, Gateway!Wait, Gateway!Return
<1> QED
  BY <1>2, <1>3, <1>4, <1>5, <1>6, <1>7

-----------------------------------------------------------------------------
(* A Powerwall commanded by hand: its verifications outlive every wait, for   *)
(* they live in the request's context, and the request waits for them.        *)
ManualSound ==
    /\ DOMAIN call = One /\ DOMAIN ver = One
    /\ \A u \in One :
        /\ call[u].at # "idle" => {"at", "sweep"} \subseteq DOMAIN call[u] /\ ~call[u].sweep
        /\ ver[u].at # "idle" => /\ {"at", "dead"} \subseteq DOMAIN ver[u] /\ ~ver[u].dead
                                 /\ call[u].at \in {"ending", "waiting"}

LEMMA ManualStarts == ASSUME Manual!Init PROVE ManualSound
BY DEF Manual!Init, Manual!Idle, ManualSound

(* The call of an update as it may go on, its verification left as it is.     *)
LEMMA ManualCallGoesOn ==
    ASSUME ManualSound, NEW u \in One, NEW q, call' = [call EXCEPT ![u] = q], ver' = ver,
           q.at # "idle" => {"at", "sweep"} \subseteq DOMAIN q /\ ~q.sweep,
           ver[u].at # "idle" => q.at \in {"ending", "waiting"}
    PROVE  ManualSound'
<1>1. /\ DOMAIN call' = One /\ DOMAIN ver' = One /\ call'[u] = q
      /\ \A w \in One : w # u => call'[w] = call[w]
  BY DEF ManualSound
<1> QED
  BY <1>1 DEF ManualSound

LEMMA ManualVerifies ==
    ASSUME ManualSound, NEW u \in One, NEW v, ver' = [ver EXCEPT ![u] = v], call' = call,
           v.at # "idle" => /\ {"at", "dead"} \subseteq DOMAIN v /\ ~v.dead
                            /\ call[u].at \in {"ending", "waiting"}
    PROVE  ManualSound'
<1>1. /\ DOMAIN call' = One /\ DOMAIN ver' = One /\ ver'[u] = v
      /\ \A w \in One : w # u => ver'[w] = ver[w]
  BY DEF ManualSound
<1> QED
  BY <1>1 DEF ManualSound

LEMMA ManualGoesOn == ASSUME ManualSound, Manual!Next PROVE ManualSound'
<1>1. CASE call' = call /\ ver' = ver
  BY <1>1 DEF ManualSound
<1>2. ASSUME NEW u \in One, Manual!Begin(u) PROVE ManualSound'
  <2>1. PICK q : /\ call' = [call EXCEPT ![u] = q] /\ ver' = ver /\ call[u].at = "idle"
                 /\ {"at", "sweep"} \subseteq DOMAIN q /\ ~q.sweep
    <3>1. PICK i \in Server, sweep \in BOOLEAN, odd \in BOOLEAN :
            LET known == Manual!Known(i)
                needed == Manual!Needed(wanted, Managing, 50, known, odd) IN
            /\ call[u].at = "idle" /\ ~Manual!Locked(i)
            /\ IF sweep THEN FALSE ELSE TRUE
            /\ cache' = [cache EXCEPT ![i] = known] /\ fresh' = [fresh EXCEPT ![i] = TRUE]
            /\ call' = [call EXCEPT ![u] =
                 [at |-> "posting", sweep |-> sweep, inst |-> i,
                  to |-> Manual!Target(wanted, Managing, 50, known),
                  todo |-> IF Managing.dry THEN {} ELSE needed,
                  soc |-> ~Managing.dry /\ "soc" \in needed]]
            /\ UNCHANGED <<wanted, bat, ver, changes, faults, last, newest>>
      BY <1>2 DEF Manual!Begin
    <3> DEFINE q == [at |-> "posting", sweep |-> sweep, inst |-> i,
                     to |-> Manual!Target(wanted, Managing, 50, Manual!Known(i)),
                     todo |-> IF Managing.dry THEN {}
                              ELSE Manual!Needed(wanted, Managing, 50, Manual!Known(i), odd),
                     soc |-> /\ ~Managing.dry
                             /\ "soc" \in Manual!Needed(wanted, Managing, 50, Manual!Known(i), odd)]
    <3>2. {"at", "sweep"} \subseteq DOMAIN q /\ ~q.sweep
      BY <3>1
    <3>3. call' = [call EXCEPT ![u] = q]
      BY <3>1
    <3> HIDE DEF q
    <3> QED
      BY <3>1, <3>2, <3>3
  <2> QED
    BY <2>1, ManualCallGoesOn DEF ManualSound
<1>3. ASSUME NEW u \in One, Manual!Post(u) PROVE ManualSound'
  <2> DEFINE p == Manual!NextPost(call[u].todo)
             on == [call[u] EXCEPT !.todo = @ \ {p}]
  <2>1. /\ call[u].at = "posting" /\ ver' = ver
        /\ call' \in {[call EXCEPT ![u].todo = @ \ {p}], [call EXCEPT ![u] = Manual!Idle]}
    BY <1>3 DEF Manual!Post, Manual!Fails
  <2>2. {"at", "sweep"} \subseteq DOMAIN call[u] /\ ~call[u].sweep /\ ver[u].at = "idle"
    BY <2>1 DEF ManualSound
  <2>3. call' = [call EXCEPT ![u] = on] \/ call' = [call EXCEPT ![u] = Manual!Idle]
    BY <2>1
  <2>4. {"at", "sweep"} \subseteq DOMAIN on /\ ~on.sweep
    BY <2>2
  <2> HIDE DEF on
  <2> QED
    BY <2>1, <2>2, <2>3, <2>4, ManualCallGoesOn DEF Manual!Idle
<1>4. ASSUME NEW u \in One, Manual!Return(u) PROVE ManualSound'
  <2> DEFINE on == [call[u] EXCEPT !.at = "ending"]
             v == [at |-> "sleeping", expect |-> call[u].to.soc, n |-> 1, dead |-> FALSE]
  <2>1. /\ call[u].at = "posting" /\ ver[u].at = "idle" /\ call' = [call EXCEPT ![u] = on]
        /\ ver' = ver \/ ver' = [ver EXCEPT ![u] = v]
    BY <1>4 DEF Manual!Return
  <2>2. {"at", "sweep"} \subseteq DOMAIN on /\ on.at = "ending" /\ ~on.sweep
    BY <2>1 DEF ManualSound
  <2>3. {"at", "dead"} \subseteq DOMAIN v /\ ~v.dead
    OBVIOUS
  <2> HIDE DEF on, v
  <2>4. /\ DOMAIN call' = One /\ DOMAIN ver' = One /\ call'[u] = on
        /\ \A w \in One : w # u => call'[w] = call[w] /\ ver'[w] = ver[w]
        /\ ver'[u] = v \/ ver'[u] = ver[u]
    BY <2>1 DEF ManualSound
  <2> QED
    BY <2>1, <2>2, <2>3, <2>4 DEF ManualSound
<1>5. ASSUME NEW u \in One, Manual!Finish(u) PROVE ManualSound'
  <2> DEFINE on == [call[u] EXCEPT !.at = "waiting"]
  <2>1. call[u].at = "ending" /\ call' = [call EXCEPT ![u] = on] /\ ver' = ver
    BY <1>5 DEF Manual!Finish, ManualSound
  <2>2. {"at", "sweep"} \subseteq DOMAIN on /\ on.at = "waiting" /\ ~on.sweep
    BY <2>1 DEF ManualSound
  <2> HIDE DEF on
  <2> QED
    BY <2>1, <2>2, ManualCallGoesOn
<1>6. ASSUME NEW u \in One, Manual!Answer(u) PROVE ManualSound'
  BY <1>6, ManualCallGoesOn DEF Manual!Answer, Manual!Idle
<1>7. ASSUME NEW u \in One, Manual!Wake(u) \/ Manual!Look(u) \/ Manual!Repost(u) PROVE ManualSound'
  <2> DEFINE w == ver[u]
  <2>1. call' = call /\ w.at # "idle"
    BY <1>7 DEF Manual!Wake, Manual!Look, Manual!Repost
  <2>2. {"at", "dead"} \subseteq DOMAIN w /\ ~w.dead /\ call[u].at \in {"ending", "waiting"}
    BY <2>1 DEF ManualSound
  <2>3. PICK v \in {Manual!Idle, [w EXCEPT !.at = "looking"], [w EXCEPT !.at = "sleeping", !.n = 2],
                    [w EXCEPT !.at = "posting"]} : ver' = [ver EXCEPT ![u] = v]
    BY <1>7 DEF Manual!Wake, Manual!Look, Manual!Repost, Manual!Verifies, Manual!TooEarly
  <2>4. v.at # "idle" => {"at", "dead"} \subseteq DOMAIN v /\ ~v.dead
    <3>1. CASE v = [w EXCEPT !.at = "looking"]
      BY <2>2, <3>1
    <3>2. CASE v = [w EXCEPT !.at = "sleeping", !.n = 2]
      <4> DEFINE x == [w EXCEPT !.at = "sleeping"]
      <4>1. DOMAIN x = DOMAIN w /\ ~x.dead
        BY <2>2
      <4> HIDE DEF x
      <4>2. v = [x EXCEPT !.n = 2]
        BY <3>2 DEF x
      <4> QED
        BY <2>2, <4>1, <4>2
    <3>3. CASE v = [w EXCEPT !.at = "posting"]
      BY <2>2, <3>3
    <3>4. CASE v = Manual!Idle
      BY <3>4 DEF Manual!Idle
    <3> QED
      BY <3>1, <3>2, <3>3, <3>4
  <2> QED
    BY <2>1, <2>2, <2>3, <2>4, ManualVerifies
<1>8. \/ call' = call /\ ver' = ver
      \/ \E u \in One : \/ Manual!Begin(u) \/ Manual!Post(u) \/ Manual!Return(u) \/ Manual!Finish(u)
                        \/ Manual!Answer(u) \/ Manual!Wake(u) \/ Manual!Look(u) \/ Manual!Repost(u)
  BY DEF Manual!Next, Manual!Change, Manual!Age, Manual!BeginUnread, Manual!Storm
<1> QED
  BY <1>1, <1>2, <1>3, <1>4, <1>5, <1>6, <1>7, <1>8

LEMMA ManualSteps == ASSUME ManualSound, Manual!Next PROVE Manual!NotGivenUp
<1>1. CASE ver' = ver
  BY <1>1 DEF Manual!NotGivenUp
<1>2. ASSUME NEW u \in One, Manual!Wake(u) PROVE Manual!NotGivenUp
  <2>1. ver[u].at = "sleeping" /\ Manual!Outlives(u)
    BY <1>2 DEF Manual!Wake, Manual!Outlives, ManualSound
  <2>2. ver' = [ver EXCEPT ![u] = [ver[u] EXCEPT !.at = "looking"]] /\ "at" \in DOMAIN ver[u]
    BY <1>2, <2>1 DEF Manual!Wake, Manual!Verifies, ManualSound
  <2> QED
    BY <2>2 DEF ManualSound, Manual!NotGivenUp
<1>3. ASSUME NEW u \in One, ver[u].at # "sleeping", \E v : ver' = [ver EXCEPT ![u] = v]
      PROVE  Manual!NotGivenUp
  BY <1>3 DEF ManualSound, Manual!NotGivenUp
<1>4. \/ ver' = ver
      \/ \E u \in One : Manual!Return(u) \/ Manual!Finish(u) \/ Manual!Wake(u) \/ Manual!Look(u) \/ Manual!Repost(u)
  BY DEF Manual!Next, Manual!Change, Manual!Age, Manual!BeginUnread, Manual!Storm, Manual!Begin, Manual!Post,
         Manual!Answer
<1>5. ASSUME NEW u \in One, Manual!Return(u) PROVE Manual!NotGivenUp
  BY <1>1, <1>3, <1>5 DEF Manual!Return
<1>6. ASSUME NEW u \in One, Manual!Finish(u) PROVE Manual!NotGivenUp
  BY <1>1, <1>6 DEF Manual!Finish, ManualSound
<1>7. ASSUME NEW u \in One, Manual!Look(u) PROVE Manual!NotGivenUp
  BY <1>3, <1>7 DEF Manual!Look, Manual!Verifies
<1>8. ASSUME NEW u \in One, Manual!Repost(u) PROVE Manual!NotGivenUp
  BY <1>3, <1>8 DEF Manual!Repost, Manual!Verifies
<1> QED
  BY <1>1, <1>2, <1>4, <1>5, <1>6, <1>7, <1>8

-----------------------------------------------------------------------------
(* All of it, each part in its behaviours.                                    *)
BatteriesSound ==
    /\ part = "target" => TargetTypes
    /\ part = "powerwall" => PowerwallSound
    /\ part = "manual" => ManualSound
    /\ part \in Franklins => GatewaySound
    /\ part \in Enphases => EnphaseSound

LEMMA BatteriesStart == ASSUME PartsInit PROVE BatteriesSound
<1>1. CASE part = "target"
  BY <1>1, TargetStarts DEF PartsInit, BatteriesSound, Teslas, Franklins, Enphases
<1>2. CASE part = "powerwall"
  BY <1>2, PowerwallStarts DEF PartsInit, BatteriesSound, Teslas, Franklins, Enphases
<1>3. CASE part = "manual"
  BY <1>3, ManualStarts DEF PartsInit, BatteriesSound, Teslas, Franklins, Enphases
<1>4. CASE part \in Franklins
  BY <1>4, GatewayStarts DEF PartsInit, BatteriesSound, Teslas, Franklins, Enphases
<1>5. CASE part \in Enphases
  BY <1>5, EnphaseStarts DEF PartsInit, BatteriesSound, Teslas, Franklins, Enphases
<1>6. CASE part \notin {"target", "powerwall", "manual"} \union Franklins \union Enphases
  BY <1>6 DEF BatteriesSound
<1> QED
  BY <1>1, <1>2, <1>3, <1>4, <1>5, <1>6

(* A step of one battery is a step of its module.                             *)
LEMMA PartsStep ==
    ASSUME PartsNext
    PROVE  /\ part' = part
           /\ part = "target" => TargetNext
           /\ part = "powerwall" => Powerwall!Next
           /\ part = "manual" => Manual!Next
           /\ part \in Franklins => Gateway!Next
           /\ part \in Enphases => Microinverters!Next
BY DEF PartsNext, ForPowerwall, ForGateway, ForEnphase, Franklins, Enphases

LEMMA BatteriesRest == ASSUME BatteriesSound, UNCHANGED vars PROVE BatteriesSound'
<1>1. /\ part' = part /\ site' = site /\ wanted' = wanted /\ level' = level /\ call' = call /\ alone' = alone
      /\ changes' = changes /\ faults' = faults /\ gateway' = gateway
      /\ bat' = bat /\ cache' = cache /\ fresh' = fresh /\ ver' = ver /\ last' = last /\ newest' = newest
      /\ storm' = storm /\ now' = now /\ asked' = asked /\ weather' = weather
  BY DEF vars, shared, powerwall, microinverters
<1>2. TargetTypes => TargetTypes'
  BY <1>1 DEF TargetTypes
<1>3. PowerwallSound => PowerwallSound'
  BY <1>1 DEF PowerwallSound, UpdateInv, Powerwall!TypeOK, Powerwall!CacheTrue
<1>4. ManualSound => ManualSound'
  BY <1>1 DEF ManualSound
<1>5. GatewaySound => GatewaySound'
  <2>1. Gateway!TypeOK => Gateway!TypeOK'
    BY <1>1 DEF Gateway!TypeOK
  <2>2. \A u \in Two : /\ FranklinPlan(call[u]) => FranklinPlan(call[u])'
                       /\ FranklinAlone(call[u], gateway) => FranklinAlone(call[u], gateway)'
    BY <1>1, SamePlan
  <2> QED
    BY <1>1, <2>1, <2>2 DEF GatewaySound
<1>6. EnphaseSound => EnphaseSound'
  <2>1. Microinverters!TypeOK => Microinverters!TypeOK'
    BY <1>1 DEF Microinverters!TypeOK
  <2>2. \A u \in Two : EnphaseCall(u) => EnphaseCall(u)'
    BY <1>1, EnphaseCallKept
  <2> QED
    BY <1>1, <2>1, <2>2 DEF EnphaseSound
<1> QED
  BY <1>1, <1>2, <1>3, <1>4, <1>5, <1>6 DEF BatteriesSound

LEMMA BatteriesGoOn == ASSUME BatteriesSound, [PartsNext]_vars PROVE BatteriesSound'
<1>1. CASE PartsNext
  BY <1>1, PartsStep, TargetGoesOn, PowerwallGoesOn, ManualGoesOn, GatewayGoesOn, EnphaseGoesOn
     DEF BatteriesSound
<1> QED
  BY <1>1, BatteriesRest

LEMMA BatteriesStaySound == PartsSpec => []BatteriesSound
<1>1. PartsInit => BatteriesSound
  BY BatteriesStart
<1>2. BatteriesSound /\ [PartsNext]_vars => BatteriesSound'
  BY BatteriesGoOn
<1> QED
  BY <1>1, <1>2, PTL DEF PartsSpec

(* Every command asked of a Powerwall settles, standby holds the battery and  *)
(* a load releases it: for any set of commands, any levels, any settings of   *)
(* the site (Tesla.SetModes).                                                 *)
THEOREM TargetsSettle == PartsSpec => []TargetInv
<1>1. BatteriesSound => TargetInv
  BY TargetHolds DEF BatteriesSound
<1> QED
  BY <1>1, BatteriesStaySound, PTL

(* A Powerwall that one update after another commands does what a SetModes    *)
(* that succeeded asked of it, and an instance never takes it for what it is  *)
(* not: for any commands, level, settings and Powerwall at first.             *)
THEOREM PowerwallsObey == PartsSpec => []PowerwallInv
<1>1. BatteriesSound => PowerwallInv
  BY PowerwallHolds DEF BatteriesSound
<1> QED
  BY <1>1, BatteriesStaySound, PTL

(* A Franklin gateway does what a SetModes that succeeded asked of it, and    *)
(* its dispatch is never reloaded along with a mode or a reserve: for any     *)
(* number of updates at once, any sites, commands, levels and gateways.       *)
THEOREM GatewaysObey == PartsSpec => []GatewayInv
<1>1. BatteriesSound => GatewayInv
  BY GatewayHolds DEF BatteriesSound
<1> QED
  BY <1>1, BatteriesStaySound, PTL

(* An Enphase battery does what a SetModes that succeeded asked of it: for    *)
(* any number of updates at once, any sites, commands, levels, configurations.*)
THEOREM EnphasesObey == PartsSpec => []EnphaseInv
<1>1. BatteriesSound => EnphaseInv
  BY EnphaseHolds DEF BatteriesSound
<1> QED
  BY <1>1, BatteriesStaySound, PTL

(* What is the owner's stays the owner's, for any number of updates at once:  *)
(* the schedule of a gateway, a gateway of a dry run, a backup profile, the   *)
(* permission to charge from the grid.                                        *)
THEOREM OwnersAreKept == PartsSpec => OwnersKept
<1>1. BatteriesSound /\ [PartsNext]_vars => [(part \in Franklins) => Gateway!KeepsOwnSchedule]_vars
  BY PartsStep, GatewaySteps DEF BatteriesSound
<1>2. BatteriesSound /\ [PartsNext]_vars => [(part \in Franklins) => Gateway!TouchesNothing]_vars
  BY PartsStep, GatewaySteps DEF BatteriesSound
<1>3. BatteriesSound /\ [PartsNext]_vars => [(part \in Enphases) => Microinverters!KeepsBackup]_vars
  BY PartsStep, EnphaseSteps DEF BatteriesSound
<1>4. BatteriesSound /\ [PartsNext]_vars => [(part \in Enphases) => Microinverters!KeepsOwnersCharge]_vars
  BY PartsStep, EnphaseSteps DEF BatteriesSound
<1> QED
  BY <1>1, <1>2, <1>3, <1>4, BatteriesStaySound, PTL
     DEF PartsSpec, OwnersKept, OwnScheduleKept, DryTouchesNothing, BackupKept, OwnersChargeKept

(* The posts keep their order, for any number of updates at once: the mode of *)
(* a gateway comes after what it needs, nothing is asked of an Enphase        *)
(* battery twice, and a Powerwall commanded by hand has its reserve verified. *)
THEOREM PostsKeepOrder == PartsSpec => PostsInOrder
<1>1. BatteriesSound /\ [PartsNext]_vars => [part = "manual" => Manual!NotGivenUp]_vars
  BY PartsStep, ManualSteps DEF BatteriesSound
<1>2. BatteriesSound /\ [PartsNext]_vars => [(part \in Franklins) => Gateway!ModeIsLast]_vars
  BY PartsStep, GatewaySteps DEF BatteriesSound
<1>3. BatteriesSound /\ [PartsNext]_vars => [(part \in Enphases) => Microinverters!AsksOnce]_vars
  BY PartsStep, EnphaseSteps DEF BatteriesSound
<1> QED
  BY <1>1, <1>2, <1>3, BatteriesStaySound, PTL
     DEF PartsSpec, PostsInOrder, ReserveIsVerified, ModeComesLast, NotAskedTwice
=============================================================================
