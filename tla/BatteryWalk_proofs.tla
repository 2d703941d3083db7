------------------------- MODULE BatteryWalk_proofs -------------------------
(* The limits of the battery and of the meter hold in every plan, whatever    *)
(* the battery's size, its losses, the draws, the sun and the events.         *)
EXTENDS BatteryWalk, WellFoundedInduction, TLAPS

(* A multiple's quotient.                                                     *)
LEMMA QuotientBound ==
    ASSUME NEW x \in Nat, NEW r \in Nat, NEW d \in Nat \ {0}, x <= r * d
    PROVE  x \div d \in Nat /\ x \div d <= r
<1>1. x \div d \in Int /\ d * (x \div d) <= x /\ x < d * (x \div d) + d  BY SMT
<1>2. x \div d \in Nat  BY <1>1, SMT
<1>3. x \div d <= r  BY <1>1, SMT
<1> QED  BY <1>2, <1>3

(* What can be delivered leaves the battery at its floor, or where it was.    *)
LEMMA Delivery ==
    ASSUME NEW e \in 0..Capacity, NEW a \in Actions, NEW v \in Intervals
    PROVE  /\ Floor(a, v) \in 0..Capacity
           /\ Deliverable(e, a, v) \in Nat /\ Deliverable(e, a, v) <= MaxDischarge
           /\ e - Deliverable(e, a, v) >= Least(e, Floor(a, v))
<1>1. Floor(a, v) \in 0..Capacity  BY SMT DEF Floor, Actions, Intervals
<1> QED  BY <1>1, PhysicsAssumption, SMT DEF Deliverable, Least, Above

(* The sun's part: it is all of the home's draw, of what the battery takes    *)
(* and of a surplus, none of them negative.                                   *)
LEMMA Sunshine ==
    ASSUME NEW e \in 0..Capacity, NEW a \in Actions, NEW v \in Intervals
    PROVE  /\ ToHome(e, a, v) \in Nat /\ Surplus(e, a, v) \in Nat /\ Unmet(e, a, v) \in Nat
           /\ Surplus(e, a, v) > 0 =>
                Unmet(e, a, v) = IF BatteryFirst(a) THEN Least(v.load, Deliverable(e, a, v)) ELSE 0
           /\ Stored(e, a, v) \in Nat /\ Stored(e, a, v) <= MaxCharge
           /\ Stored(e, a, v) <= Surplus(e, a, v)
           /\ Sunned(e, a, v) \in e..Capacity
           /\ Stored(e, a, v) = 0 => Sunned(e, a, v) = e
           /\ Stored(e, a, v) = (Capacity - e) * Loss => Sunned(e, a, v) = Capacity
<1>1. Deliverable(e, a, v) \in Nat  BY Delivery
<1>2. v.load \in Nat /\ v.solar \in Nat  BY DEF Intervals
<1>3. /\ ToHome(e, a, v) \in Nat /\ Surplus(e, a, v) \in Nat /\ Unmet(e, a, v) \in Nat
      /\ Surplus(e, a, v) > 0 =>
           Unmet(e, a, v) = IF BatteryFirst(a) THEN Least(v.load, Deliverable(e, a, v)) ELSE 0
  BY <1>1, <1>2, SMT DEF ToHome, Surplus, Unmet, Least, Above
<1>4. DEFINE room == (Capacity - e) * Loss
<1>5. Capacity - e \in Nat /\ room \in Nat  BY PhysicsAssumption, SMT
<1>6. /\ Stored(e, a, v) \in Nat /\ Stored(e, a, v) <= MaxCharge
      /\ Stored(e, a, v) <= Surplus(e, a, v) /\ Stored(e, a, v) <= room
  <2> HIDE DEF room
  <2>1. CASE BatteryFirst(a) \/ ~v.charges \/ (a.solar = "export" /\ a.battery # "charge")
    BY <2>1, <1>3, <1>5, PhysicsAssumption, SMT DEF Stored
  <2>2. CASE ~(BatteryFirst(a) \/ ~v.charges \/ (a.solar = "export" /\ a.battery # "charge"))
    <3>1. Stored(e, a, v) = Least(Surplus(e, a, v), Least(MaxCharge, room))
      BY <2>2 DEF Stored, room
    <3> QED  BY <3>1, <1>3, <1>5, PhysicsAssumption, SMT DEF Least
  <2> QED  BY <2>1, <2>2
<1>7. /\ Stored(e, a, v) \div Loss \in Nat
      /\ Stored(e, a, v) \div Loss <= Capacity - e
  BY <1>5, <1>6, QuotientBound, PhysicsAssumption
<1>8. Stored(e, a, v) = 0 => Sunned(e, a, v) = e
  BY PhysicsAssumption, SMT DEF Sunned
<1>9. Stored(e, a, v) = room => Stored(e, a, v) \div Loss = Capacity - e
  BY <1>5, PhysicsAssumption, SMT
<1>10. Sunned(e, a, v) \in e..Capacity  BY <1>7, PhysicsAssumption, SMT DEF Sunned
<1>11. Stored(e, a, v) = room => Sunned(e, a, v) = Capacity
  BY <1>9, PhysicsAssumption, SMT DEF Sunned
<1> QED  BY <1>3, <1>6, <1>8, <1>10, <1>11

(* The grid's part: within the room to the target and what the sun left of    *)
(* the power; none where the sun filled the battery or took all the power.    *)
LEMMA Purchase ==
    ASSUME NEW e \in 0..Capacity, NEW a \in Actions, NEW v \in Intervals
    PROVE  /\ Bought(e, a, v) \in Nat /\ Stored(e, a, v) + Bought(e, a, v) <= MaxCharge
           /\ Bought(e, a, v) \div Loss \in Nat
           /\ Sunned(e, a, v) + Bought(e, a, v) \div Loss \in Sunned(e, a, v)..Capacity
           /\ (a.battery # "charge" \/ Sunned(e, a, v) = Capacity) => Bought(e, a, v) = 0
           /\ Bought(e, a, v) = 0 => Bought(e, a, v) \div Loss = 0
<1> DEFINE s == Sunned(e, a, v)
           lim == IF a.target = 0 THEN Capacity ELSE a.target
           gap == Above(lim, s)
<1>1. /\ s \in e..Capacity /\ s \in 0..Capacity
      /\ Stored(e, a, v) \in Nat /\ Stored(e, a, v) <= MaxCharge
  BY Sunshine, SMT
<1>2. lim \in 0..Capacity  BY PhysicsAssumption, SMT DEF Actions
<1>3. gap \in Nat /\ gap <= Capacity - s /\ (s = Capacity => gap = 0)
  <2> HIDE DEF s, lim
  <2> QED  BY <1>1, <1>2, PhysicsAssumption, SMT DEF Above
<1>4. CASE a.battery # "charge" \/ ~v.charges
  <2>1. Bought(e, a, v) = 0  BY <1>4 DEF Bought
  <2>2. 0 \div Loss = 0  BY PhysicsAssumption, SMT
  <2> QED  BY <2>1, <2>2, <1>1, SMT
<1>5. CASE ~(a.battery # "charge" \/ ~v.charges)
  <2>1. Bought(e, a, v) = Least(MaxCharge - Stored(e, a, v), gap * Loss)
    BY <1>5 DEF Bought
  <2>2. MaxCharge - Stored(e, a, v) \in Nat /\ gap * Loss \in Nat
    <3> HIDE DEF gap
    <3> QED  BY <1>1, <1>3, PhysicsAssumption, SMT
  <2>3. /\ Bought(e, a, v) \in Nat /\ Bought(e, a, v) <= gap * Loss
        /\ Bought(e, a, v) <= MaxCharge - Stored(e, a, v)
    <3> DEFINE m == gap * Loss
    <3>1. Bought(e, a, v) = Least(MaxCharge - Stored(e, a, v), m) /\ m \in Nat
      BY <2>1, <2>2
    <3> HIDE DEF m
    <3>2. Bought(e, a, v) \in Nat /\ Bought(e, a, v) <= m
          /\ Bought(e, a, v) <= MaxCharge - Stored(e, a, v)
      BY <3>1, <2>2, SMT DEF Least
    <3> QED  BY <3>2 DEF m
  <2>4. Bought(e, a, v) \div Loss \in Nat /\ Bought(e, a, v) \div Loss <= gap
    <3> HIDE DEF gap
    <3> QED  BY <2>3, <1>3, QuotientBound, PhysicsAssumption
  <2>5. s = Capacity => Bought(e, a, v) = 0
    <3>1. SUFFICES ASSUME s = Capacity PROVE Bought(e, a, v) = 0  OBVIOUS
    <3>2. gap = 0  BY <3>1, <1>3
    <3>3. gap * Loss = 0  BY <3>2, PhysicsAssumption, SMT
    <3> HIDE DEF gap
    <3> QED  BY <3>3, <2>3, SMT
  <2>6. 0 \div Loss = 0  BY PhysicsAssumption, SMT
  <2> HIDE DEF gap, lim
  <2> QED  BY <2>3, <2>4, <2>5, <2>6, <1>1, <1>3, <1>5, PhysicsAssumption, SMT
<1> QED  BY <1>4, <1>5

(* What the battery gives, to home and grid, leaves it at its floor at least. *)
LEMMA Supply ==
    ASSUME NEW e \in 0..Capacity, NEW a \in Actions, NEW v \in Intervals
    PROVE  /\ Given(e, a, v) \in Nat /\ Sold(e, a, v) \in Nat
           /\ Given(e, a, v) <= Unmet(e, a, v)
           /\ Given(e, a, v) + Sold(e, a, v) <= MaxDischarge
           /\ a.battery # "export" => Sold(e, a, v) = 0
           /\ Given(e, a, v) + Sold(e, a, v) = 0
              \/ Sunned(e, a, v) - Given(e, a, v) - Sold(e, a, v)
                    >= Least(Sunned(e, a, v), Floor(a, v))
           /\ Given(e, a, v) + Sold(e, a, v) > 0 => a.battery # "charge"
           /\ Sold(e, a, v) > 0 => Given(e, a, v) = Unmet(e, a, v)
<1> DEFINE s == Sunned(e, a, v)
           d == Deliverable(s, a, v)
<1>1. s \in 0..Capacity /\ Unmet(e, a, v) \in Nat  BY Sunshine, SMT
<1>2. /\ d \in Nat /\ d <= MaxDischarge /\ s - d >= Least(s, Floor(a, v))
      /\ Floor(a, v) \in 0..Capacity
  BY <1>1, Delivery
<1>3. Given(e, a, v) = IF a.battery \notin {"load", "export"} THEN 0 ELSE Least(Unmet(e, a, v), d)
  BY DEF Given
<1>4. Sold(e, a, v) = IF a.battery # "export" THEN 0 ELSE d - Given(e, a, v)
  BY DEF Sold
<1>5. Least(s, Floor(a, v)) \in Int  BY <1>1, <1>2, SMT DEF Least
<1> HIDE DEF s, d
<1>6. CASE a.battery = "export"
  BY <1>6, <1>1, <1>2, <1>3, <1>4, <1>5, PhysicsAssumption, SMT DEF Least, s
<1>7. CASE a.battery = "load"
  BY <1>7, <1>1, <1>2, <1>3, <1>4, <1>5, PhysicsAssumption, SMT DEF Least, s
<1>8. CASE a.battery \notin {"load", "export"}
  BY <1>8, <1>1, <1>2, <1>3, <1>4, PhysicsAssumption, SMT DEF s
<1> QED  BY <1>6, <1>7, <1>8

(* An interval keeps the battery between empty and full, and above its floor  *)
(* or where it was.                                                           *)
LEMMA Kept_Within ==
    ASSUME NEW e \in 0..Capacity, NEW a \in Actions, NEW v \in Intervals
    PROVE  After(e, a, v) \in 0..Capacity /\ After(e, a, v) >= Least(e, Floor(a, v))
<1> DEFINE s == Sunned(e, a, v)
           b == Bought(e, a, v) \div Loss
           g == Given(e, a, v)
           o == Sold(e, a, v)
<1>1. s \in e..Capacity /\ b \in Nat /\ s + b \in s..Capacity
  BY Sunshine, Purchase
<1>2. /\ g \in Nat /\ o \in Nat
      /\ (g + o = 0 \/ s - g - o >= Least(s, Floor(a, v)))
      /\ g + o > 0 => a.battery # "charge"
  BY Supply
<1>3. a.battery # "charge" => b = 0  BY Purchase
<1>4. Floor(a, v) \in 0..Capacity  BY Delivery
<1>5. After(e, a, v) = s + b - g - o  BY DEF After
<1> HIDE DEF s, b, g, o
<1>6. s \in Int /\ s >= e /\ s <= Capacity /\ b \in Int /\ b >= 0 /\ s + b <= Capacity /\ e \in Nat
  BY <1>1, PhysicsAssumption, SMT
<1>7. Least(s, Floor(a, v)) >= Least(e, Floor(a, v)) /\ Least(e, Floor(a, v)) \in 0..Capacity
  BY <1>1, <1>4, PhysicsAssumption, SMT DEF Least
<1>8. CASE g + o = 0
  <2>1. After(e, a, v) = s + b  BY <1>8, <1>6, <1>2, <1>5, SMT
  <2>2. e >= Least(e, Floor(a, v))  BY <1>4, SMT DEF Least
  <2> QED  BY <2>1, <2>2, <1>6, <1>7, PhysicsAssumption, SMT
<1>9. CASE g + o # 0
  <2>1. b = 0 /\ s - g - o >= Least(s, Floor(a, v))  BY <1>9, <1>6, <1>2, <1>3, SMT
  <2>2. Least(s, Floor(a, v)) \in Int  BY <1>6, <1>4, PhysicsAssumption, SMT DEF Least
  <2> QED  BY <2>1, <2>2, <1>6, <1>2, <1>5, <1>7, PhysicsAssumption, SMT
<1> QED  BY <1>8, <1>9

(* At the meter: an interval that buys has no surplus of sun and sells        *)
(* nothing of the battery.                                                    *)
LEMMA OneWay ==
    ASSUME NEW e \in 0..Capacity, NEW a \in Actions, NEW v \in Intervals
    PROVE  Imported(e, a, v) = 0 \/ Exported(e, a, v) = 0
<1> DEFINE t == Stored(e, a, v)
           p == Surplus(e, a, v)
           u == Unmet(e, a, v)
           g == Given(e, a, v)
           b == Bought(e, a, v)
           o == Sold(e, a, v)
<1>1. /\ t \in Nat /\ t <= p /\ p \in Nat /\ u \in Nat
      /\ p > 0 => u = IF BatteryFirst(a) THEN Least(v.load, Deliverable(e, a, v)) ELSE 0
  BY Sunshine
<1>2. g \in Nat /\ g <= u /\ o \in Nat /\ b \in Nat  BY Supply, Purchase
<1>3. o > 0 => a.battery = "export" /\ g = u  BY Supply
<1>4. a.battery # "charge" => b = 0  BY Purchase
<1>5. Imported(e, a, v) = u - g + b
      /\ Exported(e, a, v) = (IF a.solar = "none" THEN 0 ELSE p - t) + o
  BY DEF Imported, Exported, SunExported
<1>6. (p > t /\ a.solar # "none" /\ a.battery = "charge") => b = 0
  <2>1. SUFFICES ASSUME p > t, a.battery = "charge", v.charges PROVE b = 0
    BY DEF Bought
  <2>2. t = Least(p, Least(MaxCharge, (Capacity - e) * Loss))
    BY <2>1 DEF Stored, BatteryFirst
  <2>3. t = MaxCharge \/ t = (Capacity - e) * Loss
    BY <2>1, <2>2, <1>1, SMT DEF Least
  <2>4. CASE t = MaxCharge
    <3>1. b \in Nat /\ t + b <= MaxCharge  BY Purchase
    <3> QED  BY <3>1, <2>4, <1>1, SMT
  <2>5. CASE t = (Capacity - e) * Loss
    BY <2>5, Sunshine, Purchase
  <2> QED  BY <2>3, <2>4, <2>5
<1>7. (p > 0 /\ BatteryFirst(a)) => g = u
  <2>1. SUFFICES ASSUME p > 0, BatteryFirst(a) PROVE g = u  OBVIOUS
  <2>2. u = Least(v.load, Deliverable(e, a, v))  BY <2>1, <1>1
  <2>3. Sunned(e, a, v) = e  BY <2>1, Sunshine DEF Stored
  <2>4. g = Least(u, Deliverable(e, a, v))  BY <2>1, <2>3 DEF Given, BatteryFirst
  <2>5. v.load \in Nat /\ Deliverable(e, a, v) \in Nat  BY Delivery DEF Intervals
  <2> HIDE DEF g, u
  <2> QED  BY <2>2, <2>4, <2>5, SMT DEF Least
<1> HIDE DEF t, p, u, g, b, o
<1>8. CASE p = t \/ a.solar = "none"
  <2>1. Exported(e, a, v) = o  BY <1>8, <1>1, <1>2, <1>5, SMT
  <2> QED  BY <2>1, <1>2, <1>3, <1>4, <1>5, SMT
<1>9. CASE p > t /\ a.solar # "none"
  <2>1. b = 0  BY <1>9, <1>4, <1>6
  <2>2. u = g
    <3>1. p > 0  BY <1>9, <1>1, SMT
    <3>2. CASE BatteryFirst(a)  BY <3>1, <3>2, <1>7
    <3>3. CASE ~BatteryFirst(a)
      <4>1. u = 0  BY <3>1, <3>3, <1>1
      <4> QED  BY <4>1, <1>2, SMT
    <3> QED  BY <3>2, <3>3
  <2> QED  BY <2>1, <2>2, <1>2, <1>5, SMT
<1> QED  BY <1>8, <1>9, <1>1, SMT

-----------------------------------------------------------------------------
(* What every step of a walk leaves: the battery's level is that of the       *)
(* interval just walked.                                                      *)
WalkInv ==
    /\ site.solar \in {"any", "none"} /\ site.charges \in BOOLEAN
    /\ events \subseteq Event /\ energy \in 0..Capacity
    /\ \/ last = NoStep
       \/ /\ last.level \in 0..Capacity /\ last.act \in Actions /\ last.interval \in Intervals
          /\ energy = After(last.level, last.act, last.interval)

LEMMA WalkInit == Init => WalkInv
<1> SUFFICES ASSUME Init PROVE WalkInv  OBVIOUS
<1>1. PICK E \in EventSets : events = Kept(E)  BY DEF Init
<1>2. E \subseteq Event  BY WalkAssumption
<1>3. events \subseteq Event  BY <1>1, <1>2 DEF Kept, Event
<1>4. site.solar \in {"any", "none"} /\ site.charges \in BOOLEAN /\ energy \in 0..Capacity /\ last = NoStep  BY DEF Init
<1> QED  BY <1>3, <1>4 DEF WalkInv

(* What a block asks for, and what is imposed, is an action.                  *)
LEMMA WishesAreActions ==
    ASSUME WalkInv, NEW v \in Intervals
    PROVE  Wishes(v) \subseteq Actions
<1>1. v.reserve \in 0..Capacity /\ site.solar \in SolarModes
  BY DEF Intervals, WalkInv, SolarModes
<1>2. \A u \in v.reserve..Capacity : u \in 0..Capacity  BY <1>1, SMT
<1>3. 0 \in 0..Capacity  BY PhysicsAssumption, SMT
<1>4. \A m \in BatteryModes, t \in 0..Capacity, o \in 0..Capacity : Act(m, t, o) \in Actions
  BY <1>1 DEF Act, Actions
<1>5. [Act("load", 0, 0) EXCEPT !.solar = "export"] \in Actions
  BY <1>3, <1>4 DEF Actions, BatteryModes, SolarModes
<1> QED  BY <1>2, <1>3, <1>4, <1>5 DEF Wishes, BatteryModes

LEMMA OverridesAreActions ==
    ASSUME WalkInv, NEW v \in Intervals, NEW wish \in Actions, NEW free \in BOOLEAN
    PROVE  Overrides(v, wish, free) \subseteq Actions
<1>1. v.reserve \in 0..Capacity /\ site.solar \in SolarModes
  BY DEF Intervals, WalkInv, SolarModes
<1>2. 0 \in 0..Capacity /\ Capacity \in 0..Capacity  BY PhysicsAssumption, SMT
<1>3. \A m \in BatteryModes, t \in 0..Capacity, o \in 0..Capacity : Act(m, t, o) \in Actions
  BY <1>1 DEF Act, Actions
<1>4. ASSUME NEW x \in Governing
      PROVE  During(x, v) \in Actions /\ Before(x, v) \in Actions
  <2>1. x \in Event  BY DEF Governing, WalkInv
  <2>2. x.soc \in 0..Capacity  BY <2>1 DEF Event
  <2>3. During(x, v) \in Actions  BY <1>1, <1>2, <1>3, <2>2 DEF During, BatteryModes
  <2>4. Before(x, v) \in Actions  BY <1>2, <1>3 DEF Before, BatteryModes
  <2> QED  BY <2>3, <2>4
<1> QED  BY <1>2, <1>3, <1>4 DEF Overrides, BatteryModes

(* What the next interval does, and, with the grid there, who decides it      *)
(* where an event runs or is prepared for.                                    *)
LEMMA WalkEffect ==
    ASSUME WalkInv, Walk
    PROVE  \E a \in Actions, v \in Intervals :
              /\ v.charges = site.charges /\ v.load % Loss = 0 /\ v.solar % Loss = 0
              /\ energy' = After(energy, a, v)
              /\ last' = [level |-> energy, act |-> a, interval |-> v]
              /\ (~site.outage /\ Governing # {}) =>
                    \E x \in Governing : a = IF Running(x) THEN During(x, v) ELSE Before(x, v)
<1>1. PICK load \in Loads, sun \in Suns, r \in Reserves, free \in BOOLEAN :
        LET v == [load |-> load, solar |-> sun, reserve |-> r, charges |-> site.charges]
        IN  \E wish \in Wishes(v) :
            \E a \in IF Overrides(v, wish, free) = {} THEN {wish} ELSE Overrides(v, wish, free) :
                /\ energy' = After(energy, a, v)
                /\ last' = [level |-> energy, act |-> a, interval |-> v]
  BY DEF Walk
<1> DEFINE v == [load |-> load, solar |-> sun, reserve |-> r, charges |-> site.charges]
<1>2. PICK wish \in Wishes(v) :
        \E a \in IF Overrides(v, wish, free) = {} THEN {wish} ELSE Overrides(v, wish, free) :
            /\ energy' = After(energy, a, v)
            /\ last' = [level |-> energy, act |-> a, interval |-> v]
  BY <1>1
<1>3. PICK a \in IF Overrides(v, wish, free) = {} THEN {wish} ELSE Overrides(v, wish, free) :
        /\ energy' = After(energy, a, v)
        /\ last' = [level |-> energy, act |-> a, interval |-> v]
  BY <1>2
<1>4. v \in Intervals  BY WalkAssumption DEF Intervals, WalkInv
<1>5. v.charges = site.charges /\ v.load % Loss = 0 /\ v.solar % Loss = 0  BY WalkAssumption
<1> HIDE DEF v
<1>6. wish \in Actions  BY <1>2, <1>4, WishesAreActions
<1>7. a \in Actions  BY <1>3, <1>4, <1>6, OverridesAreActions
<1>8. ASSUME ~site.outage, Governing # {}
      PROVE  \E x \in Governing : a = IF Running(x) THEN During(x, v) ELSE Before(x, v)
  <2>1. Overrides(v, wish, free) = {IF Running(x) THEN During(x, v) ELSE Before(x, v) : x \in Governing}
    BY <1>8 DEF Overrides
  <2>2. Overrides(v, wish, free) # {}  BY <1>8, <2>1
  <2> QED  BY <1>3, <2>1, <2>2
<1> QED  BY <1>3, <1>4, <1>5, <1>7, <1>8

LEMMA WalkNext == WalkInv /\ [Next]_vars => WalkInv'
<1> SUFFICES ASSUME WalkInv, [Next]_vars PROVE WalkInv'  OBVIOUS
<1>1. CASE Walk
  <2>1. PICK a \in Actions, v \in Intervals :
          /\ energy' = After(energy, a, v)
          /\ last' = [level |-> energy, act |-> a, interval |-> v]
    BY <1>1, WalkEffect
  <2>2. energy' \in 0..Capacity  BY <2>1, Kept_Within DEF WalkInv
  <2>3. last'.level = energy /\ last'.act = a /\ last'.interval = v  BY <2>1
  <2>4. energy' = After(last'.level, last'.act, last'.interval)  BY <2>1, <2>3
  <2>5. UNCHANGED <<site, events>>  BY <1>1 DEF Walk
  <2> QED  BY <2>1, <2>2, <2>3, <2>4, <2>5 DEF WalkInv
<1>2. CASE Done
  BY <1>2 DEF Done, vars, WalkInv
<1>3. CASE UNCHANGED vars
  BY <1>3 DEF vars, WalkInv
<1> QED  BY <1>1, <1>2, <1>3 DEF Next

LEMMA WalkInvariant == Spec => []WalkInv
<1> QED  BY WalkInit, WalkNext, PTL DEF Spec

(* Every walk keeps to the meter's one direction (stepPhysics: the home is    *)
(* covered before anything is exported).                                      *)
THEOREM WalksNeverBuyAndSell == Spec => []NeverBuysAndSells
<1>1. WalkInv => NeverBuysAndSells
  BY OneWay DEF WalkInv, NeverBuysAndSells
<1> QED  BY <1>1, WalkInvariant, PTL

(* No interval of any plan discharges the battery below its reserve or an     *)
(* event's level.                                                             *)
THEOREM WalksKeepReserve == Spec => []ReserveKept
<1>1. SUFFICES WalkInv => ReserveKept  BY WalkInvariant, PTL
<1>2. SUFFICES ASSUME WalkInv, last # NoStep PROVE ReserveKept  BY DEF ReserveKept
<1> DEFINE a == last.act
           v == last.interval
           own == IF a.override > 0 THEN a.override ELSE v.reserve
<1>3. last.level \in 0..Capacity /\ a \in Actions /\ v \in Intervals  BY <1>2 DEF WalkInv
<1>4. energy >= Least(last.level, Floor(a, v)) /\ Floor(a, v) \in 0..Capacity
  BY <1>2, <1>3, Kept_Within, Delivery DEF WalkInv
<1>5. own \in 0..Capacity /\ own <= Floor(a, v)
  <2>1. a.override \in 0..Capacity /\ a.target \in 0..Capacity /\ v.reserve \in 0..Capacity
    BY <1>3 DEF Actions, Intervals
  <2> QED  BY <2>1, PhysicsAssumption, SMT DEF Floor
<1>6. energy \in 0..Capacity  BY <1>2 DEF WalkInv
<1>7. energy >= Least(last.level, own)
  <2> HIDE DEF own
  <2> QED  BY <1>3, <1>4, <1>5, <1>6, PhysicsAssumption, SMT DEF Least
<1> QED  BY <1>7 DEF ReserveKept

(* No interval charges or discharges more than the battery can.               *)
THEOREM WalksStayWithinPower == Spec => []WithinPower
<1>1. WalkInv => WithinPower
  BY Purchase, Supply DEF WalkInv, WithinPower
<1> QED  BY <1>1, WalkInvariant, PTL

-----------------------------------------------------------------------------
(* In whole losses nothing is lost to rounding: what an interval puts into    *)
(* the battery is a multiple of the loss.                                     *)
Whole(x) == \E k \in Int : x = k * Loss

LEMMA WholeIs == ASSUME NEW x \in Nat, x % Loss = 0 PROVE Whole(x)
<1>1. x \div Loss \in Int /\ x = (x \div Loss) * Loss
  BY PhysicsAssumption, SMT
<1> QED  BY <1>1 DEF Whole

LEMMA WholeDiv == ASSUME NEW x \in Nat, Whole(x) PROVE x \div Loss \in Nat /\ Loss * (x \div Loss) = x
<1>1. PICK k \in Int : x = k * Loss  BY DEF Whole
<1>2. k \in Nat  BY <1>1, PhysicsAssumption, SMT
<1>3. (k * Loss) \div Loss = k  BY <1>2, PhysicsAssumption, SMT
<1> QED  BY <1>1, <1>2, <1>3, PhysicsAssumption, SMT

LEMMA WholeMinus == ASSUME NEW x \in Int, NEW y \in Int, Whole(x), Whole(y) PROVE Whole(x - y)
<1>1. PICK k \in Int : x = k * Loss  BY DEF Whole
<1>2. PICK m \in Int : y = m * Loss  BY DEF Whole
<1>3. x - y = (k - m) * Loss /\ k - m \in Int  BY <1>1, <1>2, PhysicsAssumption, SMT
<1> QED  BY <1>3 DEF Whole

LEMMA WholeLeast == ASSUME NEW x, NEW y, Whole(x), Whole(y) PROVE Whole(Least(x, y))
BY DEF Least

LEMMA WholeTimes == ASSUME NEW k \in Int PROVE Whole(k * Loss)
BY DEF Whole

LEMMA WholeCharge ==
    ASSUME NEW e \in 0..Capacity, NEW a \in Actions, NEW v \in Intervals, Whole(v.load), Whole(v.solar)
    PROVE  Whole(Stored(e, a, v)) /\ Whole(Bought(e, a, v))
<1>1. Capacity \in Nat /\ Loss \in Nat \ {0} /\ MaxCharge \in Nat /\ v.load \in Nat /\ v.solar \in Nat /\ e \in Nat
  BY PhysicsAssumption, SMT DEF Intervals
<1>2. Whole(0) /\ Whole(MaxCharge) /\ Whole((Capacity - e) * Loss)
  <2>1. Whole(0)
    <3>1. 0 = 0 * Loss  BY <1>1, SMT
    <3> QED  BY <3>1 DEF Whole
  <2>2. Whole(MaxCharge)  BY WholeIs, PhysicsAssumption
  <2>3. Capacity - e \in Int  BY <1>1
  <2> QED  BY <2>1, <2>2, <2>3, WholeTimes
<1>3. Whole(Stored(e, a, v))
  <2>1. CASE BatteryFirst(a) \/ ~v.charges \/ (a.solar = "export" /\ a.battery # "charge")
    BY <1>2, <2>1 DEF Stored
  <2>2. CASE ~(BatteryFirst(a) \/ ~v.charges \/ (a.solar = "export" /\ a.battery # "charge"))
    <3>1. Surplus(e, a, v) = v.solar - Least(v.solar, v.load)
      BY <2>2 DEF Surplus, ToHome
    <3>2. Whole(Least(v.solar, v.load)) /\ Least(v.solar, v.load) \in Int
      BY <1>1, WholeLeast DEF Least
    <3>3. Whole(Surplus(e, a, v))  BY <1>1, <3>1, <3>2, WholeMinus
    <3>4. Stored(e, a, v) = Least(Surplus(e, a, v), Least(MaxCharge, (Capacity - e) * Loss))
      BY <2>2 DEF Stored
    <3> QED  BY <1>2, <3>3, <3>4, WholeLeast
  <2> QED  BY <2>1, <2>2
<1>4. Whole(Bought(e, a, v))
  <2>1. CASE a.battery # "charge" \/ ~v.charges
    BY <1>2, <2>1 DEF Bought
  <2>2. CASE ~(a.battery # "charge" \/ ~v.charges)
    <3> DEFINE gap == Above(IF a.target = 0 THEN Capacity ELSE a.target, Sunned(e, a, v))
    <3>1. Bought(e, a, v) = Least(MaxCharge - Stored(e, a, v), gap * Loss)
      BY <2>2 DEF Bought
    <3>2. gap \in Int
      <4>1. (IF a.target = 0 THEN Capacity ELSE a.target) \in Int /\ Sunned(e, a, v) \in Int
        BY <1>1, Sunshine DEF Actions
      <4> QED  BY <4>1 DEF Above
    <3> HIDE DEF gap
    <3>3. Stored(e, a, v) \in Int  BY Sunshine
    <3>4. Whole(MaxCharge - Stored(e, a, v))  BY <1>1, <1>2, <1>3, <3>3, WholeMinus
    <3>5. Whole(gap * Loss)  BY <3>2, WholeTimes
    <3> QED  BY <3>1, <3>4, <3>5, WholeLeast
  <2> QED  BY <2>1, <2>2
<1> QED  BY <1>3, <1>4

(* The energy of an interval adds up.                                         *)
LEMMA AddsUp ==
    ASSUME NEW e \in 0..Capacity, NEW a \in Actions, NEW v \in Intervals, Whole(v.load), Whole(v.solar)
    PROVE  v.solar + Imported(e, a, v) - v.load - Exported(e, a, v) - Curtailed(e, a, v)
             = IF After(e, a, v) >= e THEN Loss * (After(e, a, v) - e) ELSE After(e, a, v) - e
<1> DEFINE t == Stored(e, a, v)
           p == Surplus(e, a, v)
           u == Unmet(e, a, v)
           g == Given(e, a, v)
           b == Bought(e, a, v)
           o == Sold(e, a, v)
           h == ToHome(e, a, v)
           x == SunExported(e, a, v)
           c == Curtailed(e, a, v)
           r == t \div Loss
           q == b \div Loss
           f == After(e, a, v)
<1>1. /\ h \in Nat /\ p \in Nat /\ u \in Nat /\ t \in Nat /\ t <= p
      /\ p > 0 => u = IF BatteryFirst(a) THEN Least(v.load, Deliverable(e, a, v)) ELSE 0
  BY Sunshine
<1>2. g \in Nat /\ g <= u /\ o \in Nat /\ b \in Nat  BY Supply, Purchase
<1>3. Whole(t) /\ Whole(b)  BY WholeCharge
<1>4. r \in Nat /\ Loss * r = t /\ q \in Nat /\ Loss * q = b
  BY <1>1, <1>2, <1>3, WholeDiv
<1>5. p = v.solar - h /\ u = v.load - h /\ v.solar \in Nat /\ v.load \in Nat
  BY DEF Surplus, Unmet, Intervals
<1>6. (x = 0 /\ c = p - t) \/ (x = p - t /\ c = 0)
  BY DEF SunExported, Curtailed
<1>7. Imported(e, a, v) = u - g + b /\ Exported(e, a, v) = x + o
  BY DEF Imported, Exported
<1>8. f = e + r + q - g - o  BY DEF After, Sunned
<1>9. b > 0 => g = 0 /\ o = 0
  <2>1. b > 0 => a.battery = "charge"  BY Purchase
  <2> QED  BY <2>1, <1>2 DEF Given, Sold
<1>10. t > 0 => g = 0 /\ o = 0
  <2>1. SUFFICES ASSUME t > 0 PROVE g = 0 /\ o = 0  OBVIOUS
  <2>2. ~BatteryFirst(a)  BY <2>1 DEF Stored
  <2>3. p > 0  BY <2>1, <1>1
  <2>4. u = 0  BY <1>1, <2>2, <2>3
  <2>5. g = 0  BY <1>2, <2>4
  <2>6. o = 0  BY <2>2 DEF BatteryFirst, Sold
  <2> QED  BY <2>5, <2>6
<1>11. Loss \in Nat \ {0} /\ e \in Nat  BY PhysicsAssumption
<1> DEFINE net == v.solar + Imported(e, a, v) - v.load - Exported(e, a, v) - Curtailed(e, a, v)
<1>12. net = t + b - g - o
  <2> HIDE DEF t, p, u, g, b, o, h, x, c, r, q, f
  <2>1. net = v.solar + (u - g + b) - v.load - (x + o) - c  BY <1>7 DEF c
  <2> HIDE DEF net
  <2> QED  BY <2>1, <1>1, <1>2, <1>5, <1>6, SMT
<1> SUFFICES net = IF f >= e THEN Loss * (f - e) ELSE f - e
  OBVIOUS
<1> HIDE DEF t, p, u, g, b, o, h, x, c, r, q, f, net
<1>13. CASE g + o = 0
  <2>1. f - e = r + q /\ r + q \in Nat  BY <1>2, <1>4, <1>8, <1>11, <1>13, SMT
  <2>2. Loss * (r + q) = t + b  BY <1>4, <1>11, SMT
  <2>3. f >= e /\ net = t + b  BY <1>1, <1>2, <1>4, <1>8, <1>11, <1>12, <1>13, SMT
  <2> QED  BY <2>1, <2>2, <2>3
<1>14. CASE g + o # 0
  <2>1. t = 0 /\ b = 0  BY <1>1, <1>2, <1>9, <1>10, <1>14, SMT
  <2>2. r = 0 /\ q = 0  BY <1>4, <1>11, <2>1, SMT
  <2> QED  BY <1>2, <1>8, <1>11, <1>12, <1>14, <2>1, <2>2, SMT
<1> QED  BY <1>13, <1>14
-----------------------------------------------------------------------------
(* Buying at full power, the battery gains what the power lets it, or is full.*)
LEMMA Charging ==
    ASSUME NEW e \in 0..Capacity, NEW v \in Intervals, Whole(v.load), Whole(v.solar), v.charges,
           NEW a \in Actions, a.battery = "charge", a.target = Capacity
    PROVE  After(e, a, v) = Capacity \/ Loss * After(e, a, v) >= Loss * e + MaxCharge
<1> DEFINE t == Stored(e, a, v)
           b == Bought(e, a, v)
           r == t \div Loss
           q == b \div Loss
           f == After(e, a, v)
<1>1. /\ t \in Nat /\ b \in Nat /\ t <= MaxCharge
      /\ Loss \in Nat \ {0} /\ Capacity \in Nat /\ MaxCharge \in Nat /\ e \in Nat
  BY Sunshine, Purchase, PhysicsAssumption
<1>2. r \in Nat /\ Loss * r = t /\ q \in Nat /\ Loss * q = b
  <2>1. Whole(t) /\ Whole(b)  BY WholeCharge
  <2> QED  BY <1>1, <2>1, WholeDiv
<1>3. f = e + r + q
  <2>1. Given(e, a, v) = 0 /\ Sold(e, a, v) = 0  BY DEF Given, Sold
  <2>2. f = e + r + q - 0 - 0  BY <2>1 DEF After, Sunned
  <2> HIDE DEF f, r, q
  <2> QED  BY <1>1, <1>2, <2>2, SMT
<1>4. e + r <= Capacity  BY Sunshine DEF Sunned
<1>5. b = Least(MaxCharge - t, Above(Capacity, e + r) * Loss)
  <2>1. (IF a.target = 0 THEN Capacity ELSE a.target) = Capacity  OBVIOUS
  <2> QED  BY <2>1 DEF Bought, Sunned
<1>6. b = MaxCharge - t \/ b = (Capacity - (e + r)) * Loss
  <2> HIDE DEF b, t, r
  <2>1. Above(Capacity, e + r) = Capacity - (e + r)  BY <1>1, <1>2, <1>4, SMT DEF Above
  <2> QED  BY <1>5, <2>1 DEF Least
<1> SUFFICES f = Capacity \/ Loss * f >= Loss * e + MaxCharge  OBVIOUS
<1> HIDE DEF t, b, r, q, f
<1>7. CASE b = MaxCharge - t
  <2>1. Loss * f = Loss * e + Loss * r + Loss * q  BY <1>1, <1>2, <1>3, SMT
  <2>2. Loss * e \in Int  BY <1>1, SMT
  <2> QED  BY <1>1, <1>2, <1>7, <2>1, <2>2, SMT
<1>8. CASE b = (Capacity - (e + r)) * Loss
  <2>1. Loss * q = Loss * (Capacity - (e + r))  BY <1>1, <1>2, <1>8, SMT
  <2>2. q = Capacity - (e + r)  BY <1>1, <1>2, <2>1, SMT
  <2> QED  BY <1>1, <1>2, <1>3, <2>2, SMT
<1> QED  BY <1>6, <1>7, <1>8

(* What stands by loses nothing.                                              *)
LEMMA Standing ==
    ASSUME NEW e \in 0..Capacity, NEW v \in Intervals, NEW a \in Actions, a.battery = "standby"
    PROVE  After(e, a, v) \in e..Capacity
<1>1. Given(e, a, v) = 0 /\ Sold(e, a, v) = 0  BY DEF Given, Sold
<1>2. Bought(e, a, v) \div Loss = 0  BY Purchase
<1>3. Sunned(e, a, v) \in e..Capacity  BY Sunshine
<1>4. After(e, a, v) = Sunned(e, a, v) + 0 - 0 - 0  BY <1>1, <1>2 DEF After
<1>5. Sunned(e, a, v) \in Int  BY <1>3, SMT
<1> QED  BY <1>3, <1>4, <1>5, SMT

(* Where an event runs or is prepared for, there is a first one.              *)
LEMMA SomeGovern ==
    ASSUME events \subseteq Event, NEW x \in events, Running(x) \/ Preparing(x)
    PROVE  Governing # {}
<1> DEFINE Active == {y \in events : Running(y) \/ Preparing(y)}
           Starts == {y.start : y \in Active}
<1>1. Starts \subseteq Nat /\ Starts # {}
  <2>1. \A y \in events : y.start \in 0..Horizon  BY DEF Event
  <2> QED  BY <2>1, WalkAssumption
<1>2. PICK n \in Starts : \A m \in Starts : ~(m < n)
  <2> DEFINE R == {ss \in Nat \X Nat : ss[1] < ss[2]}
  <2>0. IsWellFoundedOn(R, Nat)  BY NatLessThanWellFounded DEF OpToRel
  <2>1. PICK n \in Starts : \A m \in Starts : <<m, n>> \notin R
    <3> HIDE DEF Starts, R
    <3> QED  BY <1>1, <2>0, WFMin
  <2>2. \A m \in Starts : ~(m < n)  BY <1>1, <2>1
  <2> QED  BY <2>2
<1>3. PICK y \in Active : y.start = n  OBVIOUS
<1>4. \A z \in Active : ~(z.start < y.start)  BY <1>2, <1>3
<1>5. y \in Governing  BY <1>3, <1>4 DEF Governing, Earlier
<1> QED  BY <1>5

-----------------------------------------------------------------------------
(* A mandatory event whose lead is the plan's own to fill the battery in.     *)
Prepared(x) ==
    /\ x.mandatory /\ Lead * MaxCharge >= Capacity * Loss /\ Lead <= x.start
    /\ site.grid /\ site.charges /\ ~site.outage
    /\ \A y \in events \ {x} : y.end + Lead <= x.start \/ x.start <= y.start

(* As its lead runs, the battery has filled by the power of the intervals so  *)
(* far, or is full.                                                           *)
Filling ==
    \A x \in events :
        (Prepared(x) /\ x.start - Lead <= step /\ step <= x.start)
            => energy = Capacity \/ Loss * energy >= (step - (x.start - Lead)) * MaxCharge

(* What makes the events' promises inductive: the physics of the walk, its    *)
(* energies in whole losses, and the filling.                                 *)
WholeInterval == last # NoStep => Whole(last.interval.load) /\ Whole(last.interval.solar)
EventsIInv ==
    WalkInv /\ WholeInterval /\ TypeOK /\ Filling /\ FullAtMandatory /\ EventLevelKept

LEMMA EventsInit == Init => EventsIInv
<1> SUFFICES ASSUME Init PROVE EventsIInv  OBVIOUS
<1>1. WalkInv  BY WalkInit
<1>2. PICK E \in EventSets : events = Kept(E)  BY DEF Init
<1>3. \A x \in events : x \in Event /\ x.end > 0
  <2>1. E \subseteq Event  BY WalkAssumption
  <2> QED  BY <1>2, <2>1 DEF Kept, Event
<1>4. \A x \in events : x.start \in Nat /\ x.end \in Nat /\ x.soc \in Nat
  BY <1>3, PhysicsAssumption, WalkAssumption DEF Event
<1>5. TypeOK
  <2>1. energy \in -1..Capacity /\ -1 \in -1..Capacity  BY PhysicsAssumption DEF Init
  <2>2. atStart \in [events -> -1..Capacity]  BY <2>1 DEF Init
  <2>3. step \in 0..Horizon  BY WalkAssumption DEF Init
  <2>4. site.outage \in BOOLEAN /\ site.car \in BOOLEAN
    BY WalkAssumption DEF Init
  <2>5. site \in [grid : BOOLEAN, export : BOOLEAN, charges : BOOLEAN,
                  solar : {"any", "none"}, outage : BOOLEAN, car : BOOLEAN]
    BY WalkAssumption DEF Init
  <2>6. energy \in 0..Capacity  BY DEF Init
  <2>7. events \in SUBSET Event  BY <1>3
  <2> QED  BY <1>3, <2>2, <2>3, <2>5, <2>6, <2>7 DEF TypeOK
<1>6. WholeInterval  BY DEF Init, WholeInterval
<1>7. step = 0 /\ energy \in Nat  BY PhysicsAssumption DEF Init
<1>8. Filling /\ FullAtMandatory
  <2>1. \A x \in events : Lead <= x.start => ~(x.start <= step)
    BY <1>4, <1>7, WalkAssumption, SMT
  <2>2. ASSUME NEW x \in events, Lead <= x.start, x.start - Lead <= step
        PROVE  Loss * energy >= (step - (x.start - Lead)) * MaxCharge
    <3>1. step - (x.start - Lead) = 0  BY <1>4, <1>7, <2>2, WalkAssumption, SMT
    <3>2. (step - (x.start - Lead)) * MaxCharge = 0  BY <3>1, PhysicsAssumption, SMT
    <3>3. Loss * energy >= 0  BY <1>7, PhysicsAssumption, SMT
    <3> QED  BY <3>2, <3>3
  <2> QED  BY <2>1, <2>2 DEF Filling, Prepared, FullAtMandatory
<1>9. EventLevelKept
  <2>1. SUFFICES ASSUME NEW x \in events, x.start <= step
                 PROVE  energy >= Least(atStart[x], x.soc)
    BY DEF EventLevelKept
  <2>2. x.start = 0  BY <1>4, <1>7, <2>1, SMT
  <2>3. atStart[x] = energy  BY <2>2 DEF Init
  <2> QED  BY <1>4, <1>7, <2>3, SMT DEF Least
<1> QED  BY <1>1, <1>5, <1>6, <1>8, <1>9 DEF EventsIInv

(* Before a prepared event, its lead begun, the plan buys, or is full.        *)
LEMMA PreparedStep ==
    ASSUME WalkInv, TypeOK, Walk, WholeInterval,
           NEW x \in events, Prepared(x), x.start - Lead <= step, step < x.start
    PROVE  /\ energy' \in 0..Capacity
           /\ energy' = Capacity \/ (energy < Capacity /\ Loss * energy' >= Loss * energy + MaxCharge)
<1>1. PICK a \in Actions, v \in Intervals :
        /\ v.charges = site.charges /\ v.load % Loss = 0 /\ v.solar % Loss = 0
        /\ energy' = After(energy, a, v)
        /\ (~site.outage /\ Governing # {}) =>
              \E y \in Governing : a = IF Running(y) THEN During(y, v) ELSE Before(y, v)
  BY WalkEffect
<1>2. energy \in 0..Capacity /\ step \in Nat  BY WalkAssumption DEF TypeOK
<1>3. \A y \in events : y.start \in Nat /\ y.end \in Nat
  BY WalkAssumption DEF TypeOK, Event
<1>4. Preparing(x)  BY DEF Prepared, Preparing
<1>5. Governing # {}  BY <1>4, SomeGovern DEF TypeOK
<1>6. PICK y \in Governing : a = IF Running(y) THEN During(y, v) ELSE Before(y, v)
  BY <1>1, <1>5 DEF Prepared
<1>7. ~Running(y)
  <2>1. y \in events  BY DEF Governing
  <2>2. y = x \/ y.end + Lead <= x.start \/ x.start <= y.start  BY <2>1 DEF Prepared
  <2> QED  BY <1>2, <1>3, <2>1, <2>2, WalkAssumption, SMT DEF Running
<1>8. a = IF energy < Capacity THEN Act("charge", Capacity, 0) ELSE Act("standby", 0, 0)
  BY <1>6, <1>7 DEF Before, Prepared
<1>9. Whole(v.load) /\ Whole(v.solar)  BY <1>1, WholeIs DEF Intervals
<1>10. energy' \in 0..Capacity  BY <1>1, <1>2, Kept_Within
<1>11. CASE energy < Capacity
  <2>1. a.battery = "charge" /\ a.target = Capacity  BY <1>8, <1>11 DEF Act
  <2>2. v.charges  BY <1>1 DEF Prepared
  <2>3. energy' = Capacity \/ Loss * energy' >= Loss * energy + MaxCharge
    BY <1>1, <1>2, <1>9, <2>1, <2>2, Charging
  <2> QED  BY <1>10, <1>11, <2>3
<1>12. CASE ~(energy < Capacity)
  <2>1. a.battery = "standby"  BY <1>8, <1>12 DEF Act
  <2>2. energy' \in energy..Capacity  BY <1>1, <1>2, <2>1, Standing
  <2>3. energy' = Capacity  BY <1>2, <1>12, <2>2, PhysicsAssumption, SMT
  <2> QED  BY <1>10, <2>3
<1> QED  BY <1>11, <1>12

(* A walk keeps the filling of a lead.                                        *)
LEMMA FillingStep ==
    ASSUME WalkInv, TypeOK, WholeInterval, Filling, Walk
    PROVE  Filling'
<1>1. SUFFICES ASSUME NEW x \in events', Prepared(x)', x.start - Lead <= step', step' <= x.start
               PROVE  energy' = Capacity \/ Loss * energy' >= (step' - (x.start - Lead)) * MaxCharge
  BY DEF Filling
<1>2. UNCHANGED <<site, events>> /\ step' = step + 1  BY DEF Walk
<1>3. x \in events /\ Prepared(x)  BY <1>1, <1>2 DEF Prepared
<1>4. x.start \in Nat /\ step \in Nat /\ Lead \in Nat \ {0}
  BY <1>3, WalkAssumption DEF TypeOK, Event
<1>5. step < x.start  BY <1>1, <1>2, <1>4, SMT
<1>6. MaxCharge \in Nat /\ Loss \in Nat \ {0} /\ energy \in Nat  BY PhysicsAssumption DEF TypeOK
<1> DEFINE n == step - (x.start - Lead)
<1>7. CASE x.start - Lead <= step
  <2>1. energy' = Capacity \/ (energy < Capacity /\ Loss * energy' >= Loss * energy + MaxCharge)
    BY <1>3, <1>5, <1>7, PreparedStep
  <2>2. energy = Capacity \/ Loss * energy >= n * MaxCharge
    BY <1>3, <1>4, <1>5, <1>7 DEF Filling
  <2>3. energy' \in Nat  BY <1>3, <1>5, <1>7, PreparedStep, PhysicsAssumption
  <2>4. step' - (x.start - Lead) = n + 1 /\ n \in Int  BY <1>2, <1>4, SMT
  <2>5. (n + 1) * MaxCharge = n * MaxCharge + MaxCharge  BY <1>6, <2>4, SMT
  <2>6. Capacity \in Nat  BY PhysicsAssumption
  <2> DEFINE have == Loss * energy
             got == Loss * energy'
             due == n * MaxCharge
  <2>7. have \in Int /\ got \in Int /\ due \in Int  BY <1>6, <2>3, <2>4, SMT
  <2>8. energy' = Capacity \/ (energy < Capacity /\ got >= have + MaxCharge)  BY <2>1
  <2>9. energy = Capacity \/ have >= due  BY <2>2
  <2>10. energy' = Capacity \/ got >= due + MaxCharge
    <3> HIDE DEF have, got, due
    <3> QED  BY <1>6, <2>6, <2>7, <2>8, <2>9, SMT
  <2> QED  BY <2>4, <2>5, <2>10
<1>8. CASE ~(x.start - Lead <= step)
  <2>1. step' - (x.start - Lead) = 0  BY <1>1, <1>2, <1>4, <1>8, SMT
  <2>2. (step' - (x.start - Lead)) * MaxCharge = 0
    <3>1. \A z : z = 0 => z * MaxCharge = 0  BY <1>6, SMT
    <3> QED  BY <2>1, <3>1
  <2>3. energy' \in Nat
    <3>1. WalkInv'  BY WalkNext DEF Next
    <3> QED  BY <3>1, PhysicsAssumption DEF WalkInv
  <2>4. \A z \in Nat : Loss * z >= 0  BY <1>6, SMT
  <2>5. Loss * energy' >= 0  BY <2>3, <2>4
  <2> QED  BY <2>2, <2>5
<1> QED  BY <1>7, <1>8

(* The step that brings the walk to an event finds its battery full.          *)
LEMMA FullStep ==
    ASSUME WalkInv, TypeOK, TypeOK', FullAtMandatory, Walk, Filling'
    PROVE  FullAtMandatory'
<1>1. UNCHANGED <<site, events>> /\ step' = step + 1
      /\ atStart' = [x \in events |-> IF x.start = step' THEN energy' ELSE atStart[x]]
  BY DEF Walk
<1>2. SUFFICES ASSUME NEW x \in events, Prepared(x), x.start <= step'
               PROVE  atStart'[x] = Capacity
  BY <1>1 DEF FullAtMandatory, Prepared
<1>3. x.start \in Nat /\ step \in Nat /\ Lead \in Nat \ {0}
  BY <1>2, WalkAssumption DEF TypeOK, Event
<1>4. Capacity \in Nat /\ MaxCharge \in Nat /\ Loss \in Nat \ {0} /\ energy' \in 0..Capacity
  BY PhysicsAssumption DEF TypeOK
<1>5. CASE x.start = step'
  <2>1. atStart'[x] = energy'  BY <1>1, <1>5
  <2>2. Prepared(x)'  BY <1>1, <1>2 DEF Prepared
  <2>3. x.start - Lead <= step' /\ step' <= x.start /\ step' - (x.start - Lead) = Lead
    BY <1>1, <1>3, <1>5, SMT
  <2>4. energy' = Capacity \/ Loss * energy' >= Lead * MaxCharge
    BY <1>1, <1>2, <2>2, <2>3 DEF Filling
  <2>5. Lead * MaxCharge >= Capacity * Loss  BY <1>2 DEF Prepared
  <2>6. Loss * energy' >= Lead * MaxCharge => energy' >= Capacity
    <3>1. ASSUME NEW z \in Nat, Loss * z >= Capacity * Loss PROVE z >= Capacity
      BY <1>4, <3>1, SMT
    <3>2. Loss * energy' \in Int /\ Lead * MaxCharge \in Int /\ Capacity * Loss \in Int /\ energy' \in Nat
      <4>1. \A z \in Nat : Loss * z \in Int  BY <1>4, SMT
      <4>2. Lead * MaxCharge \in Int /\ Capacity * Loss \in Int  BY <1>3, <1>4, SMT
      <4> QED  BY <1>4, <4>1, <4>2
    <3> DEFINE got == Loss * energy'
               full == Capacity * Loss
               given == Lead * MaxCharge
    <3>3. got >= given => got >= full
      <4>1. got \in Int /\ given \in Int /\ full \in Int /\ given >= full  BY <2>5, <3>2
      <4> HIDE DEF got, full, given
      <4> QED  BY <4>1, SMT
    <3> QED  BY <3>1, <3>2, <3>3
  <2> QED  BY <1>4, <2>1, <2>4, <2>6
<1>6. CASE x.start # step'
  <2>1. x.start <= step  BY <1>1, <1>2, <1>3, <1>6, SMT
  <2>2. atStart[x] = Capacity  BY <1>2, <2>1 DEF FullAtMandatory, Prepared
  <2> QED  BY <1>1, <1>6, <2>2
<1> QED  BY <1>5, <1>6

(* An event that runs alone decides its intervals, and keeps its level.       *)
LEMMA LevelStep ==
    ASSUME WalkInv, TypeOK, TypeOK', EventLevelKept, Walk
    PROVE  EventLevelKept'
<1>1. UNCHANGED <<site, events>> /\ step' = step + 1
      /\ atStart' = [x \in events |-> IF x.start = step' THEN energy' ELSE atStart[x]]
  BY DEF Walk
<1>2. SUFFICES ASSUME NEW x \in events,
                      x.mandatory, x.soc > 0, x.start <= step', step' <= x.end, ~site.outage,
                      \A y \in events \ {x} : y.end <= x.start \/ x.start < y.start
               PROVE  energy' >= Least(atStart'[x], x.soc)
  BY <1>1 DEF EventLevelKept
<1>3. \A y \in events : y.start \in Nat /\ y.end \in Nat /\ y.soc \in 0..Capacity
  BY DEF TypeOK, Event
<1>4. step \in Nat /\ Lead \in Nat \ {0} /\ energy \in 0..Capacity /\ energy' \in 0..Capacity
      /\ Capacity \in Nat
  BY WalkAssumption, PhysicsAssumption DEF TypeOK
<1>5. CASE x.start = step'
  <2>1. atStart'[x] = energy'  BY <1>1, <1>5
  <2> QED  BY <1>3, <1>4, <2>1, SMT DEF Least
<1>6. CASE x.start # step'
  <2>1. x.start <= step /\ step <= x.end /\ step < x.end
    BY <1>1, <1>2, <1>3, <1>4, <1>6, SMT
  <2>2. Running(x)  BY <2>1 DEF Running
  <2>3. \A y \in Governing : y = x
    <3>1. SUFFICES ASSUME NEW y \in Governing, y # x PROVE FALSE  OBVIOUS
    <3>2. y \in events /\ (Running(y) \/ Preparing(y)) /\ ~(x.start < y.start)
      BY <2>2, <3>1 DEF Governing, Earlier
    <3>3. y.end <= x.start  BY <1>2, <1>3, <3>1, <3>2, SMT
    <3> QED  BY <1>3, <1>4, <2>1, <3>2, <3>3, SMT DEF Running, Preparing
  <2>4. Governing # {}  BY <2>2, SomeGovern DEF TypeOK
  <2>5. PICK a \in Actions, v \in Intervals :
          /\ energy' = After(energy, a, v)
          /\ (~site.outage /\ Governing # {}) =>
                \E y \in Governing : a = IF Running(y) THEN During(y, v) ELSE Before(y, v)
    BY WalkEffect
  <2>6. a = During(x, v)  BY <1>2, <2>2, <2>3, <2>4, <2>5
  <2>7. a.override = x.soc  BY <1>2, <2>6 DEF During, Act
  <2>8. Floor(a, v) = x.soc  BY <1>2, <2>7 DEF Floor
  <2>9. energy' >= Least(energy, x.soc)  BY <1>4, <2>5, <2>8, Kept_Within
  <2>10. energy >= Least(atStart[x], x.soc)  BY <1>2, <2>1 DEF EventLevelKept
  <2>11. atStart'[x] = atStart[x] /\ atStart[x] \in -1..Capacity  BY <1>1, <1>6 DEF TypeOK
  <2> HIDE DEF Running
  <2> QED  BY <1>3, <1>4, <2>9, <2>10, <2>11, SMT DEF Least
<1> QED  BY <1>5, <1>6

LEMMA EventsNext == EventsIInv /\ [Next]_vars => EventsIInv'
<1> SUFFICES ASSUME EventsIInv, [Next]_vars PROVE EventsIInv'  OBVIOUS
<1> USE DEF EventsIInv
<1>1. WalkInv'  BY WalkNext
<1>2. CASE Walk
  <2>1. UNCHANGED <<site, events>> /\ step' = step + 1 /\ step < Horizon
        /\ atStart' = [x \in events |-> IF x.start = step' THEN energy' ELSE atStart[x]]
    BY <1>2 DEF Walk
  <2>2. TypeOK'
    <3>1. step' \in 0..Horizon  BY <2>1, WalkAssumption, SMT DEF TypeOK
    <3>2. energy' \in 0..Capacity /\ energy' \in -1..Capacity
      <4>1. energy' \in 0..Capacity  BY <1>1 DEF WalkInv
      <4> QED  BY <4>1, PhysicsAssumption, SMT
    <3>3. atStart' \in [events -> -1..Capacity]  BY <2>1, <3>2 DEF TypeOK
    <3> QED  BY <2>1, <3>1, <3>2, <3>3 DEF TypeOK
  <2>3. WholeInterval'
    <3>1. PICK a \in Actions, v \in Intervals :
            /\ v.load % Loss = 0 /\ v.solar % Loss = 0
            /\ last' = [level |-> energy, act |-> a, interval |-> v]
      BY <1>2, WalkEffect
    <3>2. Whole(v.load) /\ Whole(v.solar)  BY <3>1, WholeIs DEF Intervals
    <3>3. last'.interval = v  BY <3>1
    <3> QED  BY <3>2, <3>3 DEF WholeInterval
  <2>4. Filling'  BY <1>2, FillingStep
  <2>5. FullAtMandatory'  BY <1>2, <2>2, <2>4, FullStep
  <2>6. EventLevelKept'  BY <1>2, <2>2, LevelStep
  <2> QED  BY <1>1, <2>2, <2>3, <2>4, <2>5, <2>6
<1>3. CASE UNCHANGED vars
  <2>1. UNCHANGED <<site, events, step, energy, last, atStart>>  BY <1>3 DEF vars
  <2>2. TypeOK' /\ WholeInterval'  BY <2>1 DEF TypeOK, WholeInterval
  <2>3. Filling'  BY <2>1 DEF Filling, Prepared
  <2>4. FullAtMandatory' /\ EventLevelKept'  BY <2>1 DEF FullAtMandatory, EventLevelKept
  <2> QED  BY <1>1, <2>2, <2>3, <2>4
<1> QED  BY <1>2, <1>3 DEF Next, Done

(* A mandatory event finds the battery full where its lead can fill it, and   *)
(* leaves it at its level at least (getHardOverride); and the energy of every *)
(* interval adds up (stepPhysics).                                            *)
THEOREM EventsHold == Spec => []EventsInv
<1>1. EventsIInv => EventsInv
  <2> SUFFICES ASSUME EventsIInv PROVE Balanced  BY DEF EventsIInv, EventsInv
  <2>1. SUFFICES ASSUME last # NoStep
                 PROVE  LET e == last.level   a == last.act   v == last.interval
                            net == v.solar + Imported(e, a, v) - v.load - Exported(e, a, v) - Curtailed(e, a, v)
                        IN  net = IF energy >= e THEN Loss * (energy - e) ELSE energy - e
    BY DEF Balanced
  <2>2. /\ last.level \in 0..Capacity /\ last.act \in Actions /\ last.interval \in Intervals
        /\ energy = After(last.level, last.act, last.interval)
    BY <2>1 DEF EventsIInv, WalkInv
  <2>3. Whole(last.interval.load) /\ Whole(last.interval.solar)
    BY <2>1 DEF EventsIInv, WholeInterval
  <2> QED  BY <2>2, <2>3, AddsUp
<1> QED  BY <1>1, EventsInit, EventsNext, PTL DEF Spec

=============================================================================
