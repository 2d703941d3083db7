----------------------------- MODULE PriceAlerts -----------------------------
(* When a user is told of a price spike or dip (server/notifications.go): an  *)
(* update looks at the current price and the next, finds how far the event    *)
(* goes, and what the user was last told decides whether it is news. Hours    *)
(* are counted since that alert; prices are in tenths of a cent. What         *)
(* qualifies (PriceBaseline) is fixed here: the baseline of five days moves   *)
(* little in the day and a half that a cooldown lasts.                        *)
EXTENDS Integers, Sequences

CONSTANTS
    Levels,             \* prices there may be
    Ahead,              \* bound: hours with a forecast after the current one
    Reference, MinDelta,    \* the typical price; priceSpikeMinDelta of the user
    EscalatedHigh, EscalatedLow,    \* prices of the escalated percentiles
    Gaps,               \* may the price history miss hours
    Faults,             \* "refused": the push fails; "logs": the log cannot be read
    MaxFaults

(* What the constants are, assumed by what instantiates this module.          *)
Assumptions ==
    /\ Levels \cup {Reference, MinDelta, EscalatedHigh, EscalatedLow} \subseteq Int /\ MinDelta > 1
    /\ Faults \subseteq {"refused", "logs"} /\ {Ahead, MaxFaults} \subseteq Nat

VARIABLES
    prices,     \* the current price and those forecast
    last,       \* per kind: the latest alert delivered, or none
    quiet,      \* the user's quiet period
    updated,    \* per kind: what the last update of this hour did
    sends,      \* per kind: alerts delivered in this hour, counted to two
    faults

vars == <<prices, last, quiet, updated, sends, faults>>

Kinds == {"spike", "dip"}
Cap == 37                   \* no cooldown lasts longer: hours are counted to it
Never == [age |-> Cap, extreme |-> 0, told |-> FALSE, between |-> "none"]
Hours == 1..(Ahead + 1)
Forecasts == [Hours -> Levels]

TypeOK ==
    /\ prices \in Forecasts /\ quiet \in BOOLEAN /\ faults \in 0..MaxFaults
    /\ updated \in [Kinds -> {"no", "sent", "held", "none"}] /\ sends \in [Kinds -> 0..2]
    /\ \A k \in Kinds :
        /\ last[k].age \in 0..Cap /\ last[k].told \in BOOLEAN
        /\ last[k].extreme \in Levels \union {0}
        /\ last[k].between \in {"none", "anomalous", "recovered"}
        /\ last[k].told => IF k = "spike" THEN last[k].extreme > Reference ELSE last[k].extreme < Reference

Init ==
    /\ prices \in Forecasts /\ quiet \in BOOLEAN
    /\ last = [k \in Kinds |-> Never]
    /\ updated = [k \in Kinds |-> "no"] /\ sends = [k \in Kinds |-> 0] /\ faults = 0

-----------------------------------------------------------------------------
(* qualifiesAsPriceAnomaly.                                                   *)
Required(c, k) == IF k = "dip" /\ c < 0 THEN MinDelta \div 2 ELSE MinDelta
Qualifies(c, k) ==
    IF k = "spike" THEN c >= 180 /\ c - Reference >= Required(c, k)
    ELSE c <= 40 /\ Reference - c >= Required(c, k)

(* The event starts now or in the next hour, and lasts while prices qualify.  *)
Start(k) == IF Qualifies(prices[1], k) THEN 1 ELSE 2
Event(k) == {h \in Hours : h >= Start(k) /\ \A i \in Start(k)..h : Qualifies(prices[i], k)}
Extreme(k) ==
    CHOOSE c \in {prices[h] : h \in Event(k)} :
        \A h \in Event(k) : IF k = "spike" THEN c >= prices[h] ELSE c <= prices[h]

(* A dip that is over within the hour, for a price higher by more than a      *)
(* cent, is not worth telling.                                                *)
OverWithinTheHour(k) ==
    /\ k = "dip" /\ Event(k) = {1} /\ 2 \in Hours
    /\ prices[2] > 0 /\ prices[2] - prices[1] > 11

-----------------------------------------------------------------------------
(* The cooldown. priceRecoveredBetween: an hour between the alert and the     *)
(* event was no anomaly, or there is no price of any. The current hour, ahead *)
(* of an event to come, may be stored already.                                *)
SlipRecovered(k, stored) == last[k].between # "recovered"
Recovered(k, stored) == last[k].between # "anomalous" \/ (Start(k) = 2 /\ stored)

Escalates(k) ==
    IF k = "spike"
    THEN 10 * Extreme(k) >= 12 * last[k].extreme /\ Extreme(k) >= EscalatedHigh
    ELSE /\ last[k].extreme - Extreme(k) >= Required(Extreme(k), k)
         /\ Extreme(k) <= EscalatedLow \/ (Extreme(k) < 0 /\ last[k].extreme >= 0)

SlipHeld(k, stored) == last[k].told /\ ~Escalates(k)
Held(k, stored) ==
    LET age == last[k].age IN
    /\ last[k].told
    /\ \/ age < 1
       \/ /\ ~Escalates(k)
          /\ \/ age < 6
             \/ k = "spike" /\ age < 24 /\ ~Recovered(k, stored)
             \/ k = "dip" /\ age < 18 /\ (Extreme(k) >= 0 \/ ~Recovered(k, stored))
             \/ k = "dip" /\ age >= 18 /\ age < 36

-----------------------------------------------------------------------------
Fault(f) == f \in Faults /\ faults < MaxFaults /\ faults' = faults + 1

(* handlePriceSpikeNotifications, for a kind. Only a delivered alert counts;  *)
(* in a quiet period nothing is sent and nothing logged.                      *)
Deliver(k) ==
    /\ last' = [last EXCEPT ![k] = [age |-> 0, extreme |-> Extreme(k), told |-> TRUE, between |-> "none"]]
    /\ sends' = [sends EXCEPT ![k] = IF @ < 2 THEN @ + 1 ELSE 2]
    /\ updated' = [updated EXCEPT ![k] = "sent"]
Hold(k, as) == updated' = [updated EXCEPT ![k] = as] /\ UNCHANGED <<last, sends, faults>>

Update(k) ==
    /\ ~quiet
    /\ IF Event(k) = {} \/ OverWithinTheHour(k) THEN Hold(k, "none")
       ELSE \/ Fault("logs") /\ Deliver(k)
            \/ \E stored \in BOOLEAN :
                IF Held(k, stored) THEN Hold(k, "held")
                ELSE \/ Deliver(k) /\ UNCHANGED faults
                     \/ Fault("refused") /\ UNCHANGED <<last, sends, updated>>
    /\ UNCHANGED <<prices, quiet>>

(* Every update reads the prices anew; the forecast may have been revised.    *)
Revise ==
    /\ prices' \in Forecasts
    /\ updated' = [k \in Kinds |-> "no"]
    /\ UNCHANGED <<last, quiet, sends, faults>>

(* An hour ends: its price goes into the history, the forecast is another.    *)
Between(l, k) ==
    IF ~l.told \/ l.age = 0 \/ l.between = "recovered" THEN {l.between}
    ELSE {IF Qualifies(prices[1], k) THEN "anomalous" ELSE "recovered"}
            \union (IF Gaps THEN {l.between} ELSE {})
Hour ==
    /\ prices' \in Forecasts /\ quiet' \in BOOLEAN
    /\ \E b \in [Kinds -> {"none", "anomalous", "recovered"}] :
        /\ \A k \in Kinds : b[k] \in Between(last[k], k)
        /\ last' = [k \in Kinds |->
            IF ~last[k].told \/ last[k].age + 1 = Cap THEN Never
            ELSE [last[k] EXCEPT !.age = @ + 1, !.between = b[k]]]
    /\ updated' = [k \in Kinds |-> "no"] /\ sends' = [k \in Kinds |-> 0]
    /\ UNCHANGED faults

Next == Hour \/ Revise \/ \E k \in Kinds : Update(k)
Spec == Init /\ [][Next]_vars

-----------------------------------------------------------------------------
Alerted(k) == updated[k] # "sent" /\ updated'[k] = "sent"

(* "Enforces a tiered anti-flapping cooldown: 1-hour lockout".                *)
OneHourLockout == \A k \in Kinds : sends[k] <= 1

(* A spike that has gone on since its last alert is announced again within a  *)
(* day only when it is a fifth higher, and among the highest prices.          *)
SpikeIsNews ==
    Alerted("spike") /\ last["spike"].told /\ last["spike"].age < 24
        /\ last["spike"].between = "anomalous" /\ Qualifies(prices[1], "spike") =>
            /\ 10 * last'["spike"].extreme >= 12 * last["spike"].extreme
            /\ last'["spike"].extreme >= EscalatedHigh
SameSpikeIsToldOnce == [][SpikeIsNews]_vars

(* "Suppress consecutive-day re-alerts at the same level": of dips, one every *)
(* day and a half, unless lower by what the user asks for. Only a negative    *)
(* price comes back sooner, on the day, after prices have recovered.          *)
DipIsNews ==
    Alerted("dip") /\ last["dip"].told /\ last["dip"].age < 36 =>
        \/ last["dip"].extreme - last'["dip"].extreme >= Required(last'["dip"].extreme, "dip")
        \/ last'["dip"].extreme < 0 /\ last["dip"].age \in 6..17
             /\ (last["dip"].between # "anomalous" \/ ~Qualifies(prices[1], "dip"))
SameDipIsToldOnce == [][DipIsNews]_vars

(* No branch of the cooldown leaves a user in the dark: when an update has    *)
(* looked at a spike, he was told within a day of one nearly as high, or it   *)
(* is not among the highest prices.                                           *)
EverySpikeIsKnown ==
    updated["spike"] \in {"sent", "held"} =>
        /\ last["spike"].told /\ last["spike"].age < 24
        /\ 10 * Extreme("spike") < 12 * last["spike"].extreme
            \/ Extreme("spike") < EscalatedHigh \/ last["spike"].age < 1

(* A spike held back after six hours is the one that was told: it has not let *)
(* up since.                                                                  *)
HeldSpikeIsTheSame ==
    updated["spike"] = "held" /\ last["spike"].age >= 6 => last["spike"].between = "anomalous"
=============================================================================
