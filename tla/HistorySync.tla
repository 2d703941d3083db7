----------------------------- MODULE HistorySync -----------------------------
(* A site's energy history (server/update.go, storage/firestore.go): the      *)
(* battery's cloud delivers it, updateEnergyHistory stores it by the day from *)
(* the last hour stored on, completed days are committed to monthly           *)
(* summaries, and the controller is given the summaries with the days after   *)
(* them. A day has three parts: until 06:00, until 23:00, and the last hour.  *)
EXTENDS Integers, FiniteSets

CONSTANTS
    Updates,        \* updates of the site that may run at once
    Days,           \* bound: days modelled
    MonthEnd,       \* the last day of the first month
    Lookback,       \* days a site without recent history goes back: fourteen
    New,            \* has the site no history yet
    Steady,         \* is the site updated in every part of the day
    Overrun,        \* may an update run while a part of the day ends
    Faults,         \* what may go wrong
    MaxFaults       \* bound: how often

(* What the constants are, assumed by what instantiates this module.          *)
Assumptions ==
    /\ Faults \subseteq {"late", "history", "bulk", "summary"}
    /\ {Days, MonthEnd, Lookback, MaxFaults} \subseteq Nat

VARIABLES
    now,            \* the current part: 3d + p
    delivered,      \* the last part the cloud has
    stored,         \* per day: the parts in energy_history, 0 if none
    summary,        \* per day: the parts in its month's history_summary, 0 if none
    up,             \* per update: where it is
    ran,            \* an update was done in this part
    faults

vars == <<now, delivered, stored, summary, up, ran, faults>>

Dates == 0..(Days - 1)
Today == now \div 3
DayParts == [Dates -> 0..3]
Month(d) == IF d <= MonthEnd THEN 1 ELSE 2
Idle == [at |-> "idle"]
None == [d \in Dates |-> 0]
Latest(parts) == IF \E d \in Dates : parts[d] > 0
                 THEN CHOOSE d \in Dates : parts[d] > 0 /\ \A e \in Dates : parts[e] > 0 => e <= d
                 ELSE -1

TypeOK ==
    /\ now \in 0..(3 * Days - 1) /\ delivered \in -1..now
    /\ stored \in DayParts /\ summary \in DayParts /\ faults \in 0..MaxFaults /\ ran \in BOOLEAN
    /\ \A d \in Dates : stored[d] > 0 => 3 * d + stored[d] - 1 <= delivered
    /\ \A d \in Dates : summary[d] > 0 => d < Today
    /\ \A u \in Updates : up[u] = Idle \/
        /\ up[u].at \in {"fetched", "synced", "commit", "combine", "given"}
        /\ \A p \in {up[u].data, up[u].sums} : p \in DayParts
        /\ up[u].left \subseteq {1, 2} /\ up[u].over \in BOOLEAN

(* A new site's battery has run for some days.                                *)
Init ==
    /\ now \in 3..5 /\ delivered = now /\ ran = FALSE
    /\ stored = IF New THEN None ELSE [d \in Dates |-> IF d = 0 THEN 3 ELSE 0]
    /\ summary = stored
    /\ up = [u \in Updates |-> Idle] /\ faults = 0

Fault(f) == f \in Faults /\ faults < MaxFaults /\ faults' = faults + 1
Larger(a, b) == IF a >= b THEN a ELSE b

-----------------------------------------------------------------------------
(* An update takes seconds: at most one part ends while it runs.              *)
Tick ==
    /\ now + 1 < 3 * Days /\ now' = now + 1
    /\ Steady => ran
    /\ \A u \in Updates : up[u] # Idle => Overrun /\ ~up[u].over
    /\ up' = [u \in Updates |-> IF up[u] = Idle THEN Idle ELSE [up[u] EXCEPT !.over = TRUE]]
    /\ ran' = FALSE
    /\ \/ delivered' = now + 1 /\ UNCHANGED faults
       \/ Fault("late") /\ UNCHANGED delivered
    /\ UNCHANGED <<stored, summary>>

-----------------------------------------------------------------------------
(* updateEnergyHistory: whole days, from that of the last hour stored.        *)
SlipSyncDay == IF Latest(stored) > Today - Lookback THEN Latest(stored) + 1 ELSE Today - Lookback
SyncDay == IF Latest(stored) > Today - Lookback THEN Latest(stored) ELSE Today - Lookback
Delivered(d) == IF delivered < 3 * d THEN 0 ELSE IF delivered >= 3 * d + 2 THEN 3 ELSE delivered - 3 * d + 1

Fetch(u) ==
    /\ up[u] = Idle
    /\ LET k == [at |-> "fetched", over |-> FALSE, left |-> {}, sums |-> None, data |->
                    [d \in Dates |-> IF d >= SyncDay /\ d <= Today THEN Delivered(d) ELSE 0]] IN
       \/ up' = [up EXCEPT ![u] = k] /\ UNCHANGED faults
       \/ Fault("history") /\ up' = [up EXCEPT ![u] = [k EXCEPT !.at = "synced", !.data = None]]
    /\ UNCHANGED <<now, delivered, stored, summary, ran>>

(* UpsertEnergyHistories replaces whole days. Of a bulk write some days may   *)
(* fail; the update goes on.                                                  *)
Write(days, data) == stored' = [d \in Dates |-> IF d \in days THEN data[d] ELSE stored[d]]
Store(u) ==
    /\ up[u].at = "fetched"
    /\ LET days == {d \in Dates : up[u].data[d] > 0} IN
       \/ Write(days, up[u].data) /\ UNCHANGED faults
       \/ \E some \in SUBSET days : some # days /\ Fault("bulk") /\ Write(some, up[u].data)
    /\ up' = [up EXCEPT ![u].at = "synced", ![u].data = None]
    /\ UNCHANGED <<now, delivered, summary, ran>>

(* syncHistorySummaryRange: the days after the last one summarised, in any    *)
(* month, or all of this month and the last; up to the first that is neither  *)
(* complete nor past by six hours.                                            *)
SlipEligible(d) == stored[d] > 0 \/ now >= 3 * (d + 1) + 1
Eligible(d) == stored[d] = 3 \/ now >= 3 * (d + 1) + 1
SlipCommitted(from) ==
    {d \in Dates : d >= from /\ d <= Today /\ \A e \in from..d : Eligible(e)}
Committed(from) ==
    {d \in Dates : d >= from /\ d < Today /\ \A e \in from..d : Eligible(e)}

Summarise(u) ==
    /\ up[u].at = "synced"
    /\ LET days == Committed(Latest(summary) + 1) IN
       up' = [up EXCEPT ![u] = [at |-> "commit", over |-> up[u].over, sums |-> summary,
                                left |-> {Month(d) : d \in days},
                                data |-> [d \in Dates |-> IF d \in days THEN stored[d] ELSE 0]]]
    /\ UNCHANGED <<now, delivered, stored, summary, ran, faults>>

(* UpdateHistorySummary merges a month's days; the months come in any order,  *)
(* and the first that fails ends the commit.                                  *)
Merged(old, new, m) == [d \in Dates |-> IF Month(d) = m /\ new[d] > 0 THEN new[d] ELSE old[d]]
SlipCommit(u, m) ==
    /\ up[u].at = "commit" /\ m \in up[u].left
    /\ summary' = [d \in Dates |-> IF Month(d) = m THEN up[u].data[d] ELSE summary[d]]
    /\ up' = [up EXCEPT ![u].left = @ \ {m}]
    /\ UNCHANGED <<now, delivered, stored, ran, faults>>
Commit(u, m) ==
    /\ up[u].at = "commit" /\ m \in up[u].left
    /\ \/ /\ summary' = Merged(summary, up[u].data, m)
          /\ up' = [up EXCEPT ![u].left = @ \ {m}]
          /\ UNCHANGED faults
       \/ /\ Fault("summary") /\ UNCHANGED summary
          /\ up' = [up EXCEPT ![u].at = "combine", ![u].data = None, ![u].left = {}]
    /\ UNCHANGED <<now, delivered, stored, ran>>

Committing(u) ==
    /\ up[u].at = "commit" /\ up[u].left = {}
    /\ up' = [up EXCEPT ![u].at = "combine", ![u].data = None,
                        ![u].sums = [d \in Dates |-> IF up[u].data[d] > 0 THEN up[u].data[d] ELSE @[d]]]
    /\ UNCHANGED <<now, delivered, stored, summary, ran, faults>>

(* getCombinedHistory: the summaries, and the stored days after the last one  *)
(* summarised; of a day that comes twice, the one with more hours.            *)
SlipCombine(u) ==
    /\ up[u].at = "combine"
    /\ up' = [up EXCEPT ![u].at = "given", ![u].data =
            [d \in Dates |-> IF d = Today THEN stored[d] ELSE up[u].sums[d]]]
    /\ UNCHANGED <<now, delivered, stored, summary, ran, faults>>
Combine(u) ==
    /\ up[u].at = "combine"
    /\ up' = [up EXCEPT ![u].at = "given", ![u].data =
            [d \in Dates |-> IF d > Latest(up[u].sums) \/ d = Today
                             THEN Larger(up[u].sums[d], stored[d]) ELSE up[u].sums[d]]]
    /\ UNCHANGED <<now, delivered, stored, summary, ran, faults>>

Finish(u) ==
    /\ up[u].at = "given"
    /\ up' = [up EXCEPT ![u] = Idle] /\ ran' = TRUE
    /\ UNCHANGED <<now, delivered, stored, summary, faults>>

Next ==
    \/ Tick
    \/ \E u \in Updates :
        \/ Fetch(u) \/ Store(u) \/ Summarise(u) \/ Committing(u) \/ Combine(u) \/ Finish(u)
        \/ \E m \in {1, 2} : Commit(u, m)

Spec == Init /\ [][Next]_vars

-----------------------------------------------------------------------------
(* updateEnergyHistory resumes at the last hour stored: the days before it    *)
(* that are in store are whole, or they stay as they are.                     *)
PastDaysAreWhole ==
    \A d, e \in Dates : d < e /\ e <= Latest(stored) => stored[d] = 3

(* updateHistorySummary "checks and commits completed days since              *)
(* latestDayStart": no stored day before the last one summarised is left out. *)
NoDayIsSkipped ==
    \A d \in Dates : d < Latest(summary) /\ stored[d] > 0 => summary[d] > 0

(* A day is summarised once, so it is summarised with all that is ever        *)
(* stored of it.                                                              *)
SummaryIsFinal ==
    \A d \in Dates : summary[d] > 0 => summary[d] >= stored[d]

(* The controller is given all that is stored, of every day.                  *)
SeesAll ==
    \A u \in Updates : up[u].at = "combine" /\ up'[u].at = "given" =>
        \A d \in Dates : up'[u].data[d] >= stored[d]
ControllerSeesAll == [][SeesAll]_vars
=============================================================================
