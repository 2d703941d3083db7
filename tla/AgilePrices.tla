----------------------------- MODULE AgilePrices -----------------------------
(* Octopus Agile export prices (utility/octopus.go) and the price history of  *)
(* the sites that use them (updatePriceHistory, server/update.go). A call     *)
(* looks in the instance's memory, then in the database, then asks upstream;  *)
(* calls for the same days share one lookup. Upstream publishes, after 16:00, *)
(* the prices from 23:00 until 23:00 of the next day. Slot 3d of day d is     *)
(* until 16:00, 3d + 1 until 23:00, and 3d + 2 the last hour.                 *)
EXTENDS Integers, FiniteSets

CONSTANTS
    Calls,          \* lookups that may run at once
    Sites,          \* sites of one region
    New,            \* sites with no history yet
    Lookback,       \* days a site without recent history goes back: five
    Days,           \* bound: days modelled
    Steady,         \* does every site sync in every slot
    Faults,         \* what may go wrong
    MaxFaults       \* bound: how often

(* What the constants are, assumed by what instantiates this module.          *)
Assumptions ==
    /\ New \subseteq Sites
    /\ Faults \subseteq {"upstream", "database", "restart"}
    /\ {Lookback, Days, MaxFaults} \subseteq Nat /\ Lookback < Days

VARIABLES
    now,            \* the current slot
    horizon,        \* the last slot published
    aged,           \* the last slot published fifteen minutes ago or earlier
    recent,         \* lastFutureFetch is less than fifteen minutes ago
    memory,         \* slots in cachedPrices
    db,             \* slots in the utility's monthly_prices
    stored,         \* per site: slots in its own monthly_prices
    synced,         \* sites that have synced in this slot
    call,           \* per call: where it is, and in which slot its lookup began (since)
    faults

vars == <<now, horizon, aged, recent, memory, db, stored, synced, call, faults>>

Day(t) == t \div 3
Morning(t) == t % 3 = 0
Slots == 0..(3 * Days + 5)
Idle == [at |-> "idle"]
Lookups == [at : {"load", "fetch", "joined", "answer", "failed", "answered"},
            kind : {"current", "future"} \cup Sites, when : Slots, start : Slots, end : Slots,
            due : Slots, leader : Calls, since : Slots, got : SUBSET Slots]

TypeOK ==
    /\ now \in 0..(3 * Days - 1) /\ horizon \in Slots /\ aged \in 0..horizon /\ recent \in BOOLEAN
    /\ memory \subseteq 0..horizon /\ db \subseteq 0..horizon
    /\ \A s \in Sites : stored[s] \subseteq 0..horizon
    /\ synced \subseteq Sites /\ faults \in 0..MaxFaults
    /\ \A c \in Calls : call[c] = Idle \/
        /\ DOMAIN call[c] = {"at", "kind", "when", "start", "end", "due", "leader", "since", "got"}
        /\ {call[c].when, call[c].start, call[c].end, call[c].due, call[c].since} \cup call[c].got \subseteq Slots
        /\ call[c].leader \in Calls

Init ==
    /\ now \in 3 * Lookback .. 3 * Lookback + 1
    /\ horizon = 3 * Lookback + 1 /\ aged = horizon /\ recent = FALSE
    /\ memory = {}
    /\ db = IF New = {} THEN 0..horizon ELSE {}
    /\ stored = [s \in Sites |-> IF s \in New THEN {} ELSE 0..now]
    /\ synced = {} /\ faults = 0
    /\ call = [c \in Calls |-> Idle]

Fault(f) == f \in Faults /\ faults < MaxFaults /\ faults' = faults + 1

-----------------------------------------------------------------------------
Publish ==
    /\ ~Morning(now) /\ horizon < 3 * (Day(now) + 1) + 1
    /\ horizon' = 3 * (Day(now) + 1) + 1
    /\ UNCHANGED <<now, aged, recent, memory, db, stored, synced, call, faults>>

QuarterHour ==
    /\ recent \/ aged # horizon
    /\ recent' = FALSE /\ aged' = horizon
    /\ UNCHANGED <<now, horizon, memory, db, stored, synced, call, faults>>

(* The prices from 23:00 are published by then; and a call waits no more than *)
(* a slot, at least an hour, for its lookup: the server writes its answers    *)
(* within ten minutes.                                                        *)
Tick ==
    /\ now + 1 < 3 * Days /\ now + 1 <= horizon
    /\ Steady => synced = Sites
    /\ \A c \in Calls : call[c] # Idle => call[c].since = now
    /\ now' = now + 1 /\ recent' = FALSE /\ aged' = horizon /\ synced' = {}
    /\ UNCHANGED <<horizon, memory, db, stored, call, faults>>

Restart ==
    /\ Fault("restart")
    /\ memory' = {} /\ recent' = FALSE /\ call' = [c \in Calls |-> Idle]
    /\ UNCHANGED <<now, horizon, aged, db, stored, synced>>

-----------------------------------------------------------------------------
(* Where a site's history is continued: at the last price stored, or, without *)
(* recent history, at the start of the day Lookback days ago.                 *)
SyncStart(s) ==
    LET limit == 3 * (Day(now) - Lookback) IN
    IF \E t \in stored[s] : t > limit THEN CHOOSE t \in stored[s] : \A u \in stored[s] : u <= t
    ELSE limit

(* Twelve hours ahead.                                                        *)
SyncEnd == 3 * Day(now) + IF Morning(now) THEN 1 ELSE 3

(* The last slot that should be published, as of the start of the call.       *)
Expected(t) == 3 * Day(t) + IF Morning(t) THEN 1 ELSE 4
CheckEnd(k) == IF k.end < Expected(k.when) THEN k.end ELSE Expected(k.when)

Range(k) == k.start..k.end
SlipCovered(k) == k.start \in memory
Covered(k) == k.start..CheckEnd(k) \subseteq memory

(* What is fetched, and shared by concurrent calls: whole days, from today's  *)
(* midnight unless the call starts earlier, to tomorrow's end.                *)
FetchStart(k) == IF k.start >= 3 * Day(k.when) THEN 3 * Day(k.when) ELSE k.start
Fetched(k) == FetchStart(k)..(3 * Day(k.when) + 5)
Flying(c) == call[c].at \in {"load", "fetch"}

(* getPrices: memory, or the lookup another call has under way, or a lookup.  *)
Ask(c, kind, start, end) ==
    /\ call[c] = Idle
    /\ LET k == [at |-> "load", kind |-> kind, when |-> now, start |-> start, end |-> end,
                 due |-> aged, leader |-> c, since |-> now, got |-> {}]
           shared == {d \in Calls : Flying(d) /\ Fetched(call[d]) = Fetched(k)} IN
       call' = [call EXCEPT ![c] =
           IF start > CheckEnd(k) \/ Covered(k) THEN [k EXCEPT !.at = "answer"]
           ELSE IF shared # {} THEN LET d == CHOOSE d \in shared : TRUE
                                    IN  [k EXCEPT !.at = "joined", !.leader = d, !.since = call[d].since]
           ELSE k]
    /\ UNCHANGED <<now, horizon, aged, recent, memory, db, stored, synced, faults>>

AskCurrent(c) == Ask(c, "current", now, now)
AskFuture(c) == Ask(c, "future", now, 3 * Day(now) + 5)
AskSync(c, s) == SyncStart(s) <= SyncEnd /\ Ask(c, s, SyncStart(s), SyncEnd)

SlipLoad(c) ==
    /\ call[c].at = "load"
    /\ UNCHANGED <<memory, faults>>
    /\ call' = [call EXCEPT ![c].at = "fetch"]
    /\ UNCHANGED <<now, horizon, aged, recent, db, stored, synced>>
Load(c) ==
    /\ call[c].at = "load"
    /\ \/ memory' = memory \cup (db \cap Fetched(call[c])) /\ UNCHANGED faults
       \/ Fault("database") /\ UNCHANGED memory
    /\ call' = [call EXCEPT ![c].at = "fetch"]
    /\ UNCHANGED <<now, horizon, aged, recent, db, stored, synced>>

(* The lookup of c ends, for it and for the calls that joined it.             *)
Land(c, how) ==
    call' = [d \in Calls |-> IF d = c \/ (call[d].at = "joined" /\ call[d].leader = c)
                             THEN [call[d] EXCEPT !.at = how] ELSE call[d]]

(* Upstream was asked for tomorrow's prices minutes ago.                      *)
Cooling(k) == CheckEnd(k) > 3 * Day(k.when) + 1 /\ recent /\ Range(k) \cap memory # {}

Spare(c) ==
    /\ call[c].at = "fetch"
    /\ Covered(call[c]) \/ Cooling(call[c])
    /\ Land(c, "answer")
    /\ UNCHANGED <<now, horizon, aged, recent, memory, db, stored, synced, faults>>

SlipFetch(c) ==
    /\ call[c].at = "fetch" /\ ~Covered(call[c]) /\ ~Cooling(call[c])
    /\ LET prices == Fetched(call[c]) \cap 0..horizon IN
       /\ db' = db \cup prices
       /\ memory' = memory \cup (prices \cap {horizon - 1, horizon}) /\ UNCHANGED faults
    /\ recent' = (recent \/ ~Morning(call[c].when))
    /\ Land(c, "answer")
    /\ UNCHANGED <<now, horizon, aged, stored, synced>>
SlipFetchFills(c) ==
    /\ call[c].at = "fetch" /\ ~Covered(call[c]) /\ ~Cooling(call[c])
    /\ memory' = memory \cup Fetched(call[c]) /\ db' = db \cup Fetched(call[c]) /\ UNCHANGED faults
    /\ recent' = (recent \/ ~Morning(call[c].when))
    /\ Land(c, "answer")
    /\ UNCHANGED <<now, horizon, aged, stored, synced>>
Fetch(c) ==
    /\ call[c].at = "fetch" /\ ~Covered(call[c]) /\ ~Cooling(call[c])
    /\ LET prices == Fetched(call[c]) \cap 0..horizon IN
       /\ prices # {}
       /\ memory' = memory \cup prices
       /\ \/ db' = db \cup prices /\ UNCHANGED faults
          \/ Fault("database") /\ UNCHANGED db
    /\ recent' = (recent \/ ~Morning(call[c].when))
    /\ Land(c, "answer")
    /\ UNCHANGED <<now, horizon, aged, stored, synced>>

(* Upstream fails: prices at hand are an answer all the same.                 *)
FetchFails(c) ==
    /\ call[c].at = "fetch" /\ ~Covered(call[c]) /\ ~Cooling(call[c])
    /\ Fault("upstream")
    /\ Land(c, IF Range(call[c]) \cap memory # {} THEN "answer" ELSE "failed")
    /\ UNCHANGED <<now, horizon, aged, recent, memory, db, stored, synced>>

Answer(c) ==
    /\ call[c].at = "answer"
    /\ call' = [call EXCEPT ![c].at = "answered", ![c].got = Range(call[c]) \cap memory]
    /\ UNCHANGED <<now, horizon, aged, recent, memory, db, stored, synced, faults>>

(* A sync stores what it was given (UpsertPrices, merged into the month); the *)
(* others only use it.                                                        *)
Done(c) ==
    /\ call[c].at \in {"answered", "failed"}
    /\ IF call[c].at = "answered" /\ call[c].kind \in Sites
       THEN /\ stored' = [stored EXCEPT ![call[c].kind] = @ \cup call[c].got]
            /\ synced' = IF call[c].when = now THEN synced \cup {call[c].kind} ELSE synced
       ELSE UNCHANGED <<stored, synced>>
    /\ call' = [call EXCEPT ![c] = Idle]
    /\ UNCHANGED <<now, horizon, aged, recent, memory, db, faults>>

Next ==
    \/ Publish \/ QuarterHour \/ Tick \/ Restart
    \/ \E c \in Calls :
        \/ AskCurrent(c) \/ AskFuture(c) \/ \E s \in Sites : AskSync(c, s)
        \/ Load(c) \/ Spare(c) \/ Fetch(c) \/ FetchFails(c) \/ Answer(c) \/ Done(c)

Spec == Init /\ [][Next]_vars

-----------------------------------------------------------------------------
(* GetFuturePrices "returns the published half-hourly Agile Outgoing rates",  *)
(* GetConfirmedPrices those "for the specified time range": an answer lacks   *)
(* no slot that was published fifteen minutes before the call, the time the   *)
(* provider allows itself not to ask upstream again.                          *)
AnswerIsComplete ==
    \A c \in Calls : call[c].at = "answered" =>
        Range(call[c]) \cap 0..call[c].due \subseteq call[c].got

(* updatePriceHistory resumes at the last price stored, so a hole before it   *)
(* would stay: there is none in the history of a site that syncs in every     *)
(* slot while upstream answers, the only one of its region. (An upstream that *)
(* fails late in the evening, and again after the day's prices were looked    *)
(* up, leaves one; so do two sites that look up across a midnight, one by the *)
(* lookup of the other, while a third lookup overtakes them.)                 *)
HistoryHasNoHole ==
    \A s \in Sites : \A t, u \in stored[s] : t..u \subseteq stored[s]

(* A failing upstream fails only calls of which nothing is known: what memory *)
(* or a readable database holds is answered.                                  *)
EmptyHanded ==
    \A c \in Calls : call[c].at = "fetch" /\ call'[c].at = "failed" =>
        /\ Range(call[c]) \cap memory = {}
        /\ ("database" \notin Faults => Range(call[c]) \cap db = {})
FailsEmptyHanded == [][EmptyHanded]_vars
=============================================================================
