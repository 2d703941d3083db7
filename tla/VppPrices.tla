------------------------------ MODULE VppPrices ------------------------------
(* Eversource's daily VPP rates (utility/eversource_vpp.go): kept per day in  *)
(* the instance's memory, hour by hour in the database's monthly documents    *)
(* (firestore.go), and published on one page with the history. The months are *)
(* UTC months: the evening of a month's last day is in the next document.     *)
EXTENDS Integers, FiniteSets

CONSTANTS
    Calls,          \* lookups that may run at once
    Days,           \* bound: days modelled
    MonthEnd,       \* the last day of a month
    Recent,         \* days rewritten when the database is up to date: three
    Faults,         \* what may go wrong
    MaxFaults       \* bound: how often

(* What the constants are, assumed by what instantiates this module.          *)
Assumptions ==
    /\ Faults \subseteq {"page", "read", "write", "restart"}
    /\ {Days, MonthEnd, Recent, MaxFaults} \subseteq Nat

VARIABLES
    today,
    posted,         \* the last day the page has a rate for
    memory,         \* per day: the hours in cachedPrices, {} if the day is not a key
    db,             \* the hours in monthly_prices
    call,           \* per call: where it is
    faults

vars == <<today, posted, memory, db, call, faults>>

AllDays == 0..(Days + 2)
Hours == AllDays \X {"day", "evening"}
Of(days) == days \X {"day", "evening"}
Months == {1, 2}
MonthOf(h) == IF h[1] < MonthEnd \/ h = <<MonthEnd, "day">> THEN 1 ELSE 2
Idle == [at |-> "idle"]

TypeOK ==
    /\ today \in 1..Days /\ posted \in today..(today + 1)
    /\ \A d \in AllDays : memory[d] \subseteq Of({d}) /\ (memory[d] # {} => d <= posted)
    /\ db \subseteq Of(0..posted) /\ faults \in 0..MaxFaults
    /\ \A c \in Calls : call[c] = Idle \/
        /\ call[c].at \in {"read", "use", "page", "join", "filter", "write", "collect", "failed", "answered"}
        /\ {call[c].first, call[c].last, call[c].due} \subseteq AllDays
        /\ call[c].read \cup call[c].write \cup call[c].got \subseteq Hours

Init ==
    /\ today = 1 /\ posted = 1 /\ faults = 0
    /\ memory = [d \in AllDays |-> {}]
    /\ \E days \in {{}, {0}, {0, 1}} : db = Of(days)
    /\ call = [c \in Calls |-> Idle]

Fault(f) == f \in Faults /\ faults < MaxFaults /\ faults' = faults + 1
Put(c, k) == call' = [call EXCEPT ![c] = k]

-----------------------------------------------------------------------------
Post ==
    /\ posted = today /\ posted' = today + 1
    /\ UNCHANGED <<today, memory, db, call, faults>>

Midnight ==
    /\ today < Days /\ posted = today + 1
    /\ \A c \in Calls : call[c] = Idle
    /\ today' = today + 1
    /\ UNCHANGED <<posted, memory, db, call, faults>>

Restart ==
    /\ Fault("restart")
    /\ memory' = [d \in AllDays |-> {}] /\ call' = [c \in Calls |-> Idle]
    /\ UNCHANGED <<today, posted, db>>

-----------------------------------------------------------------------------
(* The days a call looks for, and those it answers with: a range that ends at *)
(* midnight looks for the day that begins there as well.                      *)
Within(k) == k.first..k.last
Asked(k) == k.first..(IF k.midnight THEN k.last - 1 ELSE k.last)
Cached(days) == UNION {memory[d] : d \in days}

(* getPricesForRange: memory first.                                           *)
Ask(c, first, last, midnight) ==
    /\ call[c] = Idle
    /\ LET k == [at |-> "read", first |-> first, last |-> last, midnight |-> midnight, due |-> posted,
                 read |-> {}, write |-> {}, got |-> {}] IN
       Put(c, IF \A d \in Within(k) : memory[d] # {}
              THEN [k EXCEPT !.at = "answered", !.got = Cached(Asked(k))]
              ELSE k)
    /\ UNCHANGED <<today, posted, memory, db, faults>>

AskCurrent(c) == Ask(c, today, today + 1, TRUE)
AskFuture(c) == Ask(c, today, today + 2, TRUE)
(* As the history of a site asks: from a past hour to twelve hours from now.  *)
AskConfirmed(c) == \E first \in {today - 1, today}, last \in {today, today + 1} :
                      Ask(c, first, last, FALSE)

Read(c) ==
    /\ call[c].at = "read"
    /\ \/ Put(c, [call[c] EXCEPT !.at = "use", !.read = db \cap Of(Within(call[c]))])
          /\ UNCHANGED faults
       \/ Fault("read") /\ Put(c, [call[c] EXCEPT !.at = "page"])
    /\ UNCHANGED <<today, posted, memory, db>>

(* What the database has of a day becomes that day; with some of every day    *)
(* the page is not asked.                                                     *)
Held(k, d) == k.read \cap Of({d})
SlipUse(c) ==
    /\ call[c].at = "use"
    /\ memory' = [d \in AllDays |-> IF Held(call[c], d) # {} THEN Held(call[c], d) ELSE memory[d]]
    /\ Put(c, IF call[c].read # {}
              THEN [call[c] EXCEPT !.at = "answered", !.got = call[c].read \cap Of(Asked(call[c])), !.read = {}]
              ELSE [call[c] EXCEPT !.at = "page", !.read = {}])
    /\ UNCHANGED <<today, posted, db, faults>>
SlipUsePast(c) ==
    /\ call[c].at = "use"
    /\ memory' = [d \in AllDays |-> IF Held(call[c], d) # {} THEN Held(call[c], d) ELSE memory[d]]
    /\ Put(c, IF \A d \in call[c].first..(call[c].last + 1) : Held(call[c], d) # {}
              THEN [call[c] EXCEPT !.at = "answered", !.got = call[c].read \cap Of(Asked(call[c])), !.read = {}]
              ELSE [call[c] EXCEPT !.at = "page", !.read = {}])
    /\ UNCHANGED <<today, posted, db, faults>>
Use(c) ==
    /\ call[c].at = "use"
    /\ memory' = [d \in AllDays |-> IF Held(call[c], d) # {} THEN Held(call[c], d) ELSE memory[d]]
    /\ Put(c, IF \A d \in Within(call[c]) : Held(call[c], d) # {}
              THEN [call[c] EXCEPT !.at = "answered", !.got = call[c].read \cap Of(Asked(call[c])), !.read = {}]
              ELSE [call[c] EXCEPT !.at = "page", !.read = {}])
    /\ UNCHANGED <<today, posted, db, faults>>

(* fetchHistoryAndCache, one at a time; the others wait for it.               *)
Fetching(c) == call[c].at \in {"filter", "write"}
Join(c) ==
    /\ call[c].at = "page"
    /\ \E d \in Calls : Fetching(d) /\ Put(c, [call[c] EXCEPT !.at = "join", !.due = call[d].due])
    /\ UNCHANGED <<today, posted, memory, db, faults>>

Page(c) ==
    /\ call[c].at = "page" /\ ~\E d \in Calls : Fetching(d)
    /\ \/ /\ memory' = [d \in AllDays |-> IF d <= posted THEN Of({d}) ELSE memory[d]]
          /\ Put(c, [call[c] EXCEPT !.at = "filter", !.due = posted, !.write = Of(0..posted)])
          /\ UNCHANGED faults
       \/ Fault("page") /\ Put(c, [call[c] EXCEPT !.at = "failed"]) /\ UNCHANGED memory
    /\ UNCHANGED <<today, posted, db>>

(* With anything stored of the last days, older rates are not written again.  *)
Filter(c) ==
    /\ call[c].at = "filter"
    /\ LET since == today - Recent IN
       \/ /\ Put(c, [call[c] EXCEPT !.at = "write", !.write =
                        IF db \cap Of(since..today) # {} THEN {h \in @ : h[1] >= since} ELSE @])
          /\ UNCHANGED faults
       \/ Fault("read") /\ Put(c, [call[c] EXCEPT !.at = "write"])
    /\ UNCHANGED <<today, posted, memory, db>>

(* Everyone who waits for c collects from memory.                             *)
Land(c) ==
    call' = [d \in Calls |-> IF d = c \/ call[d].at = "join"
                             THEN [call[d] EXCEPT !.at = "collect", !.write = {}] ELSE call[d]]

(* UpsertUtilityPrices, month by month, up to the first that fails; the call  *)
(* does not.                                                                  *)
Write(c) ==
    /\ call[c].at = "write"
    /\ \/ /\ call[c].write # {}
          /\ LET m == CHOOSE n \in Months : /\ \E h \in call[c].write : MonthOf(h) = n
                                            /\ \A h \in call[c].write : n <= MonthOf(h)
                 part == {h \in call[c].write : MonthOf(h) = m} IN
             /\ db' = db \cup part
             /\ Put(c, [call[c] EXCEPT !.write = @ \ part])
          /\ UNCHANGED faults
       \/ call[c].write = {} /\ Land(c) /\ UNCHANGED <<db, faults>>
       \/ call[c].write # {} /\ Fault("write") /\ Land(c) /\ UNCHANGED db
    /\ UNCHANGED <<today, posted, memory>>

Collect(c) ==
    /\ call[c].at = "collect"
    /\ Put(c, [call[c] EXCEPT !.at = "answered", !.got = Cached(Asked(call[c]))])
    /\ UNCHANGED <<today, posted, memory, db, faults>>

Done(c) ==
    /\ call[c].at \in {"answered", "failed"}
    /\ Put(c, Idle)
    /\ UNCHANGED <<today, posted, memory, db, faults>>

Next ==
    \/ Post \/ Midnight \/ Restart
    \/ \E c \in Calls :
        \/ AskCurrent(c) \/ AskFuture(c) \/ AskConfirmed(c)
        \/ Read(c) \/ Use(c) \/ Join(c) \/ Page(c) \/ Filter(c) \/ Write(c) \/ Collect(c) \/ Done(c)

Spec == Init /\ [][Next]_vars

-----------------------------------------------------------------------------
(* "Check if EVERY day in [firstDay, lastDay] is present in the DB results":  *)
(* an answer has every hour of the days in its range that were posted when it *)
(* was asked, or when the page it shares was read.                            *)
AnswerHasEveryHour ==
    \A c \in Calls : call[c].at = "answered" =>
        Of({d \in Asked(call[c]) : d <= call[c].due}) \subseteq call[c].got

(* "Memory Cache hit avoids DB query and HTTP fetch": a call is not failed by *)
(* the page when memory has every hour of its range.                          *)
Unmet ==
    \A c \in Calls : call[c].at = "page" /\ call'[c].at = "failed" =>
        ~(Of(Asked(call[c])) \subseteq Cached(Asked(call[c])))
HitAvoidsFetch == [][Unmet]_vars

(* A failing page does not fail a call the database could answer whole.       *)
Unstored ==
    \A c \in Calls : call[c].at = "page" /\ call'[c].at = "failed" => ~(Of(Within(call[c])) \subseteq db)
StoredSparesThePage == [][Unstored]_vars
=============================================================================
