----------------------------- MODULE RateLimiter -----------------------------
(* The allowance of a client (server/ratelimit.go): a limiter with two        *)
(* buckets of tokens, one for every request and one for the sensitive ones,   *)
(* kept in a concurrent map and dropped by a cleanup when idle. A tick is the *)
(* time a bucket takes to gain a token; sixty seconds fill it.                *)
EXTENDS Integers, FiniteSets

CONSTANTS
    Requests,       \* requests of one client that may run at once
    Burst,          \* per bucket: its size, the tokens of a minute
    Idle,           \* ticks unused until a limiter is stale: ten minutes
    MaxTime         \* bound: ticks modelled

Buckets == {"general", "sensitive"}

(* What the constants are, assumed by what instantiates this module; a burst  *)
(* is the tokens of one minute, of ten (generalBurst, sensitiveBurst).        *)
Assumptions ==
    /\ Burst \in [Buckets -> Nat \ {0}]
    /\ Idle \in Nat /\ \A b \in Buckets : Idle >= 2 * Burst[b]
    /\ MaxTime \in Nat

VARIABLES
    now,
    limiters,       \* every limiter made: tokens, when they were counted, lastSeen
    current,        \* the client's limiter in the map, 0 if none
    request,        \* per request: where it is, its kind and its limiter
    cleaner,        \* the stale limiter about to be deleted, 0 if none
    owed,           \* per bucket: what a bucket that was never dropped would hold
    apart           \* history: no request has run during a cleanup

vars == <<now, limiters, current, request, cleaner, owed, apart>>

Made == DOMAIN limiters
Idling == [at |-> "none"]
Smaller(a, b) == IF a <= b THEN a ELSE b
NewLimiter == [tokens |-> Burst, last |-> now, seen |-> now]

TypeOK ==
    /\ now \in 0..MaxTime /\ current \in Made \union {0} /\ cleaner \in Made \union {0}
    /\ \A l \in Made :
        /\ limiters[l].seen \in 0..now /\ limiters[l].last \in 0..now
        /\ \A b \in Buckets : limiters[l].tokens[b] \in 0..Burst[b]
    /\ \A r \in Requests : request[r] = Idling \/
        /\ request[r].at \in {"missed", "loaded", "got", "charged"}
        /\ request[r].sensitive \in BOOLEAN /\ request[r].limiter \in Made \union {0}
    /\ \A b \in Buckets : owed[b] <= Burst[b]
    /\ apart \in BOOLEAN

Init ==
    /\ now = 0 /\ limiters = << >> /\ current = 0 /\ cleaner = 0
    /\ request = [r \in Requests |-> Idling]
    /\ owed = Burst /\ apart = TRUE

(* Every bucket gains a token, to its size; an unused one is counted later.   *)
Tick ==
    /\ now < MaxTime /\ now' = now + 1
    /\ owed' = [b \in Buckets |-> Smaller(Burst[b], owed[b] + 1)]
    /\ \A r \in Requests : request[r] = Idling
    /\ UNCHANGED <<limiters, current, request, cleaner, apart>>

-----------------------------------------------------------------------------
(* getClientLimiter: look the limiter up, or store a new one unless another   *)
(* request has; then touch it.                                                *)
Lookup(r, sensitive) ==
    /\ request[r] = Idling
    /\ apart' = (apart /\ cleaner = 0)
    /\ request' = [request EXCEPT ![r] = [at |-> IF current = 0 THEN "missed" ELSE "loaded",
                                          sensitive |-> sensitive, limiter |-> current]]
    /\ UNCHANGED <<now, limiters, current, cleaner, owed>>

LoadOrStore(r) ==
    /\ request[r].at = "missed"
    /\ IF current # 0 THEN UNCHANGED <<limiters, current>>
       ELSE /\ current' = Cardinality(Made) + 1
            /\ limiters' = [l \in Made \union {current'} |->
                                IF l = current' THEN NewLimiter ELSE limiters[l]]
    /\ request' = [request EXCEPT ![r].at = "loaded", ![r].limiter = current']
    /\ UNCHANGED <<now, cleaner, owed, apart>>

Touch(r) ==
    /\ request[r].at = "loaded"
    /\ limiters' = [limiters EXCEPT ![request[r].limiter].seen = now]
    /\ request' = [request EXCEPT ![r].at = "got"]
    /\ UNCHANGED <<now, current, cleaner, owed, apart>>

-----------------------------------------------------------------------------
(* rateLimitMiddleware: a sensitive request takes a sensitive token, and then *)
(* as every other a general one. What it took is not given back.              *)
Tokens(l, b) == Smaller(Burst[b], limiters[l].tokens[b] + (now - limiters[l].last))
Bucket(r) == IF request[r].at = "got" /\ request[r].sensitive THEN "sensitive" ELSE "general"

Allow(r) ==
    LET l == request[r].limiter  b == Bucket(r)  left == Tokens(l, b) - 1 IN
    /\ request[r].at \in {"got", "charged"}
    /\ left >= 0
    /\ limiters' = [limiters EXCEPT ![l] =
            [@ EXCEPT !.last = now, !.tokens = [a \in Buckets |-> IF a = b THEN left ELSE Tokens(l, a)]]]
    /\ owed' = [owed EXCEPT ![b] = @ - 1]
    /\ request' = [request EXCEPT ![r] = IF b = "sensitive" THEN [@ EXCEPT !.at = "charged"] ELSE Idling]
    /\ UNCHANGED <<now, current, cleaner, apart>>
Refuse(r) ==
    /\ request[r].at \in {"got", "charged"}
    /\ Tokens(request[r].limiter, Bucket(r)) < 1
    /\ request' = [request EXCEPT ![r] = Idling]
    /\ UNCHANGED <<now, limiters, current, cleaner, owed, apart>>

-----------------------------------------------------------------------------
(* cleanupStaleLimiters, once a minute: it looks at lastSeen, then deletes.   *)
SlipStale(l) == now - limiters[l].seen > 0
Stale(l) == now - limiters[l].seen > Idle
FindStale ==
    /\ cleaner = 0 /\ current # 0 /\ Stale(current)
    /\ apart' = (apart /\ \A r \in Requests : request[r] = Idling)
    /\ cleaner' = current
    /\ UNCHANGED <<now, limiters, current, request, owed>>
Delete ==
    /\ cleaner # 0
    /\ current' = 0 /\ cleaner' = 0
    /\ UNCHANGED <<now, limiters, request, owed, apart>>

Next ==
    \/ Tick \/ FindStale \/ Delete
    \/ \E r \in Requests :
        \/ \E s \in BOOLEAN : Lookup(r, s)
        \/ LoadOrStore(r) \/ Touch(r) \/ Allow(r) \/ Refuse(r)

Spec == Init /\ [][Next]_vars

-----------------------------------------------------------------------------
(* A limiter dropped when idle is as good as full: while no request runs      *)
(* during a cleanup, a client is allowed what one limiter would allow it.     *)
LimitHolds == apart => \A b \in Buckets : owed[b] >= 0

(* A request may hold a limiter that the cleanup drops: the client has two    *)
(* full limiters for a moment, and never a third.                             *)
AtMostTwoLimiters == \A b \in Buckets : owed[b] >= -Burst[b]

(* What is promised, of requests that overlap a cleanup and of others.        *)
LimiterInv == TypeOK /\ AtMostTwoLimiters /\ LimitHolds
=============================================================================
