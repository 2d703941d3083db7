------------------------------ MODULE FlagCache ------------------------------
(* Feature flags (server/feats.go, server/admin.go): administrators edit one  *)
(* document under its version; every instance of the server caches the        *)
(* evaluator built from it until the next five-minute mark, and tries again a *)
(* minute after a failed read.                                                *)
EXTENDS Integers, Sequences

CONSTANTS
    Instances,      \* instances of the server
    Admins,         \* administrators; each sets the flag of its name
    TTL,            \* featsCacheTTL in minutes: five
    Retry,          \* minutes to the next try after a failure: one
    MaxTime         \* bound: minutes modelled

(* What the constants are, assumed by what instantiates this module.          *)
Assumptions ==
    /\ {TTL, Retry, MaxTime} \subseteq Nat /\ Retry < TTL

VARIABLES
    now,
    configs,        \* the document's versions: what each holds, and since when
    admin,          \* per administrator: where its request is
    cache,          \* per instance: featsEvaluator, featsUpdatedAt, featsFetchedAt
    fetch,          \* per instance: the request that holds featsFetchMu
    tried           \* per instance: the start and outcome of its last fetch

vars == <<now, configs, admin, cache, fetch, tried>>

Never == -TTL - 1                 \* before any fetch, and than a failed one is dated
Blank == [a \in Admins |-> FALSE]
Version == Len(configs)             \* zero: there is no document
Config(v) == IF v = 0 THEN Blank ELSE configs[v].cfg
Nobody == [at |-> "nobody"]

TypeOK ==
    /\ now \in Nat
    /\ \A v \in 1..Version : configs[v].cfg \in [Admins -> BOOLEAN] /\ configs[v].from \in 0..now
    /\ \A a \in Admins :
        /\ admin[a].at \in {"none", "read", "saved", "refused"}
        /\ admin[a].ver \in 0..Version
    /\ \A i \in Instances :
        /\ cache[i].ver \in 0..Version /\ cache[i].at <= now
        /\ cache[i].built => cache[i].eval \in [Admins -> BOOLEAN]
        /\ fetch[i] = Nobody \/ (fetch[i].at \in {"locked", "read"} /\ fetch[i].now \in 0..now)
        /\ tried[i].at <= now /\ tried[i].ok \in BOOLEAN

Init ==
    /\ now \in 0..(TTL - 1)
    /\ configs \in {<< >>, << [cfg |-> Blank, from |-> 0] >>}
    /\ admin = [a \in Admins |-> [at |-> "none", ver |-> 0, cfg |-> Blank]]
    /\ cache = [i \in Instances |-> [built |-> FALSE, eval |-> Blank, ver |-> 0, at |-> Never]]
    /\ fetch = [i \in Instances |-> Nobody]
    /\ tried = [i \in Instances |-> [at |-> Never, ok |-> TRUE]]

Tick == now < MaxTime /\ now' = now + 1 /\ UNCHANGED <<configs, admin, cache, fetch, tried>>

-----------------------------------------------------------------------------
(* handleUpdateFeatures: read the document, change one flag, write it back.   *)
ReadConfig(a) ==
    /\ admin[a].at = "none"
    /\ admin' = [admin EXCEPT ![a] = [at |-> "read", ver |-> Version, cfg |-> Config(Version)]]
    /\ UNCHANGED <<now, configs, cache, fetch, tried>>

(* SetFeatureConfig: under the version that was read, if there was one.       *)
SlipStale(a) == FALSE
Stale(a) == admin[a].ver # 0 /\ admin[a].ver # Version
SaveConfig(a) ==
    /\ admin[a].at = "read"
    /\ IF Stale(a)
       THEN admin' = [admin EXCEPT ![a].at = "refused"] /\ UNCHANGED configs
       ELSE /\ admin' = [admin EXCEPT ![a].at = "saved"]
            /\ configs' = Append(configs, [cfg |-> [admin[a].cfg EXCEPT ![a] = TRUE], from |-> now])
    /\ UNCHANGED <<now, cache, fetch, tried>>

-----------------------------------------------------------------------------
(* getFeatsEvaluator. A request whose instance's cache has not expired is     *)
(* answered from it; another waits for the lock and looks again.              *)
Cached(i) == cache[i].at # Never /\ now - cache[i].at < TTL

SlipLock(i) ==
    /\ fetch[i] = Nobody
    /\ fetch' = [fetch EXCEPT ![i] = [at |-> "locked", now |-> now, ver |-> 0, cfg |-> Blank]]
    /\ UNCHANGED <<now, configs, admin, cache, tried>>
Lock(i) ==
    /\ fetch[i] = Nobody /\ ~Cached(i)
    /\ fetch' = [fetch EXCEPT ![i] = [at |-> "locked", now |-> now, ver |-> 0, cfg |-> Blank]]
    /\ UNCHANGED <<now, configs, admin, cache, tried>>

GetFeatureConfig(i) ==
    /\ fetch[i].at = "locked"
    /\ fetch' = [fetch EXCEPT ![i].at = "read", ![i].ver = Version, ![i].cfg = Config(Version)]
    /\ UNCHANGED <<now, configs, admin, cache, tried>>

(* The failure is remembered as a fetch four minutes old.                     *)
Failed(i) == fetch[i].now - TTL + Retry
Fail(i) ==
    /\ fetch[i].at = "locked"
    /\ cache' = [cache EXCEPT ![i].at = Failed(i)]
    /\ tried' = [tried EXCEPT ![i] = [at |-> fetch[i].now, ok |-> FALSE]]
    /\ fetch' = [fetch EXCEPT ![i] = Nobody]
    /\ UNCHANGED <<now, configs, admin>>

SlipRebuilt(i) == ~cache[i].built
Rebuilt(i) == ~cache[i].built \/ fetch[i].ver # cache[i].ver
SlipMark(i) == ((fetch[i].now + TTL \div 2) \div TTL) * TTL
Mark(i) == fetch[i].now - (fetch[i].now % TTL)
Publish(i) ==
    /\ fetch[i].at = "read"
    /\ cache' = [cache EXCEPT ![i] = [built |-> TRUE, ver |-> fetch[i].ver, at |-> Mark(i),
                                      eval |-> IF Rebuilt(i) THEN fetch[i].cfg ELSE @.eval]]
    /\ tried' = [tried EXCEPT ![i] = [at |-> fetch[i].now, ok |-> TRUE]]
    /\ fetch' = [fetch EXCEPT ![i] = Nobody]
    /\ UNCHANGED <<now, configs, admin>>

Next ==
    \/ Tick
    \/ \E a \in Admins : ReadConfig(a) \/ SaveConfig(a)
    \/ \E i \in Instances : Lock(i) \/ GetFeatureConfig(i) \/ Fail(i) \/ Publish(i)

Spec == Init /\ [][Next]_vars

-----------------------------------------------------------------------------
(* featsCacheTTL: an instance answers with what the document held less than   *)
(* five minutes ago, unless its last read failed: that answer stands for less *)
(* than a minute.                                                             *)
FlagsAreFresh ==
    \A i \in Instances : Cached(i) =>
        IF tried[i].ok
        THEN \A v \in (cache[i].ver + 1)..Version : now - configs[v].from < TTL
        ELSE now - tried[i].at < Retry

(* "align to the 5-minute cadence": an instance reads the document once       *)
(* between two marks, and after a failure once a minute.                      *)
ReadIsDue ==
    \A i \in Instances : fetch[i] = Nobody /\ fetch'[i] # Nobody /\ tried[i].at # Never =>
        \/ now \div TTL > tried[i].at \div TTL
        \/ ~tried[i].ok /\ now - tried[i].at >= Retry
OneReadPerMark == [][ReadIsDue]_vars

(* The evaluator kept because the version is the same was built from that     *)
(* version, and never from one half replaced.                                 *)
EvaluatorIsOfItsVersion ==
    \A i \in Instances : cache[i].built => cache[i].eval = Config(cache[i].ver)

(* SetFeatureConfig "ensures doc.UpdateTime matches updatedTime": a change    *)
(* that was reported saved is in the document, whoever saved another. A write *)
(* by one who read no document is under no version, and may undo it.          *)
FirstWriters == {a \in Admins : admin[a].at = "saved" /\ admin[a].ver = 0}
SavedChangesKept ==
    \A a \in Admins : admin[a].at = "saved" /\ FirstWriters \subseteq {a} => Config(Version)[a]
FirstChangesKept ==
    \A a \in Admins : admin[a].at = "saved" => Config(Version)[a]

(* All that is promised of the flags.                                         *)
FlagsInv == TypeOK /\ FlagsAreFresh /\ EvaluatorIsOfItsVersion /\ SavedChangesKept
=============================================================================
