---------------------------- MODULE Caches_proofs -----------------------------
(* What instances of the server keep in memory: the feature flags, of any     *)
(* number of instances and administrators, and their rules, of any sites; the *)
(* allowance of a client, of any number of requests and any bursts; VPP rates *)
(* within a month of any length; Agile prices of any number of sites, one     *)
(* lookup at a time, and of one site, any number of lookups; and the steps of *)
(* lookups that fail. MCCaches instantiates the modules: FlagCache as Flags,  *)
(* FlagRules as Rules, RateLimiter as Limits, VppPrices as Month and Pages,   *)
(* and AgilePrices as Alone, Steadily, Down and Served.                       *)
EXTENDS MCCaches, SequenceTheorems, FiniteSetTheorems, WellFoundedInduction, TLAPS

-----------------------------------------------------------------------------
(* The feature flags.                                                         *)

(* What the values are.                                                       *)
Settings == [Admins -> BOOLEAN]
Versions == [cfg : Settings, from : Nat]
ConfigsOK == configs \in Seq(Versions)
Fetches == {Flags!Nobody} \union [at : {"locked", "read"}, now : Nat, ver : Nat, cfg : Settings]
FlagTypes ==
    /\ minute \in Nat
    /\ ConfigsOK /\ Len(configs) \in Nat
    /\ \A v \in 1..Len(configs) : configs[v].cfg \in Settings /\ configs[v].from \in 0..minute
    /\ admin \in [Admins -> [at : {"none", "read", "saved", "refused"}, ver : Nat, cfg : Settings]]
    /\ cache \in [Instances -> [built : BOOLEAN, eval : Settings, ver : Nat, at : Int]]
    /\ fetch \in [Instances -> Fetches]
    /\ tried \in [Instances -> [at : Int, ok : BOOLEAN]]

(* An administrator's copy is of its version; so are the one a fetch has read *)
(* and the evaluator of an instance, and what was written since came after    *)
(* the fetch began. A failed fetch is dated so that it stands for a minute.   *)
AdminInv(a) ==
    /\ admin[a].ver \in 0..Len(configs)
    /\ admin[a].at = "read" => admin[a].cfg = Flags!Config(admin[a].ver)
    /\ admin[a].at = "saved" /\ Flags!FirstWriters \subseteq {a} => Flags!Config(Len(configs))[a]
MarkOf(n) == n - (n % TTL)
FetchInv(i) ==
    /\ fetch[i] # Flags!Nobody => fetch[i].now <= minute
    /\ fetch[i].at = "read" =>
        /\ fetch[i].ver \in 0..Len(configs)
        /\ fetch[i].cfg = Flags!Config(fetch[i].ver)
        /\ \A v \in (fetch[i].ver + 1)..Len(configs) : configs[v].from >= fetch[i].now
CacheInv(i) ==
    /\ cache[i].ver \in 0..Len(configs)
    /\ cache[i].built => cache[i].eval = Flags!Config(cache[i].ver)
    /\ \/ cache[i].at = Flags!Never /\ tried[i].at = Flags!Never
       \/ /\ tried[i].at \in 0..minute
          /\ ~tried[i].ok /\ cache[i].at = tried[i].at - TTL + Retry
       \/ /\ tried[i].at \in 0..minute
          /\ tried[i].ok /\ cache[i].at = MarkOf(tried[i].at)
          /\ \A v \in (cache[i].ver + 1)..Len(configs) : configs[v].from >= tried[i].at
FlagCacheInv ==
    /\ FlagTypes
    /\ \A a \in Admins : AdminInv(a)
    /\ \A i \in Instances : FetchInv(i) /\ CacheInv(i)

-----------------------------------------------------------------------------
(* The last five-minute mark before a minute, and the marks that separate.    *)
LEMMA MarkBefore ==
    ASSUME Flags!Assumptions PROVE \A n \in Nat : MarkOf(n) \in 0..n
<1> TAKE n \in Nat
<1>1. TTL \in Nat /\ TTL # 0
  BY DEF Flags!Assumptions
<1>2. n % TTL \in 0..(TTL - 1) /\ n - (n % TTL) \in 0..n
  BY <1>1
<1> QED BY <1>2 DEF MarkOf

LEMMA MarksSeparate ==
    ASSUME Flags!Assumptions, NEW n \in Nat, NEW m \in Nat, m - MarkOf(n) >= TTL
    PROVE  m \div TTL > n \div TTL
<1> DEFINE T == TTL
<1>0. T \in Nat /\ T # 0 /\ m - (n - (n % T)) >= T
  BY DEF Flags!Assumptions, MarkOf
<1> HIDE DEF T
<1>1. n = T * (n \div T) + (n % T) /\ m = T * (m \div T) + (m % T)
  BY <1>0
<1>2. n \div T \in Int /\ m \div T \in Int /\ n % T \in Int /\ m % T \in 0..(T - 1)
  BY <1>0
<1> DEFINE a == n \div T
           b == m \div T
<1> HIDE DEF a, b
<1>3. T * b + (m % T) >= T * a + T
  BY <1>0, <1>1, <1>2 DEF a, b
<1>4. CASE b <= a
  <2>1. T * b <= T * a
    BY <1>0, <1>2, <1>4 DEF a, b
  <2> QED BY <1>0, <1>2, <1>3, <2>1 DEF a, b
<1> QED BY <1>2, <1>4 DEF a, b, T

-----------------------------------------------------------------------------
LEMMA FlagCacheInit == ASSUME Flags!Assumptions, Flags!Init PROVE FlagCacheInv
<1>1. FlagTypes
  <2>1. TTL \in Nat /\ minute \in Nat /\ Flags!Blank \in Settings /\ Flags!Never \in Int
    BY DEF Flags!Assumptions, Flags!Init, Flags!Blank, Flags!Never, Settings
  <2>2. ConfigsOK /\ Len(configs) \in Nat
        /\ \A v \in 1..Len(configs) : configs[v].cfg \in Settings /\ configs[v].from \in 0..minute
    <3>1. CASE configs = << [cfg |-> Flags!Blank, from |-> 0] >>
      BY <2>1, <3>1 DEF ConfigsOK, Versions
    <3>2. CASE configs = << >>
      BY <3>2 DEF ConfigsOK
    <3> QED BY <3>1, <3>2 DEF Flags!Init
  <2> QED BY <2>1, <2>2 DEF FlagTypes, Fetches, Flags!Init
<1>2. \A a \in Admins : AdminInv(a)
  BY DEF AdminInv, Flags!Init
<1>3. \A i \in Instances : FetchInv(i) /\ CacheInv(i)
  BY DEF FetchInv, CacheInv, Flags!Init, Flags!Nobody
<1> QED BY <1>1, <1>2, <1>3 DEF FlagCacheInv, Flags!Init

(* Only the administrators write versions.                                    *)
LEMMA ConfigsUnchanged == ASSUME UNCHANGED configs PROVE ConfigsOK' = ConfigsOK
BY DEF ConfigsOK

LEMMA TickKeeps == ASSUME FlagCacheInv, Flags!Tick PROVE FlagCacheInv'
<1>1. FlagTypes' /\ minute' >= minute /\ minute' \in Nat /\ minute \in Nat
  BY ConfigsUnchanged DEF FlagCacheInv, FlagTypes, Fetches, Flags!Tick
<1>2. ASSUME NEW a \in Admins PROVE AdminInv(a)'
  BY DEF FlagCacheInv, AdminInv, Flags!Tick, Flags!Config, Flags!FirstWriters
<1>3. ASSUME NEW i \in Instances PROVE FetchInv(i)' /\ CacheInv(i)'
  <2>1. FetchInv(i) /\ CacheInv(i)
    BY DEF FlagCacheInv
  <2>2. FetchInv(i)'
    BY <1>1, <2>1 DEF FlagCacheInv, FlagTypes, Fetches, FetchInv, Flags!Tick, Flags!Config, Flags!Nobody
  <2>3. CacheInv(i)'
    BY <1>1, <2>1 DEF CacheInv, Flags!Tick, Flags!Config, Flags!Never
  <2> QED BY <2>2, <2>3
<1> QED BY <1>1, <1>2, <1>3 DEF FlagCacheInv, Flags!Tick

LEMMA ConfigIsSettings ==
    ASSUME FlagTypes, NEW v \in 0..Len(configs) PROVE Flags!Config(v) \in Settings
BY DEF FlagTypes, Settings, Flags!Config, Flags!Blank

LEMMA ReadConfigKeeps ==
    ASSUME FlagCacheInv, NEW a \in Admins, Flags!ReadConfig(a) PROVE FlagCacheInv'
<1>0. Len(configs) \in Nat
  BY DEF FlagCacheInv, FlagTypes, Fetches
<1>1. FlagTypes'
  BY <1>0, ConfigIsSettings, ConfigsUnchanged DEF FlagCacheInv, FlagTypes, Fetches, Flags!ReadConfig, Flags!Version
<1>2. ASSUME NEW b \in Admins PROVE AdminInv(b)'
  <2>1. Flags!FirstWriters' = Flags!FirstWriters
    BY DEF FlagCacheInv, FlagTypes, Flags!ReadConfig, Flags!FirstWriters
  <2> QED BY <1>0, <2>1 DEF FlagCacheInv, FlagTypes, Fetches, AdminInv, Flags!ReadConfig, Flags!Version, Flags!Config
<1>3. ASSUME NEW i \in Instances PROVE FetchInv(i)' /\ CacheInv(i)'
  BY DEF FlagCacheInv, FetchInv, CacheInv, Flags!ReadConfig, Flags!Config
<1> QED BY <1>1, <1>2, <1>3 DEF FlagCacheInv, Flags!ReadConfig

(* A version that is written leaves the earlier ones as they were.            *)
LEMMA VersionAdded ==
    ASSUME FlagTypes, NEW c \in Versions, configs' = Append(configs, c)
    PROVE  /\ ConfigsOK'
           /\ Len(configs) \in Nat /\ Len(configs') = Len(configs) + 1
           /\ \A v \in 1..Len(configs) : configs'[v] = configs[v]
           /\ configs'[Len(configs')] = c
           /\ \A v \in 0..Len(configs) : Flags!Config(v)' = Flags!Config(v)
           /\ Flags!Config(Len(configs))' = c.cfg
<1>1. configs \in Seq(Versions) /\ Len(configs) \in Nat
  BY DEF FlagTypes, ConfigsOK
<1>2. /\ configs' \in Seq(Versions) /\ Len(configs') = Len(configs) + 1
      /\ \A v \in 1..Len(configs) : configs'[v] = configs[v]
      /\ configs'[Len(configs')] = c
  BY <1>1, AppendProperties
<1> QED BY <1>1, <1>2 DEF ConfigsOK, Flags!Config, Flags!Blank

LEMMA SaveConfigKeeps ==
    ASSUME FlagCacheInv, NEW a \in Admins, Flags!SaveConfig(a) PROVE FlagCacheInv'
<1> USE DEF Flags!Version
<1>1. CASE Flags!Stale(a)
  <2>1. FlagTypes'
    <3>1. UNCHANGED <<minute, configs, cache, fetch, tried>> /\ admin' = [admin EXCEPT ![a].at = "refused"]
      BY <1>1 DEF Flags!SaveConfig
    <3>2. admin' \in [Admins -> [at : {"none", "read", "saved", "refused"}, ver : Nat, cfg : Settings]]
      BY <3>1 DEF FlagCacheInv, FlagTypes
    <3> QED BY <3>1, <3>2, ConfigsUnchanged DEF FlagCacheInv, FlagTypes, Fetches
  <2>2. ASSUME NEW b \in Admins PROVE AdminInv(b)'
    <3>1. Flags!FirstWriters' = Flags!FirstWriters
      BY <1>1 DEF FlagCacheInv, FlagTypes, Flags!SaveConfig, Flags!FirstWriters
    <3>2. /\ admin'[b].ver = admin[b].ver /\ configs' = configs
          /\ admin'[b].at \in {"read", "saved"} => admin'[b] = admin[b]
      BY <1>1 DEF FlagCacheInv, FlagTypes, Flags!SaveConfig
    <3>3. AdminInv(b)
      BY DEF FlagCacheInv
    <3> QED BY <3>1, <3>2, <3>3 DEF AdminInv, Flags!Config
  <2>3. ASSUME NEW i \in Instances PROVE FetchInv(i)' /\ CacheInv(i)'
    BY <1>1 DEF FlagCacheInv, FetchInv, CacheInv, Flags!SaveConfig, Flags!Config
  <2> QED BY <1>1, <2>1, <2>2, <2>3 DEF FlagCacheInv, Flags!SaveConfig
<1>2. CASE ~Flags!Stale(a)
  <2> DEFINE c == [cfg |-> [admin[a].cfg EXCEPT ![a] = TRUE], from |-> minute]
  <2>1. /\ admin[a] \in [at : {"none", "read", "saved", "refused"}, ver : Nat, cfg : Settings]
        /\ c \in Versions
        /\ admin[a].at = "read"
        /\ admin' = [admin EXCEPT ![a].at = "saved"]
        /\ configs' = Append(configs, c)
        /\ minute' = minute /\ cache' = cache /\ fetch' = fetch /\ tried' = tried
    BY <1>2 DEF FlagCacheInv, FlagTypes, Fetches, Versions, Settings, Flags!SaveConfig
  <2> HIDE DEF c
  <2>2. /\ ConfigsOK'
        /\ Len(configs) \in Nat /\ Len(configs') = Len(configs) + 1
        /\ \A v \in 1..Len(configs) : configs'[v] = configs[v]
        /\ configs'[Len(configs')] = c
        /\ \A v \in 0..Len(configs) : Flags!Config(v)' = Flags!Config(v)
        /\ Flags!Config(Len(configs))' = c.cfg
    BY <2>1, VersionAdded DEF FlagCacheInv
  <2>3. c.from = minute /\ c.cfg = [admin[a].cfg EXCEPT ![a] = TRUE] /\ minute \in Nat
    BY DEF c, FlagCacheInv, FlagTypes
  <2>4. FlagTypes'
    <3>1. c.cfg \in Settings
      BY <2>1 DEF Versions
    <3>2. \A v \in 1..Len(configs') : configs'[v].cfg \in Settings /\ configs'[v].from \in 0..minute'
      BY <2>1, <2>2, <2>3, <3>1 DEF FlagCacheInv, FlagTypes, Fetches
    <3>3. admin' \in [Admins -> [at : {"none", "read", "saved", "refused"}, ver : Nat, cfg : Settings]]
      BY <2>1 DEF FlagCacheInv, FlagTypes, Fetches
    <3> QED BY <2>1, <2>2, <3>2, <3>3 DEF FlagCacheInv, FlagTypes, Fetches
  <2>5. ASSUME NEW b \in Admins PROVE AdminInv(b)'
    <3>1. AdminInv(b) /\ AdminInv(a)
      BY DEF FlagCacheInv
    <3>2. b # a => admin'[b] = admin[b]
      BY <2>1 DEF FlagCacheInv, FlagTypes, Fetches
    <3>3. admin'[a].at = "saved" /\ admin'[a].ver = admin[a].ver
      BY <2>1 DEF FlagCacheInv, FlagTypes, Fetches
    <3>4. admin[a].ver # 0 => admin[a].cfg = Flags!Config(Len(configs))
      BY <1>2, <2>1, <3>1 DEF AdminInv, Flags!Stale
    <3>5. c.cfg[a] = TRUE /\ (b # a => c.cfg[b] = admin[a].cfg[b])
      BY <2>1, <2>3 DEF Settings
    <3>6. ASSUME admin'[b].at = "saved", Flags!FirstWriters' \subseteq {b} PROVE Flags!Config(Len(configs))'[b]
      <4>1. CASE b = a
        BY <2>2, <3>5, <4>1
      <4>2. CASE b # a
        <5>1. admin[a].ver # 0
          BY <3>3, <3>6, <4>2 DEF Flags!FirstWriters
        <5>2. ASSUME NEW d \in Flags!FirstWriters PROVE d = b
          <6>1. d # a /\ admin'[d] = admin[d]
            BY <2>1, <5>2 DEF Flags!FirstWriters, FlagCacheInv, FlagTypes
          <6> QED BY <3>6, <5>2, <6>1 DEF Flags!FirstWriters
        <5>3. admin[b].at = "saved" /\ Flags!FirstWriters \subseteq {b}
          BY <3>2, <3>6, <4>2, <5>2
        <5>4. Flags!Config(Len(configs))[b]
          BY <3>1, <5>3 DEF AdminInv
        <5> QED BY <2>2, <3>4, <3>5, <4>2, <5>1, <5>4
      <4> QED BY <4>1, <4>2
    <3>7. admin'[b].ver \in 0..Len(configs)'
      BY <2>2, <3>1, <3>2, <3>3 DEF AdminInv
    <3>8. admin'[b].at = "read" => admin'[b] = admin[b]
      BY <3>2, <3>3
    <3> QED BY <2>2, <3>1, <3>6, <3>7, <3>8 DEF AdminInv
  <2>6. ASSUME NEW i \in Instances PROVE FetchInv(i)' /\ CacheInv(i)'
    <3>1. FetchInv(i) /\ CacheInv(i)
      BY DEF FlagCacheInv
    <3>2. fetch[i] # Flags!Nobody => fetch[i].now \in Nat /\ fetch[i].ver \in Nat
      BY DEF FlagCacheInv, FlagTypes, Fetches
    <3>3. cache[i].ver \in Nat
      BY DEF FlagCacheInv, FlagTypes, Fetches
    <3>4. fetch[i].at = "read" => fetch[i] # Flags!Nobody
      BY DEF Flags!Nobody
    <3>5. FetchInv(i)'
      BY <2>1, <2>2, <2>3, <3>1, <3>2, <3>4 DEF FetchInv, Flags!Nobody
    <3>6. CacheInv(i)'
      BY <2>1, <2>2, <2>3, <3>1, <3>3 DEF CacheInv, Flags!Never
    <3> QED BY <3>5, <3>6
  <2> QED BY <2>2, <2>4, <2>5, <2>6 DEF FlagCacheInv
<1> QED BY <1>1, <1>2

-----------------------------------------------------------------------------
LEMMA LockKeeps ==
    ASSUME FlagCacheInv, NEW i \in Instances, Flags!Lock(i) PROVE FlagCacheInv'
<1>1. FlagTypes'
  BY ConfigsUnchanged DEF FlagCacheInv, FlagTypes, Fetches, Settings, Flags!Lock, Flags!Blank
<1>2. ASSUME NEW b \in Admins PROVE AdminInv(b)'
  BY DEF FlagCacheInv, AdminInv, Flags!Lock, Flags!Config, Flags!FirstWriters
<1>3. ASSUME NEW j \in Instances PROVE FetchInv(j)' /\ CacheInv(j)'
  <2>1. FetchInv(j)'
    BY DEF FlagCacheInv, FlagTypes, Fetches, FetchInv, Flags!Lock, Flags!Config, Flags!Nobody
  <2>2. CacheInv(j)'
    BY DEF FlagCacheInv, CacheInv, Flags!Lock, Flags!Config, Flags!Never
  <2> QED BY <2>1, <2>2
<1> QED BY <1>1, <1>2, <1>3 DEF FlagCacheInv, Flags!Lock

LEMMA GetFeatureConfigKeeps ==
    ASSUME FlagCacheInv, NEW i \in Instances, Flags!GetFeatureConfig(i) PROVE FlagCacheInv'
<1>0. /\ Len(configs) \in Nat
      /\ fetch[i] # Flags!Nobody
      /\ fetch[i] \in [at : {"locked", "read"}, now : Nat, ver : Nat, cfg : Settings]
  BY DEF FlagCacheInv, FlagTypes, Fetches, Flags!GetFeatureConfig, Flags!Nobody
<1>1. FlagTypes'
  <2>1. Flags!Config(Len(configs)) \in Settings
    BY <1>0, ConfigIsSettings DEF FlagCacheInv
  <2>2. fetch' \in [Instances -> Fetches]
    BY <1>0, <2>1 DEF FlagCacheInv, FlagTypes, Fetches, Flags!GetFeatureConfig, Flags!Version
  <2> QED BY <2>2, ConfigsUnchanged DEF FlagCacheInv, FlagTypes, Fetches, Flags!GetFeatureConfig
<1>2. ASSUME NEW b \in Admins PROVE AdminInv(b)'
  BY DEF FlagCacheInv, AdminInv, Flags!GetFeatureConfig, Flags!Config, Flags!FirstWriters
<1>3. ASSUME NEW j \in Instances PROVE FetchInv(j)' /\ CacheInv(j)'
  <2>1. FetchInv(j)'
    BY <1>0 DEF FlagCacheInv, FlagTypes, Fetches, FetchInv, Flags!GetFeatureConfig, Flags!Config, Flags!Version,
                Flags!Nobody
  <2>2. CacheInv(j)'
    BY DEF FlagCacheInv, CacheInv, Flags!GetFeatureConfig, Flags!Config, Flags!Never
  <2> QED BY <2>1, <2>2
<1> QED BY <1>1, <1>2, <1>3 DEF FlagCacheInv, Flags!GetFeatureConfig

LEMMA CacheUntouched ==
    ASSUME NEW j \in Instances, CacheInv(j), UNCHANGED <<minute, configs>>,
           cache'[j] = cache[j], tried'[j] = tried[j]
    PROVE  CacheInv(j)'
BY DEF CacheInv, Flags!Config, Flags!Never

LEMMA FailKeeps ==
    ASSUME Flags!Assumptions, FlagCacheInv, NEW i \in Instances, Flags!Fail(i) PROVE FlagCacheInv'
<1>0. /\ fetch[i] # Flags!Nobody /\ fetch[i].now \in 0..minute
      /\ TTL \in Nat /\ Retry \in Nat
  BY DEF FlagCacheInv, FlagTypes, Fetches, FetchInv, Flags!Fail, Flags!Nobody, Flags!Assumptions
<1>1. FlagTypes'
  <2>1. fetch[i].now - TTL + Retry \in Int
    BY <1>0
  <2>2. cache' \in [Instances -> [built : BOOLEAN, eval : Settings, ver : Nat, at : Int]]
    BY <2>1 DEF FlagCacheInv, FlagTypes, Flags!Fail, Flags!Failed
  <2>3. tried' \in [Instances -> [at : Int, ok : BOOLEAN]]
    BY <1>0 DEF FlagCacheInv, FlagTypes, Flags!Fail
  <2> QED BY <2>2, <2>3, ConfigsUnchanged DEF FlagCacheInv, FlagTypes, Fetches, Flags!Fail
<1>2. ASSUME NEW b \in Admins PROVE AdminInv(b)'
  BY DEF FlagCacheInv, AdminInv, Flags!Fail, Flags!Config, Flags!FirstWriters
<1>3. ASSUME NEW j \in Instances PROVE FetchInv(j)' /\ CacheInv(j)'
  <2>1. FetchInv(j)'
    BY <1>0 DEF FlagCacheInv, FlagTypes, Fetches, FetchInv, Flags!Fail, Flags!Config, Flags!Nobody
  <2>2. CASE j = i
    <3>1. /\ cache'[i].ver = cache[i].ver /\ cache'[i].built = cache[i].built
          /\ cache'[i].eval = cache[i].eval /\ cache'[i].at = fetch[i].now - TTL + Retry
          /\ tried'[i].at = fetch[i].now /\ ~tried'[i].ok /\ minute' = minute /\ configs' = configs
      BY DEF FlagCacheInv, FlagTypes, Fetches, Flags!Fail, Flags!Failed
    <3>2. CacheInv(i)
      BY DEF FlagCacheInv
    <3>3. /\ cache'[i].ver \in 0..Len(configs)
          /\ cache'[i].built => cache'[i].eval = Flags!Config(cache'[i].ver)
      BY <3>1, <3>2 DEF CacheInv
    <3>4. /\ tried'[i].at \in 0..minute'
          /\ ~tried'[i].ok /\ cache'[i].at = tried'[i].at - TTL + Retry
      BY <1>0, <3>1
    <3> QED BY <2>1, <2>2, <3>1, <3>3, <3>4 DEF CacheInv, Flags!Config
  <2>3. CASE j # i
    <3>1. cache'[j] = cache[j] /\ tried'[j] = tried[j] /\ minute' = minute /\ configs' = configs
      BY <2>3 DEF FlagCacheInv, FlagTypes, Fetches, Flags!Fail
    <3>2. CacheInv(j)
      BY DEF FlagCacheInv
    <3> QED BY <2>1, <3>1, <3>2, CacheUntouched
  <2> QED BY <2>1, <2>2, <2>3
<1> QED BY <1>1, <1>2, <1>3 DEF FlagCacheInv, Flags!Fail

LEMMA PublishKeeps ==
    ASSUME Flags!Assumptions, FlagCacheInv, NEW i \in Instances, Flags!Publish(i) PROVE FlagCacheInv'
<1>0. /\ fetch[i] \in [at : {"locked", "read"}, now : Nat, ver : Nat, cfg : Settings]
      /\ fetch[i].now \in 0..minute /\ fetch[i].at = "read"
      /\ TTL \in Nat /\ TTL # 0
  BY DEF FlagCacheInv, FlagTypes, Fetches, FetchInv, Flags!Publish, Flags!Nobody, Flags!Assumptions
<1>1. Flags!Mark(i) \in Int /\ Flags!Mark(i) = MarkOf(fetch[i].now)
  <2>1. fetch[i].now \in Nat
    BY <1>0
  <2> QED BY <2>1, MarkBefore DEF Flags!Mark, MarkOf
<1>2. FlagTypes'
  BY <1>0, <1>1, ConfigsUnchanged DEF FlagCacheInv, FlagTypes, Fetches, Flags!Publish
<1>3. ASSUME NEW b \in Admins PROVE AdminInv(b)'
  BY DEF FlagCacheInv, AdminInv, Flags!Publish, Flags!Config, Flags!FirstWriters
<1>4. ASSUME NEW j \in Instances PROVE FetchInv(j)' /\ CacheInv(j)'
  <2>1. FetchInv(j)'
    BY <1>0 DEF FlagCacheInv, FlagTypes, Fetches, FetchInv, Flags!Publish, Flags!Config, Flags!Nobody
  <2>2. CASE j = i
    <3>1. FetchInv(i) /\ CacheInv(i)
      BY DEF FlagCacheInv
    <3>2. /\ cache'[i].ver = fetch[i].ver /\ cache'[i].at = Flags!Mark(i)
          /\ cache'[i].eval = IF Flags!Rebuilt(i) THEN fetch[i].cfg ELSE cache[i].eval
          /\ tried'[i].at = fetch[i].now /\ tried'[i].ok
          /\ minute' = minute /\ configs' = configs
      BY DEF FlagCacheInv, FlagTypes, Fetches, Flags!Publish
    <3>3. cache'[i].eval = Flags!Config(cache'[i].ver)
      BY <1>0, <3>1, <3>2 DEF Flags!Rebuilt, CacheInv, FetchInv
    <3>4. /\ cache'[i].ver \in 0..Len(configs)
          /\ \A v \in (cache'[i].ver + 1)..Len(configs) : configs[v].from >= tried'[i].at
      BY <1>0, <3>1, <3>2 DEF FetchInv
    <3>5. tried'[i].at \in 0..minute /\ tried'[i].ok /\ cache'[i].at = MarkOf(tried'[i].at)
      BY <1>0, <1>1, <3>2
    <3> QED BY <2>1, <2>2, <3>2, <3>3, <3>4, <3>5 DEF CacheInv, Flags!Config
  <2>3. CASE j # i
    <3>1. cache'[j] = cache[j] /\ tried'[j] = tried[j] /\ minute' = minute /\ configs' = configs
      BY <2>3 DEF FlagCacheInv, FlagTypes, Fetches, Flags!Publish
    <3>2. CacheInv(j)
      BY DEF FlagCacheInv
    <3> QED BY <2>1, <3>1, <3>2, CacheUntouched
  <2> QED BY <2>1, <2>2, <2>3
<1> QED BY <1>2, <1>3, <1>4 DEF FlagCacheInv, Flags!Publish

LEMMA FlagCacheNext ==
    ASSUME Flags!Assumptions, FlagCacheInv, [Flags!Next]_(Flags!vars) PROVE FlagCacheInv'
<1>1. CASE UNCHANGED Flags!vars
  BY <1>1, ConfigsUnchanged DEF Flags!vars, FlagCacheInv, FlagTypes, AdminInv, FetchInv, CacheInv, Flags!Config,
              Flags!FirstWriters, Flags!Nobody, Flags!Never
<1> QED BY <1>1, TickKeeps, ReadConfigKeeps, SaveConfigKeeps, LockKeeps, GetFeatureConfigKeeps,
           FailKeeps, PublishKeeps DEF Flags!Next

-----------------------------------------------------------------------------
LEMMA FlagsImplied == ASSUME Flags!Assumptions, FlagCacheInv PROVE Flags!FlagsInv
<1>0. TTL \in Nat /\ Retry \in Nat /\ Retry < TTL /\ minute \in Nat /\ Len(configs) \in Nat
  BY DEF Flags!Assumptions, FlagCacheInv, FlagTypes
<1>1. Flags!TypeOK
  <2>1. \A v \in 1..Len(configs) : configs[v].cfg \in Settings /\ configs[v].from \in 0..minute
    BY DEF FlagCacheInv, FlagTypes, Fetches
  <2>2. \A a \in Admins : admin[a].at \in {"none", "read", "saved", "refused"} /\ admin[a].ver \in 0..Len(configs)
    BY DEF FlagCacheInv, FlagTypes, Fetches, AdminInv
  <2>3. ASSUME NEW i \in Instances
        PROVE  /\ cache[i].ver \in 0..Len(configs) /\ cache[i].at <= minute
               /\ cache[i].built => cache[i].eval \in Settings
               /\ fetch[i] = Flags!Nobody \/ (fetch[i].at \in {"locked", "read"} /\ fetch[i].now \in 0..minute)
               /\ tried[i].at <= minute /\ tried[i].ok \in BOOLEAN
    <3>1. CacheInv(i) /\ FetchInv(i)
      BY DEF FlagCacheInv
    <3>2. cache[i].at <= minute /\ tried[i].at <= minute
      <4>1. CASE cache[i].at = Flags!Never /\ tried[i].at = Flags!Never
        BY <1>0, <4>1 DEF Flags!Never
      <4>2. CASE tried[i].at \in 0..minute /\ ~tried[i].ok /\ cache[i].at = tried[i].at - TTL + Retry
        BY <1>0, <4>2
      <4>3. CASE tried[i].at \in 0..minute /\ cache[i].at = MarkOf(tried[i].at)
        <5>1. \A n \in Nat : MarkOf(n) \in 0..n
          BY <1>0, MarkBefore
        <5>2. tried[i].at \in Nat
          BY <1>0, <4>3
        <5>3. MarkOf(tried[i].at) \in 0..tried[i].at
          BY <5>1, <5>2
        <5> QED BY <1>0, <4>3, <5>3
      <4> QED BY <3>1, <4>1, <4>2, <4>3 DEF CacheInv
    <3> QED BY <3>1, <3>2 DEF FlagCacheInv, FlagTypes, Fetches, CacheInv, FetchInv
  <2> QED BY <1>0, <2>1, <2>2, <2>3 DEF Flags!TypeOK, Flags!Version, Settings
<1>2. Flags!FlagsAreFresh
  <2> SUFFICES ASSUME NEW i \in Instances, Flags!Cached(i)
               PROVE  IF tried[i].ok
                      THEN \A v \in (cache[i].ver + 1)..Len(configs) : minute - configs[v].from < TTL
                      ELSE minute - tried[i].at < Retry
    BY DEF Flags!FlagsAreFresh, Flags!Version
  <2>1. CacheInv(i)
    BY DEF FlagCacheInv
  <2>2. \A v \in (cache[i].ver + 1)..Len(configs) : configs[v].from \in Nat
    BY <2>1 DEF FlagCacheInv, FlagTypes, Fetches, CacheInv
  <2>3. CASE tried[i].ok
    <3>1. /\ tried[i].at \in 0..minute /\ cache[i].at = MarkOf(tried[i].at)
          /\ \A v \in (cache[i].ver + 1)..Len(configs) : configs[v].from >= tried[i].at
      BY <2>1, <2>3 DEF CacheInv, Flags!Cached
    <3>2. MarkOf(tried[i].at) \in 0..tried[i].at
      <4>1. \A n \in Nat : MarkOf(n) \in 0..n
        BY <1>0, MarkBefore
      <4>2. tried[i].at \in Nat
        BY <1>0, <3>1
      <4> QED BY <4>1, <4>2
    <3>3. minute - cache[i].at < TTL
      BY DEF Flags!Cached
    <3> QED BY <1>0, <2>2, <2>3, <3>1, <3>2, <3>3
  <2>4. CASE ~tried[i].ok
    BY <1>0, <2>1, <2>4 DEF CacheInv, Flags!Cached
  <2> QED BY <2>3, <2>4
<1>3. Flags!EvaluatorIsOfItsVersion
  BY DEF FlagCacheInv, CacheInv, Flags!EvaluatorIsOfItsVersion
<1>4. Flags!SavedChangesKept
  BY DEF FlagCacheInv, AdminInv, Flags!SavedChangesKept, Flags!Version
<1> QED BY <1>1, <1>2, <1>3, <1>4 DEF Flags!FlagsInv

-----------------------------------------------------------------------------
(* The rules of a flag. What decides is the first rule that matches.          *)
RulesGiven == given \in Seq(Rules!Criteria)

LEMMA FirstDecides ==
    ASSUME NEW cs, Len(cs) \in Nat, NEW s, NEW default, NEW i \in 1..Len(cs),
           Rules!Matches(cs[i], s), \A j \in 1..(i - 1) : ~Rules!Matches(cs[j], s)
    PROVE  Rules!Evaluate(cs, s, default) = cs[i].value
<1> DEFINE hits == {j \in 1..Len(cs) : Rules!Matches(cs[j], s)}
<1>1. i \in hits /\ \A j \in hits : i <= j  OBVIOUS
<1>2. \A k \in hits : (\A j \in hits : k <= j) => k = i  BY <1>1
<1> HIDE DEF hits
<1>3. (CHOOSE k \in hits : \A j \in hits : k <= j) = i  BY <1>1, <1>2
<1>4. hits # {}  BY <1>1
<1> QED  BY <1>3, <1>4 DEF Rules!Evaluate, hits

LEMMA NoneDecides ==
    ASSUME NEW cs, NEW s, NEW default, \A j \in 1..Len(cs) : ~Rules!Matches(cs[j], s)
    PROVE  Rules!Evaluate(cs, s, default) = default
BY DEF Rules!Evaluate

(* What normalising leaves: a rule at most of the sites that are on, one of   *)
(* those that are off, one of the percentage, in this order.                  *)
SavedRules == [sites : SUBSET RuleSites, percent : Int, value : BOOLEAN]
LEMMA SitesRuleIs ==
    ASSUME NEW v \in BOOLEAN
    PROVE  /\ Rules!SitesRule(given, v) \in Seq(SavedRules)
           /\ Rules!Named(given, v) = {} => Len(Rules!SitesRule(given, v)) = 0
           /\ Rules!Named(given, v) # {} =>
                /\ Len(Rules!SitesRule(given, v)) = 1
                /\ Rules!SitesRule(given, v)[1] = [sites |-> Rules!Named(given, v), percent |-> 0, value |-> v]
<1> DEFINE r == [sites |-> Rules!Named(given, v), percent |-> 0, value |-> v]
<1>1. r \in SavedRules  BY DEF SavedRules, Rules!Named
<1> HIDE DEF r
<1>2. << >> \in Seq(SavedRules) /\ <<r>> \in Seq(SavedRules) /\ Len(<<r>>) = 1 /\ <<r>>[1] = r  BY <1>1
<1>3. Rules!SitesRule(given, v) = IF Rules!Named(given, v) = {} THEN << >> ELSE <<r>>  BY DEF Rules!SitesRule, r
<1>4. CASE Rules!Named(given, v) = {}  BY <1>2, <1>3, <1>4
<1>5. CASE Rules!Named(given, v) # {}
  <2>1. Rules!SitesRule(given, v) = <<r>>  BY <1>3, <1>5
  <2>2. Len(Rules!SitesRule(given, v)) = 1 /\ Rules!SitesRule(given, v)[1] = r  BY <1>2, <2>1
  <2> QED  BY <1>2, <1>5, <2>1, <2>2 DEF r
<1> QED  BY <1>4, <1>5

LEMMA PercentRuleIs ==
    ASSUME RulesGiven
    PROVE  /\ Rules!PercentRule(given) \in Seq(SavedRules)
           /\ Rules!WithPercent(given) = {} => Len(Rules!PercentRule(given)) = 0
           /\ Rules!WithPercent(given) # {} =>
                /\ Len(Rules!PercentRule(given)) = 1
                /\ \E i \in Rules!WithPercent(given) :
                      /\ Rules!PercentRule(given)[1].sites = {}
                      /\ Rules!PercentRule(given)[1].percent = given[i].percent
                      /\ Rules!PercentRule(given)[1].value = given[i].value
<1>1. CASE Rules!WithPercent(given) = {}
  <2>1. << >> \in Seq(SavedRules) /\ Rules!PercentRule(given) = << >>  BY <1>1 DEF Rules!PercentRule
  <2> QED  BY <1>1, <2>1
<1>2. CASE Rules!WithPercent(given) # {}
  <2> DEFINE i == CHOOSE j \in Rules!WithPercent(given) : TRUE
             r == [given[i] EXCEPT !.sites = {}]
  <2>1. i \in Rules!WithPercent(given)  BY <1>2
  <2>2. i \in 1..Len(given)  BY <2>1 DEF Rules!WithPercent
  <2>3. given[i] \in Rules!Criteria  BY <2>2 DEF RulesGiven
  <2>4. Rules!PercentRule(given) = <<r>>  BY <1>2 DEF Rules!PercentRule
  <2> HIDE DEF i
  <2>5. r \in SavedRules /\ r.sites = {} /\ r.percent = given[i].percent /\ r.value = given[i].value
    BY <2>3, NamesAssumption DEF Rules!Criteria, SavedRules
  <2> HIDE DEF r
  <2>6. <<r>> \in Seq(SavedRules) /\ Len(<<r>>) = 1 /\ <<r>>[1] = r  BY <2>5
  <2> QED  BY <1>2, <2>1, <2>4, <2>5, <2>6
<1> QED  BY <1>1, <1>2

LEMMA NormalizedIs ==
    ASSUME RulesGiven
    PROVE  LET a == Rules!SitesRule(given, TRUE)
               b == Rules!SitesRule(given, FALSE)
               c == Rules!PercentRule(given)
               n == Rules!Normalize(given) IN
           /\ n \in Seq(SavedRules) /\ Len(n) = Len(a) + Len(b) + Len(c)
           /\ \A i \in 1..Len(a) : n[i] = a[i]
           /\ \A i \in 1..Len(b) : n[Len(a) + i] = b[i]
           /\ \A i \in 1..Len(c) : n[Len(a) + Len(b) + i] = c[i]
<1> DEFINE a == Rules!SitesRule(given, TRUE)
           b == Rules!SitesRule(given, FALSE)
           c == Rules!PercentRule(given)
<1>1. a \in Seq(SavedRules) /\ b \in Seq(SavedRules) /\ c \in Seq(SavedRules)
  BY SitesRuleIs, PercentRuleIs
<1>2. Rules!Normalize(given) = (a \o b) \o c  BY DEF Rules!Normalize
<1> HIDE DEF a, b, c
<1>3. /\ a \o b \in Seq(SavedRules) /\ Len(a \o b) = Len(a) + Len(b)
      /\ \A i \in 1..Len(a) + Len(b) : (a \o b)[i] = IF i <= Len(a) THEN a[i] ELSE b[i - Len(a)]
  BY <1>1, ConcatProperties
<1> DEFINE ab == a \o b
<1>4. ab \in Seq(SavedRules)  BY <1>3
<1> HIDE DEF ab
<1>5. /\ ab \o c \in Seq(SavedRules) /\ Len(ab \o c) = Len(ab) + Len(c)
      /\ \A i \in 1..Len(ab) + Len(c) : (ab \o c)[i] = IF i <= Len(ab) THEN ab[i] ELSE c[i - Len(ab)]
  BY <1>1, <1>4, ConcatProperties
<1> DEFINE n == ab \o c
<1>6. n = Rules!Normalize(given)  BY <1>2 DEF ab
<1> HIDE DEF n
<1>7. Len(a) \in Nat /\ Len(b) \in Nat /\ Len(c) \in Nat  BY <1>1
<1>8. Len(ab) = Len(a) + Len(b)
      /\ \A i \in 1..Len(a) + Len(b) : ab[i] = IF i <= Len(a) THEN a[i] ELSE b[i - Len(a)]
  BY <1>3 DEF ab
<1>9. \A i \in 1..Len(a) : n[i] = a[i]  BY <1>5, <1>7, <1>8 DEF n
<1>10. \A i \in 1..Len(b) : n[Len(a) + i] = b[i]
  <2> TAKE i \in 1..Len(b)
  <2>1. Len(a) + i \in 1..Len(a) + Len(b) /\ ~(Len(a) + i <= Len(a)) /\ Len(a) + i - Len(a) = i  BY <1>7
  <2> QED  BY <1>5, <1>7, <1>8, <2>1 DEF n
<1>11. \A i \in 1..Len(c) : n[Len(a) + Len(b) + i] = c[i]
  <2> TAKE i \in 1..Len(c)
  <2>1. /\ Len(a) + Len(b) + i \in 1..Len(ab) + Len(c) /\ ~(Len(a) + Len(b) + i <= Len(ab))
        /\ Len(a) + Len(b) + i - Len(ab) = i
    BY <1>7, <1>8
  <2> QED  BY <1>5, <2>1 DEF n
<1>12. n \in Seq(SavedRules) /\ Len(n) = Len(a) + Len(b) + Len(c)  BY <1>5, <1>8 DEF n
<1> QED  BY <1>6, <1>9, <1>10, <1>11, <1>12 DEF a, b, c

LEMMA SitesMatch ==
    ASSUME NEW v \in BOOLEAN, NEW s
    PROVE  LET r == [sites |-> Rules!Named(given, v), percent |-> 0, value |-> v] IN
           /\ Rules!Matches(r, s) => s \in Rules!Named(given, v)
           /\ s \in Rules!Named(given, v) => Rules!Matches(r, s)
<1> DEFINE r == [sites |-> Rules!Named(given, v), percent |-> 0, value |-> v]
<1>1. r.sites = Rules!Named(given, v) /\ r.percent = 0  OBVIOUS
<1>2. s \in Rules!Named(given, v) => s # Rules!NoSite  BY NamesAssumption DEF Rules!Named
<1> HIDE DEF r
<1>3. (Rules!Matches(r, s) => s \in r.sites) /\ (s # Rules!NoSite /\ s \in r.sites => Rules!Matches(r, s))
  BY <1>1 DEF Rules!Matches
<1> QED  BY <1>1, <1>2, <1>3 DEF r

(* A site that is named: the rule of its value comes first among its own.     *)
LEMMA NamedDecide == ASSUME RulesGiven PROVE Rules!NamedSitesDecide
<1> SUFFICES ASSUME NEW s \in RuleSites, NEW default \in BOOLEAN, NEW i \in 1..Len(given),
                    s \in given[i].sites, \A j \in 1..(i - 1) : s \notin given[j].sites
             PROVE  Rules!Evaluate(Rules!Normalize(given), s, default) = given[i].value
  BY DEF Rules!NamedSitesDecide
<1> DEFINE a == Rules!SitesRule(given, TRUE)
           b == Rules!SitesRule(given, FALSE)
           c == Rules!PercentRule(given)
           n == Rules!Normalize(given)
<1>0. given[i] \in Rules!Criteria /\ Len(given) \in Nat  BY DEF RulesGiven
<1>1. given[i].value \in BOOLEAN /\ Len(given) \in Nat  BY <1>0 DEF Rules!Criteria
<1>2. s \in Rules!Named(given, given[i].value)  BY DEF Rules!Named
<1>3. \A v \in BOOLEAN : s \in Rules!Named(given, v) => v = given[i].value
  <2> TAKE v \in BOOLEAN
  <2> HAVE s \in Rules!Named(given, v)
  <2>1. PICK k \in 1..Len(given) : s \in given[k].sites /\ given[k].value = v /\ \A j \in 1..(k - 1) : s \notin given[j].sites
    BY DEF Rules!Named
  <2>2. ~(k < i) /\ ~(i < k)  BY <1>1, <2>1
  <2>3. k = i  BY <1>1, <2>2
  <2> QED  BY <2>1, <2>3
<1>4. /\ n \in Seq(SavedRules) /\ Len(n) = Len(a) + Len(b) + Len(c)
      /\ \A k \in 1..Len(a) : n[k] = a[k]
      /\ \A k \in 1..Len(b) : n[Len(a) + k] = b[k]
  BY NormalizedIs
<1>5. a \in Seq(SavedRules) /\ b \in Seq(SavedRules) /\ c \in Seq(SavedRules)
  BY SitesRuleIs, PercentRuleIs
<1>6. Len(n) \in Nat /\ Len(a) \in Nat /\ Len(b) \in Nat /\ Len(c) \in Nat
  <2> HIDE DEF a, b, c, n
  <2> QED  BY <1>4, <1>5
<1>7. CASE given[i].value = TRUE
  <2>1. Len(a) = 1 /\ a[1] = [sites |-> Rules!Named(given, TRUE), percent |-> 0, value |-> TRUE]
    BY <1>2, <1>7, SitesRuleIs
  <2>2. Rules!Matches(a[1], s)  BY <1>2, <1>7, <2>1, SitesMatch
  <2>3. a[1].value = TRUE
    <3> HIDE DEF a
    <3> QED  BY <2>1
  <2> HIDE DEF a, b, c, n
  <2>0. Len(a) = 1  BY <2>1
  <2>4. 1 \in 1..Len(n) /\ n[1] = a[1]  BY <1>4, <1>6, <2>0
  <2>5. Rules!Matches(n[1], s) /\ \A j \in 1..(1 - 1) : ~Rules!Matches(n[j], s)  BY <2>2, <2>4
  <2>6. Rules!Evaluate(n, s, default) = n[1].value  BY <1>6, <2>4, <2>5, FirstDecides
  <2> QED  BY <1>7, <2>3, <2>4, <2>6 DEF n
<1>8. CASE given[i].value = FALSE
  <2>1. Len(b) = 1 /\ b[1] = [sites |-> Rules!Named(given, FALSE), percent |-> 0, value |-> FALSE]
    BY <1>2, <1>8, SitesRuleIs
  <2>2. Rules!Matches(b[1], s)  BY <1>2, <1>8, <2>1, SitesMatch
  <2>3. b[1].value = FALSE
    <3> HIDE DEF b
    <3> QED  BY <2>1
  <2>4. s \notin Rules!Named(given, TRUE)  BY <1>3, <1>8
  <2>5. Len(a) \in 0..1 /\ \A j \in 1..Len(a) : ~Rules!Matches(a[j], s)
    <3>1. CASE Rules!Named(given, TRUE) = {}
      <4>1. Len(a) = 0  BY <3>1, SitesRuleIs
      <4> HIDE DEF a
      <4> QED  BY <4>1
    <3>2. CASE Rules!Named(given, TRUE) # {}
      <4>1. Len(a) = 1 /\ a[1] = [sites |-> Rules!Named(given, TRUE), percent |-> 0, value |-> TRUE]
        BY <3>2, SitesRuleIs
      <4>2. ~Rules!Matches(a[1], s)  BY <2>4, <4>1, SitesMatch
      <4> HIDE DEF a
      <4>3. Len(a) = 1  BY <4>1
      <4> QED  BY <4>2, <4>3
    <3> QED  BY <3>1, <3>2
  <2> HIDE DEF a, b, c, n
  <2>0. Len(b) = 1  BY <2>1
  <2>6. Len(a) + 1 \in 1..Len(n) /\ n[Len(a) + 1] = b[1]  BY <1>4, <1>6, <2>0
  <2>7. \A j \in 1..(Len(a) + 1 - 1) : ~Rules!Matches(n[j], s)  BY <1>4, <1>6, <2>5
  <2>8. Rules!Evaluate(n, s, default) = n[Len(a) + 1].value  BY <1>6, <2>2, <2>6, <2>7, FirstDecides
  <2> QED  BY <1>8, <2>3, <2>6, <2>8 DEF n
<1> QED  BY <1>1, <1>7, <1>8

(* A site that is not: nothing but the percentage can match it, and there is  *)
(* one at most.                                                               *)
LEMMA UnnamedUnchanged == ASSUME RulesGiven PROVE Rules!UnnamedSitesUnchanged
<1> SUFFICES ASSUME Rules!Valid(given), NEW s \in RuleSites \union {Rules!NoSite}, NEW default \in BOOLEAN,
                    \A i \in 1..Len(given) : s \notin given[i].sites
             PROVE  Rules!Evaluate(Rules!Normalize(given), s, default) = Rules!Evaluate(given, s, default)
  BY DEF Rules!UnnamedSitesUnchanged
<1> DEFINE a == Rules!SitesRule(given, TRUE)
           b == Rules!SitesRule(given, FALSE)
           c == Rules!PercentRule(given)
           n == Rules!Normalize(given)
           P == Rules!WithPercent(given)
<1>1. Len(given) \in Nat /\ \A i \in 1..Len(given) : given[i] \in Rules!Criteria  BY DEF RulesGiven
<1>2. \A v \in BOOLEAN : s \notin Rules!Named(given, v)  BY DEF Rules!Named
<1>3. \A i \in 1..Len(given) : Rules!Matches(given[i], s) => i \in P
  <2> TAKE i \in 1..Len(given)
  <2> HAVE Rules!Matches(given[i], s)
  <2>1. given[i].percent \in Int  BY <1>1, NamesAssumption DEF Rules!Criteria
  <2>2. given[i].percent >= 100 \/ given[i].percent > 0  BY DEF Rules!Matches
  <2>3. given[i].percent > 0  BY <2>1, <2>2
  <2> QED  BY <2>3 DEF Rules!WithPercent
<1>4. /\ n \in Seq(SavedRules) /\ Len(n) = Len(a) + Len(b) + Len(c)
      /\ \A k \in 1..Len(a) : n[k] = a[k]
      /\ \A k \in 1..Len(b) : n[Len(a) + k] = b[k]
      /\ \A k \in 1..Len(c) : n[Len(a) + Len(b) + k] = c[k]
  BY NormalizedIs
<1>5. a \in Seq(SavedRules) /\ b \in Seq(SavedRules) /\ c \in Seq(SavedRules)
  BY SitesRuleIs, PercentRuleIs
<1>6. Len(n) \in Nat /\ Len(a) \in Nat /\ Len(b) \in Nat /\ Len(c) \in Nat
  <2> HIDE DEF a, b, c, n
  <2> QED  BY <1>4, <1>5
<1>7. ASSUME NEW v \in BOOLEAN, NEW j \in 1..Len(Rules!SitesRule(given, v))
      PROVE  ~Rules!Matches(Rules!SitesRule(given, v)[j], s)
  <2> DEFINE l == Len(Rules!SitesRule(given, v))
  <2>1. l = 0 \/ l = 1  BY SitesRuleIs
  <2>2. l = 1 /\ j = 1
    <3> HIDE DEF l
    <3>1. j \in 1..l  BY DEF l
    <3> QED  BY <2>1, <3>1
  <2>3. Rules!Named(given, v) # {}
    <3>1. Rules!Named(given, v) = {} => l = 0  BY SitesRuleIs
    <3> HIDE DEF l
    <3> QED  BY <2>2, <3>1
  <2>4. Rules!SitesRule(given, v)[1] = [sites |-> Rules!Named(given, v), percent |-> 0, value |-> v]
    BY <2>3, SitesRuleIs
  <2> QED  BY <1>2, <2>2, <2>4, SitesMatch
<1>8. (\A j \in 1..Len(a) : ~Rules!Matches(a[j], s)) /\ (\A j \in 1..Len(b) : ~Rules!Matches(b[j], s))
  BY <1>7
<1>9. CASE P = {}
  <2>1. Len(c) = 0  BY <1>9, PercentRuleIs
  <2>2. \A j \in 1..Len(given) : ~Rules!Matches(given[j], s)  BY <1>3, <1>9
  <2>3. Rules!Evaluate(given, s, default) = default  BY <2>2, NoneDecides
  <2> HIDE DEF a, b, c, n
  <2>4. \A j \in 1..Len(n) : ~Rules!Matches(n[j], s)
    <3> TAKE j \in 1..Len(n)
    <3>1. j \in 1..Len(a) \/ (j - Len(a) \in 1..Len(b) /\ Len(a) + (j - Len(a)) = j)  BY <1>4, <1>6, <2>1
    <3> QED  BY <1>4, <1>8, <3>1
  <2>5. Rules!Evaluate(n, s, default) = default  BY <2>4, NoneDecides
  <2> QED  BY <2>3, <2>5 DEF n
<1>10. CASE P # {}
  <2>1. Len(c) = 1  BY <1>10, PercentRuleIs
  <2>2. PICK i \in P : c[1].sites = {} /\ c[1].percent = given[i].percent /\ c[1].value = given[i].value
    BY <1>10, PercentRuleIs
  <2>3. \A j \in P : j = i  BY <2>2 DEF Rules!Valid
  <2>4. i \in 1..Len(given) /\ s \notin given[i].sites  BY <2>2 DEF Rules!WithPercent
  <2> HIDE DEF a, b, c, n, P
  <2>5. Rules!Matches(c[1], s) = Rules!Matches(given[i], s)  BY <2>2, <2>4 DEF Rules!Matches
  <2>6. \A j \in 1..Len(given) : j # i => ~Rules!Matches(given[j], s)  BY <1>3, <2>3
  <2> DEFINE l == Len(a) + Len(b) + 1
  <2>7. l \in 1..Len(n) /\ Len(n) = l /\ n[l] = c[1]  BY <1>4, <1>6, <2>1
  <2>8. \A j \in 1..(l - 1) : ~Rules!Matches(n[j], s)
    <3> TAKE j \in 1..(l - 1)
    <3>1. j \in 1..Len(a) \/ (j - Len(a) \in 1..Len(b) /\ Len(a) + (j - Len(a)) = j)  BY <1>6
    <3> QED  BY <1>4, <1>8, <3>1
  <2> HIDE DEF l
  <2>9. CASE Rules!Matches(given[i], s)
    <3>0. Rules!Matches(n[l], s)  BY <2>5, <2>7, <2>9
    <3>1. Rules!Evaluate(n, s, default) = n[l].value  BY <1>6, <2>7, <2>8, <3>0, FirstDecides
    <3>2. \A j \in 1..(i - 1) : ~Rules!Matches(given[j], s)  BY <1>1, <2>4, <2>6
    <3>3. Rules!Evaluate(given, s, default) = given[i].value  BY <1>1, <2>4, <2>9, <3>2, FirstDecides
    <3> QED  BY <2>2, <2>7, <3>1, <3>3 DEF n
  <2>10. CASE ~Rules!Matches(given[i], s)
    <3>1. \A j \in 1..Len(n) : ~Rules!Matches(n[j], s)
      <4> TAKE j \in 1..Len(n)
      <4>1. j = l \/ j \in 1..(l - 1)  BY <1>6, <2>7
      <4>2. ~Rules!Matches(n[l], s)  BY <2>5, <2>7, <2>10
      <4> QED  BY <2>8, <4>1, <4>2
    <3>2. \A j \in 1..Len(given) : ~Rules!Matches(given[j], s)  BY <2>6, <2>10
    <3>3. Rules!Evaluate(n, s, default) = default  BY <3>1, NoneDecides
    <3>4. Rules!Evaluate(given, s, default) = default  BY <3>2, NoneDecides
    <3> QED  BY <3>3, <3>4 DEF n
  <2> QED  BY <2>9, <2>10
<1> QED  BY <1>9, <1>10

LEMMA RaisedGrows == ASSUME RulesGiven PROVE Rules!RolloutGrows
<1> SUFFICES ASSUME NEW i \in 1..Len(given), NEW q \in RulePercents, NEW s \in RuleSites \union {Rules!NoSite}
             PROVE  LET raised == [given[i] EXCEPT !.percent = q] IN
                    /\ q >= given[i].percent /\ Rules!Matches(given[i], s) => Rules!Matches(raised, s)
                    /\ q = 100 => Rules!Matches(raised, s)
  BY DEF Rules!RolloutGrows
<1> DEFINE raised == [given[i] EXCEPT !.percent = q]
<1>1. given[i] \in Rules!Criteria  BY DEF RulesGiven
<1>2. q \in Int /\ given[i].percent \in Int  BY <1>1, NamesAssumption DEF Rules!Criteria
<1>3. raised.percent = q /\ raised.sites = given[i].sites  BY <1>1 DEF Rules!Criteria
<1>4. ASSUME s # Rules!NoSite PROVE RuleBucket[s] \in Int
  <2>1. Rules!Assumptions  BY PartsAssumption
  <2>2. RuleBucket \in [RuleSites -> 0..99]  BY <2>1 DEF Rules!Assumptions
  <2>3. s \in RuleSites  BY <1>4
  <2>4. RuleBucket[s] \in 0..99  BY <2>2, <2>3
  <2>5. \A x \in 0..99 : x \in Int  OBVIOUS
  <2> QED  BY <2>4, <2>5
<1> HIDE DEF raised
<1> QED  BY <1>2, <1>3, <1>4 DEF Rules!Matches, raised

LEMMA RulesStart == PartsInit => RulesGiven
<1> SUFFICES ASSUME PartsInit PROVE RulesGiven  OBVIOUS
<1>1. CASE part = "rules"
  <2>1. Rules!Init  BY <1>1 DEF PartsInit
  <2>2. PICK n \in 0..MaxRules : given \in [1..n -> Rules!Criteria]  BY <2>1 DEF Rules!Init
  <2>3. n \in Nat  BY NamesAssumption
  <2> QED  BY <2>2, <2>3 DEF RulesGiven
<1>2. CASE part # "rules"
  <2>1. given = << >>  BY <1>2 DEF PartsInit
  <2> QED  BY <2>1 DEF RulesGiven
<1> QED  BY <1>1, <1>2
LEMMA RulesStay == RulesGiven /\ [PartsNext]_vars => RulesGiven'
<1> SUFFICES ASSUME RulesGiven, [PartsNext]_vars PROVE RulesGiven'  OBVIOUS
<1>1. given' = given
  BY DEF PartsNext, vars, ForAgile, ForVpp, ForFlags, ForRules, ForLimits, Rules!Next
<1> QED  BY <1>1 DEF RulesGiven
LEMMA RulesMean ==
    RulesGiven => NamedSitesDecide /\ UnnamedSitesUnchanged /\ RolloutGrows
BY NamedDecide, UnnamedUnchanged, RaisedGrows DEF NamedSitesDecide, UnnamedSitesUnchanged, RolloutGrows

LEMMA FlagSteps == [PartsNext]_vars => [Flags!Next]_(Flags!vars)
BY DEF PartsNext, vars, ForAgile, ForVpp, ForFlags, ForRules, ForLimits, Flags!vars, flags

-----------------------------------------------------------------------------
(* An instance answers with flags no older than five minutes, unless its last *)
(* read failed; its evaluator is of the version it read; what is reported     *)
(* saved is kept; and the first rule that matches decides, before and after   *)
(* the rules are normalised.                                                  *)
THEOREM FlagsHold == PartsSpec => []FlagsInv
<1>1. PartsInit => FlagCacheInv /\ RulesGiven
  BY PartsAssumption, FlagCacheInit, RulesStart DEF PartsInit
<1>2. FlagCacheInv /\ RulesGiven /\ [PartsNext]_vars => FlagCacheInv' /\ RulesGiven'
  BY PartsAssumption, FlagCacheNext, FlagSteps, RulesStay
<1>3. FlagCacheInv /\ RulesGiven => FlagsInv
  BY PartsAssumption, FlagsImplied, RulesMean DEF FlagsInv
<1> QED BY <1>1, <1>2, <1>3, PTL DEF PartsSpec

(* A read is due at a mark, and after a failure in a minute.                  *)
LEMMA ReadIsDueStep ==
    ASSUME Flags!Assumptions, FlagCacheInv, [Flags!Next]_(Flags!vars) PROVE [Flags!ReadIsDue]_(Flags!vars)
<1> SUFFICES ASSUME NEW i \in Instances, fetch[i] = Flags!Nobody, fetch'[i] # Flags!Nobody,
                    tried[i].at # Flags!Never, Flags!Next
             PROVE  \/ minute \div TTL > tried[i].at \div TTL
                    \/ ~tried[i].ok /\ minute - tried[i].at >= Retry
  BY DEF Flags!ReadIsDue, Flags!vars
<1>1. Flags!Lock(i)
  <2>1. fetch \in [Instances -> Fetches] /\ fetch[i].at = "nobody" /\ fetch'[i] # fetch[i]
    BY DEF FlagCacheInv, FlagTypes, Flags!Nobody
  <2>2. PICK j \in Instances :
            Flags!Lock(j) \/ Flags!GetFeatureConfig(j) \/ Flags!Fail(j) \/ Flags!Publish(j)
    BY <2>1 DEF Flags!Next, Flags!Tick, Flags!ReadConfig, Flags!SaveConfig
  <2>3. j = i
    BY <2>1, <2>2 DEF Flags!Lock, Flags!GetFeatureConfig, Flags!Fail, Flags!Publish
  <2>4. ~Flags!GetFeatureConfig(i) /\ ~Flags!Fail(i) /\ ~Flags!Publish(i)
    BY <2>1 DEF Flags!GetFeatureConfig, Flags!Fail, Flags!Publish
  <2> QED BY <2>2, <2>3, <2>4
<1>2. CacheInv(i) /\ TTL \in Nat /\ TTL # 0 /\ Retry \in Nat /\ minute \in Nat
  BY DEF FlagCacheInv, FlagTypes, Fetches, Flags!Assumptions
<1>3. minute - cache[i].at >= TTL
  <2>1. cache[i].at = Flags!Never => minute - cache[i].at >= TTL
    BY <1>2 DEF Flags!Never
  <2>2. cache[i].at \in Int
    BY DEF FlagCacheInv, FlagTypes
  <2> QED BY <1>1, <1>2, <2>1, <2>2 DEF Flags!Lock, Flags!Cached
<1>4. CASE tried[i].ok
  <2>1. tried[i].at \in 0..minute /\ cache[i].at = MarkOf(tried[i].at)
    BY <1>2, <1>4 DEF CacheInv
  <2>2. tried[i].at \in Nat /\ minute - MarkOf(tried[i].at) >= TTL
    BY <1>3, <2>1
  <2> QED BY <1>2, <2>2, MarksSeparate
<1>5. CASE ~tried[i].ok
  BY <1>2, <1>3, <1>5 DEF CacheInv
<1> QED BY <1>4, <1>5

(* An instance reads the document once between two marks, and after a failure *)
(* once a minute.                                                             *)
THEOREM ReadsAreDue == Flags!Spec => OneReadPerMark
<1>0. Flags!Assumptions
  BY PartsAssumption
<1>1. Flags!Init => FlagCacheInv
  BY <1>0, FlagCacheInit
<1>2. FlagCacheInv /\ [Flags!Next]_(Flags!vars) => FlagCacheInv'
  BY <1>0, FlagCacheNext
<1>3. FlagCacheInv /\ [Flags!Next]_(Flags!vars) => [Flags!ReadIsDue]_(Flags!vars)
  BY <1>0, ReadIsDueStep
<1> QED BY <1>1, <1>2, <1>3, PTL DEF Flags!Spec, Flags!OneReadPerMark, OneReadPerMark

-----------------------------------------------------------------------------
(* The allowance of a client. Limiters are numbered as they are made, so that *)
(* the client's is the last, if it has one.                                   *)
Count == Cardinality(Limits!Made)
Limiters == [tokens : [Limits!Buckets -> Nat], last : Nat, seen : Nat]
Tracks == [at : {"missed", "loaded", "got", "charged"}, sensitive : BOOLEAN, limiter : Nat]
Holds(r) == request[r].at \in {"loaded", "got", "charged"}

LimiterTypes ==
    /\ tick \in 0..LastTick
    /\ Count \in Nat
    /\ limiters \in [1..Count -> Limiters]
    /\ current \in {0, Count} /\ cleaner \in {0, current}
    /\ request \in [Requests -> {Limits!Idling} \union Tracks]
    /\ owed \in [Limits!Buckets -> Int]
    /\ apart \in BOOLEAN

(* A limiter was counted no later than it was seen.                           *)
Counted(l) ==
    /\ limiters[l].last <= limiters[l].seen /\ limiters[l].seen <= tick
    /\ \A b \in Limits!Buckets : limiters[l].tokens[b] <= Burst[b]

(* A request holds the last limiter or, dropped by a cleanup in this instant, *)
(* the one before; together they have at most a burst too many.               *)
HeldInv(r) ==
    /\ request[r].at = "missed" => request[r].limiter = 0
    /\ Holds(r) =>
        /\ request[r].limiter \in 1..Count
        /\ request[r].limiter # Count =>
            /\ current = Count /\ cleaner = 0
            /\ request[r].limiter = Count - 1 /\ limiters[Count].seen = tick
            /\ \A b \in Limits!Buckets :
                owed[b] >= Limits!Tokens(Count - 1, b) + Limits!Tokens(Count, b) - Burst[b]
    /\ request[r].at \in {"got", "charged"} => limiters[request[r].limiter].seen = tick

(* What is owed is at most a burst less than the last limiter has, not less   *)
(* once it is stale or dropped, and grows while the limiter is not seen.      *)
OwedInv(b) ==
    /\ owed[b] <= Burst[b]
    /\ Count = 0 => owed[b] = Burst[b]
    /\ current # 0 =>
        /\ owed[b] >= Limits!Tokens(Count, b) - Burst[b]
        /\ owed[b] >= Limits!Smaller(Burst[b], tick - limiters[Count].seen - Burst[b])
    /\ Count # 0 /\ (cleaner # 0 \/ current = 0) => owed[b] >= Limits!Tokens(Count, b)

(* Apart from cleanups what is owed is what the limiter has.                  *)
ApartInv ==
    /\ \A r \in Requests :
        /\ request[r] # Limits!Idling => cleaner = 0
        /\ Holds(r) => request[r].limiter = current
    /\ \A b \in Limits!Buckets :
        /\ Count # 0 => owed[b] = Limits!Tokens(Count, b)
        /\ cleaner # 0 \/ current = 0 => owed[b] = Burst[b]

RateInv ==
    /\ LimiterTypes
    /\ \A l \in 1..Count : Counted(l)
    /\ \A r \in Requests : HeldInv(r)
    /\ \A b \in Limits!Buckets : OwedInv(b)
    /\ apart => ApartInv

-----------------------------------------------------------------------------
LEMMA BurstType == ASSUME Limits!Assumptions, NEW b \in Limits!Buckets PROVE Burst[b] \in Nat /\ Burst[b] > 0
BY DEF Limits!Assumptions

(* A bucket is never fuller than its size, and full once it has had time.     *)
LEMMA TokensRange ==
    ASSUME Limits!Assumptions, LimiterTypes, NEW l \in 1..Count, Counted(l), NEW b \in Limits!Buckets
    PROVE  /\ Limits!Tokens(l, b) \in 0..Burst[b]
           /\ tick - limiters[l].seen >= Burst[b] => Limits!Tokens(l, b) = Burst[b]
<1>1. /\ limiters[l].tokens[b] \in Nat /\ limiters[l].last \in Nat /\ limiters[l].seen \in Nat /\ tick \in Nat
      /\ Burst[b] \in Nat
  BY BurstType DEF LimiterTypes, Limiters
<1>2. limiters[l].tokens[b] <= Burst[b] /\ limiters[l].last <= limiters[l].seen /\ limiters[l].seen <= tick
  BY DEF Counted
<1> QED BY <1>1, <1>2 DEF Limits!Tokens, Limits!Smaller

(* In a tick a bucket that is not full gains a token.                         *)
LEMMA TokensTick ==
    ASSUME Limits!Assumptions, LimiterTypes, NEW l \in 1..Count, Counted(l), NEW b \in Limits!Buckets,
           tick' = tick + 1, limiters' = limiters
    PROVE  Limits!Tokens(l, b)' = Limits!Smaller(Burst[b], Limits!Tokens(l, b) + 1)
<1>1. /\ limiters[l].tokens[b] \in Nat /\ limiters[l].last \in Nat /\ limiters[l].seen \in Nat /\ tick \in Nat
      /\ Burst[b] \in Nat
  BY BurstType DEF LimiterTypes, Limiters
<1>2. limiters[l].tokens[b] <= Burst[b] /\ limiters[l].last <= limiters[l].seen /\ limiters[l].seen <= tick
  BY DEF Counted
<1> QED BY <1>1, <1>2 DEF Limits!Tokens, Limits!Smaller

(* The invariants of a next state whose last limiter is known.                *)
LEMMA TokensLater ==
    ASSUME NEW n \in Nat, Count' = n, NEW b \in Limits!Buckets
    PROVE  /\ Limits!Tokens(Count, b)' = Limits!Tokens(n, b)'
           /\ Limits!Tokens(Count - 1, b)' = Limits!Tokens(n - 1, b)'
BY DEF Limits!Tokens

LEMMA OwedLater ==
    ASSUME NEW n \in Nat, Count' = n, NEW b \in Limits!Buckets,
           owed'[b] <= Burst[b],
           n = 0 => owed'[b] = Burst[b],
           current' # 0 =>
               /\ owed'[b] >= Limits!Tokens(n, b)' - Burst[b]
               /\ owed'[b] >= Limits!Smaller(Burst[b], tick' - limiters'[n].seen - Burst[b]),
           n # 0 /\ (cleaner' # 0 \/ current' = 0) => owed'[b] >= Limits!Tokens(n, b)'
    PROVE  OwedInv(b)'
BY TokensLater DEF OwedInv

LEMMA HeldLater ==
    ASSUME NEW n \in Nat, Count' = n, NEW r \in Requests,
           request'[r].at = "missed" => request'[r].limiter = 0,
           Holds(r)' =>
               /\ request'[r].limiter \in 1..n
               /\ request'[r].limiter # n =>
                   /\ current' = n /\ cleaner' = 0
                   /\ request'[r].limiter = n - 1 /\ limiters'[n].seen = tick'
                   /\ \A b \in Limits!Buckets :
                       owed'[b] >= Limits!Tokens(n - 1, b)' + Limits!Tokens(n, b)' - Burst[b],
           request'[r].at \in {"got", "charged"} => limiters'[request'[r].limiter].seen = tick'
    PROVE  HeldInv(r)'
<1>1. \A b \in Limits!Buckets : /\ Limits!Tokens(Count, b)' = Limits!Tokens(n, b)'
                                 /\ Limits!Tokens(Count - 1, b)' = Limits!Tokens(n - 1, b)'
  BY TokensLater
<1> QED BY <1>1 DEF HeldInv

LEMMA ApartLater ==
    ASSUME NEW n \in Nat, Count' = n,
           \A r \in Requests :
               /\ request'[r] # Limits!Idling => cleaner' = 0
               /\ Holds(r)' => request'[r].limiter = current',
           \A b \in Limits!Buckets :
               /\ n # 0 => owed'[b] = Limits!Tokens(n, b)'
               /\ cleaner' # 0 \/ current' = 0 => owed'[b] = Burst[b]
    PROVE  ApartInv'
<1>1. \A b \in Limits!Buckets : Limits!Tokens(Count, b)' = Limits!Tokens(n, b)'
  BY TokensLater
<1> QED BY <1>1 DEF ApartInv, Limits!Idling

LEMMA RateInit == ASSUME Limits!Assumptions, Limits!Init PROVE RateInv
<1>1. Limits!Made = {} /\ Count = 0
  BY FS_EmptySet DEF Limits!Init, Limits!Made, Count
<1>2. LimiterTypes
  <2>1. limiters \in [1..0 -> Limiters]
    BY DEF Limits!Init
  <2>2. owed \in [Limits!Buckets -> Int]
    BY DEF Limits!Init, Limits!Assumptions
  <2> QED BY <1>1, <2>1, <2>2 DEF Limits!Init, LimiterTypes, Limits!Assumptions
<1>3. \A r \in Requests : HeldInv(r)
  BY DEF Limits!Init, HeldInv, Holds, Limits!Idling
<1>4. \A b \in Limits!Buckets : OwedInv(b)
  BY <1>1, BurstType DEF Limits!Init, OwedInv
<1>5. ApartInv
  BY <1>1 DEF Limits!Init, ApartInv, Holds, Limits!Idling
<1> QED BY <1>1, <1>2, <1>3, <1>4, <1>5 DEF RateInv

LEMMA RateTick == ASSUME Limits!Assumptions, RateInv, Limits!Tick PROVE RateInv'
<1>1. /\ tick \in Nat /\ tick' = tick + 1 /\ tick' \in 0..LastTick /\ Count \in Nat
      /\ limiters' = limiters /\ current' = current /\ request' = request /\ cleaner' = cleaner /\ apart' = apart
      /\ \A r \in Requests : request[r] = Limits!Idling
      /\ \A b \in Limits!Buckets : owed[b] \in Int /\ owed'[b] = Limits!Smaller(Burst[b], owed[b] + 1)
  BY DEF Limits!Tick, RateInv, LimiterTypes, Limits!Assumptions
<1>2. Count' = Count /\ LimiterTypes
  BY <1>1 DEF Count, Limits!Made, RateInv
<1>3. LimiterTypes'
  <2>1. owed' \in [Limits!Buckets -> Int]
    BY <1>1, BurstType DEF Limits!Tick, Limits!Smaller
  <2> QED BY <1>1, <1>2, <2>1 DEF LimiterTypes
<1>4. ASSUME NEW l \in 1..Count PROVE Counted(l)'
  BY <1>1 DEF RateInv, LimiterTypes, Limiters, Counted
<1>5. ASSUME NEW r \in Requests PROVE HeldInv(r)'
  BY <1>1 DEF HeldInv, Holds, Limits!Idling
<1>6. ASSUME NEW l \in 1..Count, NEW b \in Limits!Buckets
      PROVE  /\ Limits!Tokens(l, b) \in 0..Burst[b]
             /\ Limits!Tokens(l, b)' = Limits!Smaller(Burst[b], Limits!Tokens(l, b) + 1)
  <2>1. Counted(l)
    BY DEF RateInv
  <2> QED BY <1>1, <1>2, <2>1, TokensTick, TokensRange
<1>7. PICK n \in Nat : n = Count
  BY <1>1
<1>8. n # 0 => n \in 1..Count /\ limiters[n].seen \in Nat
  BY <1>2, <1>7 DEF LimiterTypes, Limiters
<1>9. ASSUME NEW b \in Limits!Buckets PROVE OwedInv(b)'
  <2>1. OwedInv(b) /\ Burst[b] \in Nat /\ current \in {0, n}
    BY <1>7, BurstType DEF RateInv, LimiterTypes
  <2>2. n # 0 => /\ Limits!Tokens(n, b) \in 0..Burst[b]
                 /\ Limits!Tokens(n, b)' = Limits!Smaller(Burst[b], Limits!Tokens(n, b) + 1)
    BY <1>6, <1>8
  <2>3. owed'[b] <= Burst[b] /\ (n = 0 => owed'[b] = Burst[b])
    BY <1>1, <1>7, <2>1 DEF Limits!Smaller, OwedInv
  <2>4. ASSUME current # 0
        PROVE  /\ owed'[b] >= Limits!Tokens(n, b)' - Burst[b]
               /\ owed'[b] >= Limits!Smaller(Burst[b], tick' - limiters[n].seen - Burst[b])
    BY <1>1, <1>7, <1>8, <2>1, <2>2, <2>4 DEF Limits!Smaller, OwedInv
  <2>5. ASSUME n # 0, cleaner # 0 \/ current = 0 PROVE owed'[b] >= Limits!Tokens(n, b)'
    BY <1>1, <1>7, <2>1, <2>2, <2>5 DEF Limits!Smaller, OwedInv
  <2> QED BY <1>1, <1>2, <1>7, <2>3, <2>4, <2>5, OwedLater
<1>10. ASSUME ApartInv PROVE ApartInv'
  <2>1. ASSUME NEW b \in Limits!Buckets
        PROVE  /\ n # 0 => owed'[b] = Limits!Tokens(n, b)'
               /\ cleaner # 0 \/ current = 0 => owed'[b] = Burst[b]
    <3>1. n # 0 => owed[b] = Limits!Tokens(n, b)
      BY <1>7, <1>10 DEF ApartInv
    <3>2. n # 0 => Limits!Tokens(n, b)' = Limits!Smaller(Burst[b], Limits!Tokens(n, b) + 1)
      BY <1>6, <1>8
    <3>3. cleaner # 0 \/ current = 0 => owed[b] = Burst[b]
      BY <1>10 DEF ApartInv
    <3> QED BY <1>1, <3>1, <3>2, <3>3, BurstType DEF Limits!Smaller
  <2>2. \A r \in Requests : request'[r] = Limits!Idling /\ ~Holds(r)'
    BY <1>1 DEF Holds, Limits!Idling
  <2> QED BY <1>1, <1>2, <1>7, <2>1, <2>2, ApartLater
<1> QED BY <1>1, <1>2, <1>3, <1>4, <1>5, <1>9, <1>10 DEF RateInv

-----------------------------------------------------------------------------
(* A step that leaves limiters and allowance alone.                           *)
LEMMA HeldSame ==
    ASSUME NEW q \in Requests, HeldInv(q), request'[q] = request[q],
           UNCHANGED <<tick, limiters, current, cleaner, owed>>
    PROVE  HeldInv(q)'
BY DEF HeldInv, Holds, Count, Limits!Made, Limits!Tokens

LEMMA RestSame ==
    ASSUME RateInv, UNCHANGED <<tick, limiters, current, cleaner, owed>>, apart' \in BOOLEAN, apart' => apart,
           request' \in [Requests -> {Limits!Idling} \union Tracks],
           \A q \in Requests : HeldInv(q)',
           apart' => \A q \in Requests :
               /\ request'[q] # Limits!Idling => cleaner = 0
               /\ Holds(q)' => request'[q].limiter = current
    PROVE  RateInv'
<1>1. Count' = Count
  BY DEF Count, Limits!Made
<1>2. LimiterTypes' /\ \A l \in 1..Count' : Counted(l)'
  BY <1>1 DEF RateInv, LimiterTypes, Counted
<1>3. ASSUME NEW b \in Limits!Buckets PROVE OwedInv(b)'
  BY DEF RateInv, OwedInv, Count, Limits!Made, Limits!Tokens
<1>4. apart' => ApartInv'
  BY DEF RateInv, ApartInv, Count, Limits!Made, Limits!Tokens, Limits!Idling
<1> QED BY <1>2, <1>3, <1>4 DEF RateInv

LEMMA RateLookup ==
    ASSUME RateInv, NEW r \in Requests, NEW s \in BOOLEAN, Limits!Lookup(r, s) PROVE RateInv'
<1>1. /\ UNCHANGED <<tick, limiters, current, cleaner, owed>> /\ apart' \in BOOLEAN /\ apart' = (apart /\ cleaner = 0)
      /\ request \in [Requests -> {Limits!Idling} \union Tracks]
      /\ current \in {0, Count} /\ Count \in Nat
  BY DEF Limits!Lookup, RateInv, LimiterTypes
<1>2. PICK t \in Tracks : /\ request' = [request EXCEPT ![r] = t]
                          /\ t.at = "missed" \/ t.at = "loaded"
                          /\ t.at = "missed" <=> current = 0
                          /\ t.limiter = current
  <2>1. CASE current = 0
    <3>1. [at |-> "missed", sensitive |-> s, limiter |-> current] \in Tracks
      BY <1>1, <2>1 DEF Tracks
    <3> QED BY <2>1, <3>1 DEF Limits!Lookup
  <2>2. CASE current # 0
    <3>1. [at |-> "loaded", sensitive |-> s, limiter |-> current] \in Tracks
      BY <1>1 DEF Tracks
    <3> QED BY <2>2, <3>1 DEF Limits!Lookup
  <2> QED BY <2>1, <2>2
<1>3. request' \in [Requests -> {Limits!Idling} \union Tracks]
  BY <1>1, <1>2
<1>4. ASSUME NEW q \in Requests PROVE HeldInv(q)'
  <2>1. CASE q # r
    <3>1. HeldInv(q) /\ request'[q] = request[q]
      BY <1>1, <1>2, <2>1 DEF RateInv
    <3> QED BY <1>1, <3>1, HeldSame
  <2>2. CASE q = r
    <3>1. PICK n \in Nat : n = Count
      BY <1>1
    <3>2. request'[q] = t /\ Count' = n
      BY <1>1, <1>2, <2>2, <3>1 DEF Count, Limits!Made
    <3>3. Holds(q)' => t.limiter = n /\ n \in 1..n
      BY <1>1, <1>2, <3>1, <3>2 DEF Holds
    <3>4. request'[q].at \notin {"got", "charged"} /\ (request'[q].at = "missed" => request'[q].limiter = 0)
      BY <1>2, <3>2
    <3> QED BY <3>2, <3>3, <3>4, HeldLater
  <2> QED BY <2>1, <2>2
<1>5. ASSUME apart', NEW q \in Requests
      PROVE  /\ request'[q] # Limits!Idling => cleaner = 0
             /\ Holds(q)' => request'[q].limiter = current
  <2>1. cleaner = 0
    BY <1>5 DEF Limits!Lookup
  <2>2. CASE q # r
    <3>1. request'[q] = request[q]
      BY <1>1, <1>2, <2>2
    <3> QED BY <1>1, <1>5, <3>1 DEF RateInv, ApartInv, Holds
  <2>3. CASE q = r
    BY <1>1, <1>2, <2>1, <2>3
  <2> QED BY <2>2, <2>3
<1> QED BY <1>1, <1>3, <1>4, <1>5, RestSame

LEMMA RateRefuse ==
    ASSUME RateInv, NEW r \in Requests, Limits!Refuse(r) PROVE RateInv'
<1>1. /\ UNCHANGED <<tick, limiters, current, cleaner, owed, apart>> /\ apart \in BOOLEAN
      /\ request \in [Requests -> {Limits!Idling} \union Tracks]
      /\ request' = [request EXCEPT ![r] = Limits!Idling]
  BY DEF Limits!Refuse, RateInv, LimiterTypes
<1>2. request' \in [Requests -> {Limits!Idling} \union Tracks]
  BY <1>1
<1>3. ASSUME NEW q \in Requests PROVE HeldInv(q)'
  <2>1. CASE q # r
    <3>1. HeldInv(q) /\ request'[q] = request[q]
      BY <1>1, <2>1 DEF RateInv
    <3> QED BY <1>1, <3>1, HeldSame
  <2>2. CASE q = r
    <3>1. request'[q].at = "none"
      BY <1>1, <2>2 DEF Limits!Idling
    <3> QED BY <3>1 DEF HeldInv, Holds
  <2> QED BY <2>1, <2>2
<1>4. ASSUME apart', NEW q \in Requests
      PROVE  /\ request'[q] # Limits!Idling => cleaner = 0
             /\ Holds(q)' => request'[q].limiter = current
  <2>1. ApartInv
    BY <1>1, <1>4 DEF RateInv
  <2>2. CASE q # r
    <3>1. request'[q] = request[q]
      BY <1>1, <2>2
    <3> QED BY <2>1, <3>1 DEF ApartInv, Holds
  <2>3. CASE q = r
    BY <1>1, <2>3 DEF Holds, Limits!Idling
  <2> QED BY <2>2, <2>3
<1> QED BY <1>1, <1>2, <1>3, <1>4, RestSame

(* A request that had missed loads the limiter another stored, or stores one. *)
LEMMA RateLoad ==
    ASSUME RateInv, NEW r \in Requests, Limits!LoadOrStore(r), current # 0 PROVE RateInv'
<1>1. /\ UNCHANGED <<tick, limiters, current, cleaner, owed, apart>> /\ apart \in BOOLEAN
      /\ request \in [Requests -> {Limits!Idling} \union Tracks]
      /\ request[r] \in Tracks /\ current = Count /\ Count \in Nat /\ Count # 0
  BY DEF Limits!LoadOrStore, RateInv, LimiterTypes, Limits!Idling
<1>2. PICK t \in Tracks : request' = [request EXCEPT ![r] = t] /\ t.at = "loaded" /\ t.limiter = current
  <2>1. [request[r] EXCEPT !.at = "loaded", !.limiter = current] \in Tracks
    BY <1>1 DEF Tracks
  <2> QED BY <1>1, <2>1 DEF Limits!LoadOrStore, Tracks
<1>3. request' \in [Requests -> {Limits!Idling} \union Tracks]
  BY <1>1, <1>2
<1>4. ASSUME NEW q \in Requests PROVE HeldInv(q)'
  <2>1. CASE q # r
    <3>1. HeldInv(q) /\ request'[q] = request[q]
      BY <1>1, <1>2, <2>1 DEF RateInv
    <3> QED BY <1>1, <3>1, HeldSame
  <2>2. CASE q = r
    <3>1. PICK n \in Nat : n = Count
      BY <1>1
    <3>2. request'[q] = t /\ Count' = n
      BY <1>1, <1>2, <2>2, <3>1 DEF Count, Limits!Made
    <3>3. t.limiter = n /\ n \in 1..n
      BY <1>1, <1>2, <3>1
    <3>4. request'[q].at \notin {"got", "charged", "missed"}
      BY <1>2, <3>2
    <3> QED BY <3>2, <3>3, <3>4, HeldLater
  <2> QED BY <2>1, <2>2
<1>5. ASSUME apart', NEW q \in Requests
      PROVE  /\ request'[q] # Limits!Idling => cleaner = 0
             /\ Holds(q)' => request'[q].limiter = current
  <2>1. ApartInv /\ request[r] # Limits!Idling
    BY <1>1, <1>5 DEF RateInv, Limits!LoadOrStore, Limits!Idling
  <2>2. CASE q # r
    <3>1. request'[q] = request[q]
      BY <1>1, <1>2, <2>2
    <3> QED BY <2>1, <3>1 DEF ApartInv, Holds
  <2>3. CASE q = r
    BY <1>1, <1>2, <2>1, <2>3 DEF ApartInv
  <2> QED BY <2>2, <2>3
<1> QED BY <1>1, <1>3, <1>4, <1>5, RestSame

LEMMA SameCardinality == \A S : Limits!Cardinality(S) = Cardinality(S)
BY DEF Limits!Cardinality, Cardinality

(* The limiter it stores is the next number. Those that hold one hold the     *)
(* last, just dropped by a cleanup.                                           *)
LEMMA RateStore ==
    ASSUME Limits!Assumptions, RateInv, NEW r \in Requests, Limits!LoadOrStore(r), current = 0 PROVE RateInv'
<1>1. PICK n \in Nat : n = Count
  BY DEF RateInv, LimiterTypes
<1>2. LimiterTypes /\ Limits!Made = 1..n /\ limiters \in [1..n -> Limiters] /\ cleaner = 0 /\ tick \in Nat
  BY <1>1 DEF RateInv, LimiterTypes, Limits!Made
<1>3. /\ UNCHANGED <<tick, cleaner, owed, apart>> /\ current' = n + 1
      /\ limiters' = [l \in 1..(n + 1) |-> IF l = n + 1 THEN Limits!NewLimiter ELSE limiters[l]]
  <2>1. current' = n + 1
    <3>1. current' = Cardinality(Limits!Made) + 1
      BY SameCardinality DEF Limits!LoadOrStore
    <3> QED BY <1>1, <3>1 DEF Count
  <2>2. 1..n \union {n + 1} = 1..(n + 1)
    OBVIOUS
  <2> QED BY <1>2, <2>1, <2>2 DEF Limits!LoadOrStore
<1>4. Limits!NewLimiter \in Limiters
  BY <1>2 DEF Limits!NewLimiter, Limiters, Limits!Assumptions
<1>5. Count' = n + 1 /\ limiters' \in [1..(n + 1) -> Limiters]
  <2>1. limiters' \in [1..(n + 1) -> Limiters]
    BY <1>2, <1>3, <1>4
  <2>2. Limits!Made' = 1..(n + 1)
    BY <2>1 DEF Limits!Made
  <2>3. Cardinality(1..(n + 1)) = n + 1
    BY FS_Interval
  <2> QED BY <2>1, <2>2, <2>3 DEF Count
<1>6. PICK t \in Tracks : request' = [request EXCEPT ![r] = t] /\ t.at = "loaded" /\ t.limiter = n + 1
  <2>1. request \in [Requests -> {Limits!Idling} \union Tracks] /\ request[r] \in Tracks
    BY <1>2 DEF LimiterTypes, Limits!LoadOrStore, Limits!Idling
  <2>2. [request[r] EXCEPT !.at = "loaded", !.limiter = n + 1] \in Tracks
    <3>1. n + 1 \in Nat
      OBVIOUS
    <3> QED BY <2>1, <3>1 DEF Tracks
  <2> QED BY <1>3, <2>1, <2>2 DEF Limits!LoadOrStore, Tracks
<1>7. LimiterTypes'
  <2>1. request' \in [Requests -> {Limits!Idling} \union Tracks]
    BY <1>2, <1>6 DEF LimiterTypes
  <2> QED BY <1>2, <1>3, <1>5, <2>1 DEF LimiterTypes
<1>8. ASSUME NEW l \in 1..(n + 1) PROVE Counted(l)'
  <2>1. CASE l = n + 1
    <3>1. limiters'[l] = Limits!NewLimiter
      BY <1>3, <2>1
    <3> QED BY <1>2, <1>3, <3>1, BurstType DEF Counted, Limits!NewLimiter
  <2>2. CASE l # n + 1
    <3>1. l \in 1..n /\ limiters'[l] = limiters[l]
      BY <1>3, <2>2
    <3> QED BY <1>1, <1>3, <3>1 DEF RateInv, Counted
  <2> QED BY <2>1, <2>2
<1>9. ASSUME NEW b \in Limits!Buckets
      PROVE  /\ Burst[b] \in Nat /\ owed'[b] = owed[b] /\ owed[b] \in Int /\ owed[b] <= Burst[b]
             /\ Limits!Tokens(n + 1, b)' = Burst[b]
             /\ n # 0 => /\ Limits!Tokens(n, b)' = Limits!Tokens(n, b) /\ Limits!Tokens(n, b) \in 0..Burst[b]
                         /\ owed[b] >= Limits!Tokens(n, b)
             /\ n = 0 => owed[b] = Burst[b]
  <2>1. Burst[b] \in Nat /\ owed[b] \in Int /\ owed'[b] = owed[b]
    BY <1>2, <1>3, BurstType DEF LimiterTypes
  <2>2. OwedInv(b)
    BY DEF RateInv
  <2>3. Limits!Tokens(n + 1, b)' = Burst[b]
    <3>1. limiters'[n + 1] = Limits!NewLimiter
      BY <1>3
    <3> QED BY <1>2, <1>3, <2>1, <3>1 DEF Limits!Tokens, Limits!Smaller, Limits!NewLimiter
  <2>4. ASSUME n # 0 PROVE Limits!Tokens(n, b)' = Limits!Tokens(n, b) /\ Limits!Tokens(n, b) \in 0..Burst[b]
    <3>1. n \in 1..n /\ Counted(n) /\ limiters'[n] = limiters[n]
      BY <1>1, <1>3, <2>4 DEF RateInv
    <3> QED BY <1>1, <1>2, <1>3, <3>1, TokensRange DEF Limits!Tokens
  <2> QED BY <1>1, <2>1, <2>2, <2>3, <2>4 DEF OwedInv
<1>10. ASSUME NEW b \in Limits!Buckets PROVE OwedInv(b)'
  <2>1. limiters'[n + 1].seen = tick'
    BY <1>3 DEF Limits!NewLimiter
  <2>2. owed[b] >= 0
    BY <1>9
  <2> QED BY <1>2, <1>3, <1>5, <1>9, <2>1, <2>2, OwedLater DEF Limits!Smaller
<1>11. ASSUME NEW q \in Requests PROVE HeldInv(q)'
  <2>1. CASE q = r
    <3>1. request'[q] = t
      BY <1>2, <1>6, <2>1 DEF LimiterTypes
    <3>2. n + 1 \in 1..(n + 1) /\ t.limiter = n + 1
      BY <1>6
    <3>3. request'[q].at \notin {"got", "charged", "missed"}
      BY <1>6, <3>1
    <3> QED BY <1>5, <3>1, <3>2, <3>3, HeldLater
  <2>2. CASE q # r
    <3>1. request'[q] = request[q] /\ HeldInv(q)
      BY <1>2, <1>6, <2>2 DEF LimiterTypes, RateInv
    <3>2. ASSUME Holds(q)
          PROVE  /\ request[q].limiter = n /\ n \in 1..n /\ n # 0 /\ n \in 1..(n + 1)
                 /\ limiters'[n] = limiters[n]
      <4>1. request[q].limiter = n /\ n \in 1..n
        BY <1>1, <3>1, <3>2 DEF HeldInv
      <4> QED BY <1>3, <4>1
    <3>3. Holds(q)' => Holds(q)
      BY <3>1 DEF Holds
    <3>4. limiters'[n + 1].seen = tick'
      BY <1>3 DEF Limits!NewLimiter
    <3>5. ASSUME Holds(q), NEW b \in Limits!Buckets
          PROVE  owed'[b] >= Limits!Tokens(n, b)' + Limits!Tokens(n + 1, b)' - Burst[b]
      BY <1>9, <3>2, <3>5
    <3>6. request'[q].at = "missed" => request'[q].limiter = 0
      BY <3>1 DEF HeldInv
    <3>7. request'[q].at \in {"got", "charged"} => limiters'[request'[q].limiter].seen = tick'
      BY <1>3, <3>1, <3>2 DEF HeldInv, Holds
    <3>8. (n + 1) - 1 = n
      OBVIOUS
    <3> QED BY <1>2, <1>3, <1>5, <3>1, <3>2, <3>3, <3>4, <3>5, <3>6, <3>7, <3>8, HeldLater
  <2> QED BY <2>1, <2>2
<1>12. ASSUME apart' PROVE ApartInv'
  <2>1. ApartInv
    BY <1>3, <1>12 DEF RateInv
  <2>2. ASSUME NEW q \in Requests
        PROVE  (request'[q] # Limits!Idling => cleaner' = 0) /\ (Holds(q)' => request'[q].limiter = current')
    <3>1. CASE q = r
      <4>1. request'[q] = t
        BY <1>2, <1>6, <3>1 DEF LimiterTypes
      <4> QED BY <1>2, <1>3, <1>6, <4>1
    <3>2. CASE q # r
      <4>1. request'[q] = request[q]
        BY <1>2, <1>6, <3>2 DEF LimiterTypes
      <4>2. ~Holds(q)
        BY <1>1, <2>1 DEF ApartInv, RateInv, HeldInv
      <4> QED BY <1>2, <1>3, <4>1, <4>2 DEF Holds
    <3> QED BY <3>1, <3>2
  <2>3. ASSUME NEW b \in Limits!Buckets
        PROVE  /\ n + 1 # 0 => owed'[b] = Limits!Tokens(n + 1, b)'
               /\ cleaner' # 0 \/ current' = 0 => owed'[b] = Burst[b]
    BY <1>9, <2>1 DEF ApartInv
  <2> QED BY <1>5, <2>2, <2>3, ApartLater
<1> QED BY <1>5, <1>7, <1>8, <1>10, <1>11, <1>12 DEF RateInv

(* A limiter keeps its tokens when it is touched.                             *)
LEMMA RateTouch ==
    ASSUME Limits!Assumptions, RateInv, NEW r \in Requests, Limits!Touch(r) PROVE RateInv'
<1>1. PICK n \in Nat : n = Count
  BY DEF RateInv, LimiterTypes
<1>2. /\ LimiterTypes /\ limiters \in [1..n -> Limiters] /\ tick \in Nat
      /\ UNCHANGED <<tick, current, cleaner, owed, apart>>
      /\ request \in [Requests -> {Limits!Idling} \union Tracks] /\ request[r] \in Tracks /\ Holds(r)
  BY <1>1 DEF RateInv, LimiterTypes, Limits!Touch, Limits!Idling, Holds
<1>3. PICK k \in 1..n : k = request[r].limiter
  BY <1>1, <1>2 DEF RateInv, HeldInv
<1>4. /\ limiters' \in [1..n -> Limiters]
      /\ limiters'[k].seen = tick
      /\ \A l \in 1..n : /\ limiters'[l].tokens = limiters[l].tokens
                         /\ limiters'[l].last = limiters[l].last
                         /\ l # k => limiters'[l].seen = limiters[l].seen
  <2>1. [limiters[k] EXCEPT !.seen = tick] \in Limiters
    BY <1>2 DEF Limiters
  <2>2. limiters' = [limiters EXCEPT ![k] = [limiters[k] EXCEPT !.seen = tick]]
    BY <1>3 DEF Limits!Touch
  <2> QED BY <1>2, <2>1, <2>2 DEF Limiters
<1>5. Count' = n
  BY <1>1, <1>2, <1>4 DEF Count, Limits!Made
<1>6. PICK t \in Tracks : request' = [request EXCEPT ![r] = t] /\ t.at = "got" /\ t.limiter = k
  <2>1. [request[r] EXCEPT !.at = "got"] \in Tracks
    BY <1>2 DEF Tracks
  <2> QED BY <1>2, <1>3, <2>1 DEF Limits!Touch, Tracks
<1>7. LimiterTypes'
  <2>1. request' \in [Requests -> {Limits!Idling} \union Tracks]
    BY <1>2, <1>6
  <2> QED BY <1>1, <1>2, <1>4, <1>5, <2>1 DEF LimiterTypes
<1>8. ASSUME NEW l \in 1..n PROVE Counted(l)'
  <2>1. Counted(l) /\ limiters[l].last \in Nat /\ limiters[l].seen \in Nat
    BY <1>1, <1>2 DEF RateInv, Limiters
  <2> QED BY <1>2, <1>4, <2>1 DEF Counted
<1>9. \A l \in 1..n, b \in Limits!Buckets : Limits!Tokens(l, b)' = Limits!Tokens(l, b)
  BY <1>2, <1>4 DEF Limits!Tokens
<1>10. ASSUME NEW l \in 1..n, NEW b \in Limits!Buckets PROVE Limits!Tokens(l, b) \in 0..Burst[b]
  <2>1. Counted(l)
    BY <1>1 DEF RateInv
  <2> QED BY <1>1, <1>2, <2>1, TokensRange
<1>11. n \in 1..n
  BY <1>3
<1>12. ASSUME NEW b \in Limits!Buckets PROVE OwedInv(b)'
  <2>1. OwedInv(b) /\ Limits!Tokens(n, b)' = Limits!Tokens(n, b) /\ Limits!Tokens(n, b) \in Nat
    BY <1>9, <1>10, <1>11 DEF RateInv
  <2>2. Burst[b] \in Nat /\ owed[b] \in Int /\ owed'[b] = owed[b]
    BY <1>2, BurstType DEF LimiterTypes
  <2>3. ASSUME current # 0 PROVE owed[b] >= Limits!Smaller(Burst[b], tick - limiters'[n].seen - Burst[b])
    <3>1. owed[b] >= Limits!Tokens(n, b) - Burst[b]
      BY <1>1, <2>1, <2>3 DEF OwedInv
    <3>2. CASE k = n
      BY <1>2, <1>4, <2>1, <2>2, <3>1, <3>2 DEF Limits!Smaller
    <3>3. CASE k # n
      BY <1>1, <1>2, <1>4, <1>11, <2>1, <2>3, <3>3 DEF OwedInv
    <3> QED BY <3>2, <3>3
  <2> QED BY <1>1, <1>2, <1>5, <2>1, <2>2, <2>3, OwedLater DEF OwedInv
<1>13. ASSUME NEW q \in Requests PROVE HeldInv(q)'
  <2>1. /\ request'[q].limiter = request[q].limiter
        /\ Holds(q)' => Holds(q)
        /\ request'[q].at = "missed" => request[q].at = "missed"
        /\ request'[q].at \in {"got", "charged"} => q = r \/ request[q].at \in {"got", "charged"}
    BY <1>2, <1>3, <1>6 DEF Holds
  <2>2. HeldInv(q)
    BY DEF RateInv
  <2>3. ASSUME Holds(q)
        PROVE  /\ request[q].limiter \in 1..n
               /\ request[q].limiter # n =>
                    /\ current' = n /\ cleaner' = 0
                    /\ request[q].limiter = n - 1 /\ limiters'[n].seen = tick'
                    /\ \A b \in Limits!Buckets :
                        owed'[b] >= Limits!Tokens(n - 1, b)' + Limits!Tokens(n, b)' - Burst[b]
    <3>1. request[q].limiter \in 1..n
      BY <1>1, <2>2, <2>3 DEF HeldInv
    <3>2. CASE request[q].limiter # n
      <4>1. /\ current = n /\ cleaner = 0
            /\ request[q].limiter = n - 1 /\ limiters[n].seen = tick /\ n - 1 \in 1..n
            /\ \A b \in Limits!Buckets : owed[b] >= Limits!Tokens(n - 1, b) + Limits!Tokens(n, b) - Burst[b]
        BY <1>1, <2>2, <2>3, <3>1, <3>2 DEF HeldInv
      <4>2. limiters'[n].seen = tick'
        BY <1>2, <1>4, <1>11, <4>1
      <4>3. owed' = owed
        BY <1>2
      <4> QED BY <1>2, <1>9, <1>11, <3>1, <4>1, <4>2, <4>3
    <3> QED BY <3>1, <3>2
  <2>4. ASSUME request'[q].at \in {"got", "charged"} PROVE limiters'[request[q].limiter].seen = tick'
    <3>1. request[q].limiter \in 1..n
      BY <2>1, <2>3, <2>4 DEF Holds
    <3>2. q # r => limiters[request[q].limiter].seen = tick
      BY <2>1, <2>2, <2>4 DEF HeldInv
    <3> QED BY <1>2, <1>3, <1>4, <3>1, <3>2
  <2> QED BY <1>5, <2>1, <2>2, <2>3, <2>4, HeldLater DEF HeldInv
<1>14. ASSUME apart' PROVE ApartInv'
  <2>1. ApartInv /\ request[r] # Limits!Idling
    BY <1>2, <1>14 DEF RateInv, Holds, Limits!Idling
  <2>2. ASSUME NEW q \in Requests
        PROVE  (request'[q] # Limits!Idling => cleaner' = 0) /\ (Holds(q)' => request'[q].limiter = current')
    BY <1>2, <1>3, <1>6, <2>1 DEF ApartInv, Holds
  <2>3. ASSUME NEW b \in Limits!Buckets
        PROVE  /\ n # 0 => owed'[b] = Limits!Tokens(n, b)'
               /\ cleaner' # 0 \/ current' = 0 => owed'[b] = Burst[b]
    BY <1>1, <1>2, <1>9, <1>11, <2>1 DEF ApartInv
  <2> QED BY <1>5, <2>2, <2>3, ApartLater
<1> QED BY <1>5, <1>7, <1>8, <1>12, <1>13, <1>14 DEF RateInv

(* A token taken from a limiter is taken from the allowance.                  *)
LEMMA RateAllow ==
    ASSUME Limits!Assumptions, RateInv, NEW r \in Requests, Limits!Allow(r) PROVE RateInv'
<1>1. PICK n \in Nat : n = Count
  BY DEF RateInv, LimiterTypes
<1>2. /\ LimiterTypes /\ limiters \in [1..n -> Limiters] /\ tick \in Nat
      /\ UNCHANGED <<tick, current, cleaner, apart>>
      /\ request \in [Requests -> {Limits!Idling} \union Tracks] /\ request[r] \in Tracks /\ Holds(r)
      /\ request[r].at \in {"got", "charged"}
      /\ owed \in [Limits!Buckets -> Int]
  BY <1>1 DEF RateInv, LimiterTypes, Limits!Allow, Limits!Idling, Holds
<1>3. PICK k \in 1..n : k = request[r].limiter /\ limiters[k].seen = tick
  BY <1>1, <1>2 DEF RateInv, HeldInv
<1>4. PICK c \in Limits!Buckets : c = Limits!Bucket(r)
  BY DEF Limits!Bucket, Limits!Buckets
<1>5. ASSUME NEW l \in 1..n, NEW b \in Limits!Buckets
      PROVE  Limits!Tokens(l, b) \in Nat /\ Limits!Tokens(l, b) <= Burst[b] /\ Burst[b] \in Nat
  <2>1. Counted(l)
    BY <1>1 DEF RateInv
  <2> QED BY <1>1, <1>2, <2>1, TokensRange, BurstType
<1>6. Limits!Tokens(k, c) - 1 >= 0
  BY <1>3, <1>4 DEF Limits!Allow
<1>7. PICK f \in [Limits!Buckets -> Nat] :
          /\ f[c] = Limits!Tokens(k, c) - 1
          /\ \A b \in Limits!Buckets : b # c => f[b] = Limits!Tokens(k, b)
          /\ limiters' = [limiters EXCEPT ![k] = [limiters[k] EXCEPT !.last = tick, !.tokens = f]]
  <2> DEFINE g == [a \in Limits!Buckets |-> IF a = c THEN Limits!Tokens(k, c) - 1 ELSE Limits!Tokens(k, a)]
  <2>1. g \in [Limits!Buckets -> Nat]
    BY <1>5, <1>6
  <2>2. limiters' = [limiters EXCEPT ![k] = [limiters[k] EXCEPT !.last = tick, !.tokens = g]]
    BY <1>3, <1>4 DEF Limits!Allow
  <2>3. g[c] = Limits!Tokens(k, c) - 1 /\ \A b \in Limits!Buckets : b # c => g[b] = Limits!Tokens(k, b)
    OBVIOUS
  <2> HIDE DEF g
  <2> QED BY <2>1, <2>2, <2>3
<1>8. /\ limiters' \in [1..n -> Limiters]
      /\ limiters'[k].tokens = f /\ limiters'[k].last = tick
      /\ \A l \in 1..n : limiters'[l].seen = limiters[l].seen /\ (l # k => limiters'[l] = limiters[l])
  <2>1. [limiters[k] EXCEPT !.last = tick, !.tokens = f] \in Limiters
    BY <1>2 DEF Limiters
  <2> QED BY <1>2, <1>7, <2>1 DEF Limiters
<1>9. Count' = n
  BY <1>1, <1>2, <1>8 DEF Count, Limits!Made
<1>10. owed' = [owed EXCEPT ![c] = owed[c] - 1] /\ owed' \in [Limits!Buckets -> Int]
  <2>1. owed' = [owed EXCEPT ![c] = owed[c] - 1]
    BY <1>4 DEF Limits!Allow
  <2> QED BY <1>2, <2>1
<1>11. ASSUME NEW b \in Limits!Buckets, NEW l \in 1..n
       PROVE  Limits!Tokens(l, b)' = Limits!Tokens(l, b) - (IF l = k /\ b = c THEN 1 ELSE 0)
  <2>1. CASE l = k
    <3>1. limiters'[l].tokens[b] = Limits!Tokens(l, b) - (IF b = c THEN 1 ELSE 0)
      BY <1>5, <1>7, <1>8, <2>1
    <3>2. Limits!Tokens(l, b)' = Limits!Smaller(Burst[b], limiters'[l].tokens[b] + (tick - tick))
      BY <1>2, <1>8, <2>1 DEF Limits!Tokens
    <3>3. Limits!Tokens(l, b) \in Nat /\ Limits!Tokens(l, b) <= Burst[b] /\ Burst[b] \in Nat
      BY <1>5
    <3> QED BY <1>2, <2>1, <3>1, <3>2, <3>3 DEF Limits!Smaller
  <2>2. CASE l # k
    <3>1. Limits!Tokens(l, b)' = Limits!Tokens(l, b) /\ Limits!Tokens(l, b) \in Nat
      BY <1>2, <1>5, <1>8, <2>2 DEF Limits!Tokens
    <3> QED BY <2>2, <3>1
  <2> QED BY <2>1, <2>2
<1>12. ASSUME NEW b \in Limits!Buckets PROVE owed[b] \in Int /\ owed'[b] = owed[b] - (IF b = c THEN 1 ELSE 0)
  BY <1>2, <1>10
<1>13. PICK t \in {Limits!Idling} \union Tracks :
           /\ request' = [request EXCEPT ![r] = t]
           /\ t = Limits!Idling \/ (t.at = "charged" /\ t.limiter = k)
  <2>1. [request[r] EXCEPT !.at = "charged"] \in Tracks
    BY <1>2 DEF Tracks
  <2>2. CASE c = "sensitive"
    <3>1. request' = [request EXCEPT ![r] = [request[r] EXCEPT !.at = "charged"]]
      BY <1>4, <2>2 DEF Limits!Allow
    <3> QED BY <1>2, <1>3, <2>1, <3>1 DEF Tracks
  <2>3. CASE c # "sensitive"
    <3>1. request' = [request EXCEPT ![r] = Limits!Idling]
      BY <1>4, <2>3 DEF Limits!Allow
    <3> QED BY <3>1
  <2> QED BY <2>2, <2>3
<1>14. LimiterTypes'
  <2>1. request' \in [Requests -> {Limits!Idling} \union Tracks]
    BY <1>2, <1>13
  <2> QED BY <1>1, <1>2, <1>8, <1>9, <1>10, <2>1 DEF LimiterTypes
<1>15. ASSUME NEW l \in 1..n PROVE Counted(l)'
  <2>1. Counted(l) /\ limiters[l].last \in Nat /\ limiters[l].seen \in Nat
    BY <1>1, <1>2 DEF RateInv, Limiters
  <2>2. CASE l # k
    BY <1>2, <1>8, <2>1, <2>2 DEF Counted
  <2>3. CASE l = k
    <3>1. limiters'[l].last = tick /\ limiters'[l].seen = tick
      BY <1>3, <1>8, <2>3
    <3>2. ASSUME NEW b \in Limits!Buckets PROVE limiters'[l].tokens[b] <= Burst[b]
      <4>1. Limits!Tokens(k, b) \in Nat /\ Limits!Tokens(k, b) <= Burst[b] /\ Burst[b] \in Nat
        BY <1>5
      <4>2. limiters'[l].tokens[b] = Limits!Tokens(k, b) - 1 \/ limiters'[l].tokens[b] = Limits!Tokens(k, b)
        BY <1>7, <1>8, <2>3
      <4> QED BY <4>1, <4>2
    <3> QED BY <1>2, <3>1, <3>2 DEF Counted
  <2> QED BY <2>2, <2>3
<1>16. ASSUME NEW b \in Limits!Buckets PROVE OwedInv(b)'
  <2>1. OwedInv(b) /\ n \in 1..n /\ n # 0 /\ owed[b] \in Int /\ Burst[b] \in Nat /\ Limits!Tokens(n, b) \in Nat
    BY <1>3, <1>5, <1>12 DEF RateInv
  <2>2. owed'[b] = owed[b] - (IF b = c THEN 1 ELSE 0)
    BY <1>12
  <2>3. Limits!Tokens(n, b)' = Limits!Tokens(n, b) - (IF n = k /\ b = c THEN 1 ELSE 0) /\ Limits!Tokens(n, b)' \in Nat
    BY <1>6, <1>11, <2>1
  <2>4. owed'[b] <= Burst[b]
    BY <2>1, <2>2 DEF OwedInv
  <2>5. CASE k = n
    <3>1. ASSUME current # 0
          PROVE  /\ owed'[b] >= Limits!Tokens(n, b)' - Burst[b]
                 /\ owed'[b] >= Limits!Smaller(Burst[b], tick' - limiters'[n].seen - Burst[b])
      <4>1. owed[b] >= Limits!Tokens(n, b) - Burst[b]
        BY <1>1, <2>1, <3>1 DEF OwedInv
      <4>2. tick' = tick /\ limiters'[n].seen = tick
        BY <1>2, <1>3, <1>8, <2>1, <2>5
      <4>3. owed'[b] >= Limits!Tokens(n, b)' - Burst[b]
        BY <2>1, <2>2, <2>3, <2>5, <4>1
      <4> QED BY <1>2, <1>12, <2>1, <2>2, <2>3, <4>2, <4>3 DEF Limits!Smaller
    <3>2. ASSUME cleaner # 0 \/ current = 0 PROVE owed'[b] >= Limits!Tokens(n, b)'
      <4>1. owed[b] >= Limits!Tokens(n, b)
        BY <1>1, <2>1, <3>2 DEF OwedInv
      <4> QED BY <2>1, <2>2, <2>3, <2>5, <4>1
    <3> QED BY <1>2, <1>9, <2>1, <2>4, <3>1, <3>2, OwedLater
  <2>6. CASE k # n
    <3>1. /\ current = n /\ cleaner = 0 /\ k = n - 1 /\ limiters[n].seen = tick /\ k \in 1..n
          /\ owed[b] >= Limits!Tokens(k, b) + Limits!Tokens(n, b) - Burst[b]
      <4>1. HeldInv(r) /\ request[r].limiter # Count
        BY <1>1, <1>3, <2>6 DEF RateInv
      <4> QED BY <1>1, <1>2, <1>3, <4>1 DEF HeldInv
    <3>2. Limits!Tokens(k, b) \in Nat /\ (b = c => Limits!Tokens(k, b) >= 1)
      BY <1>5, <1>6
    <3>3. owed'[b] >= Limits!Tokens(n, b)' - Burst[b]
      BY <2>1, <2>2, <2>3, <2>6, <3>1, <3>2
    <3>4. tick' - limiters'[n].seen = 0
      BY <1>2, <1>8, <2>1, <3>1
    <3>5. owed'[b] >= Limits!Smaller(Burst[b], tick' - limiters'[n].seen - Burst[b])
      BY <1>12, <2>1, <2>2, <2>3, <3>3, <3>4 DEF Limits!Smaller
    <3>6. ~(cleaner' # 0 \/ current' = 0)
      BY <1>2, <2>1, <3>1
    <3> QED BY <1>9, <2>1, <2>4, <3>3, <3>5, <3>6, OwedLater
  <2> QED BY <2>5, <2>6
<1>17. ASSUME NEW q \in Requests PROVE HeldInv(q)'
  <2>1. /\ Holds(q)' => Holds(q) /\ request'[q].limiter = request[q].limiter
        /\ request'[q].at = "missed" => request[q].at = "missed" /\ request'[q].limiter = request[q].limiter
        /\ request'[q].at \in {"got", "charged"} => request[q].at \in {"got", "charged"}
    <3>1. CASE q = r
      <4>1. request'[q] = t
        BY <1>2, <1>13, <3>1
      <4>2. CASE t = Limits!Idling
        BY <4>1, <4>2 DEF Holds, Limits!Idling
      <4>3. CASE t.at = "charged" /\ t.limiter = k
        BY <1>2, <1>3, <3>1, <4>1, <4>3 DEF Holds
      <4> QED BY <1>13, <4>2, <4>3
    <3>2. CASE q # r
      <4>1. request'[q] = request[q]
        BY <1>2, <1>13, <3>2
      <4> QED BY <4>1 DEF Holds
    <3> QED BY <3>1, <3>2
  <2>2. HeldInv(q)
    BY DEF RateInv
  <2>3. ASSUME Holds(q)
        PROVE  /\ request[q].limiter \in 1..n
               /\ request[q].limiter # n =>
                    /\ current' = n /\ cleaner' = 0
                    /\ request[q].limiter = n - 1 /\ limiters'[n].seen = tick'
                    /\ \A b \in Limits!Buckets :
                        owed'[b] >= Limits!Tokens(n - 1, b)' + Limits!Tokens(n, b)' - Burst[b]
    <3>1. request[q].limiter \in 1..n /\ n \in 1..n
      BY <1>1, <2>2, <2>3 DEF HeldInv
    <3>2. CASE request[q].limiter # n
      <4>1. /\ current = n /\ cleaner = 0
            /\ request[q].limiter = n - 1 /\ limiters[n].seen = tick /\ n - 1 \in 1..n
            /\ \A b \in Limits!Buckets : owed[b] >= Limits!Tokens(n - 1, b) + Limits!Tokens(n, b) - Burst[b]
        BY <1>1, <2>2, <2>3, <3>1, <3>2 DEF HeldInv
      <4>2. limiters'[n].seen = tick'
        BY <1>2, <1>8, <3>1, <4>1
      <4>3. k = n \/ k = n - 1
        <5>1. HeldInv(r)
          BY DEF RateInv
        <5> QED BY <1>1, <1>2, <1>3, <5>1 DEF HeldInv
      <4>4. ASSUME NEW b \in Limits!Buckets
            PROVE  owed'[b] >= Limits!Tokens(n - 1, b)' + Limits!Tokens(n, b)' - Burst[b]
        <5>1. /\ Limits!Tokens(n - 1, b)' = Limits!Tokens(n - 1, b) - (IF n - 1 = k /\ b = c THEN 1 ELSE 0)
              /\ Limits!Tokens(n, b)' = Limits!Tokens(n, b) - (IF n = k /\ b = c THEN 1 ELSE 0)
          BY <1>11, <3>1, <4>1
        <5>2. Limits!Tokens(n - 1, b) \in Nat /\ Limits!Tokens(n, b) \in Nat /\ Burst[b] \in Nat
          BY <1>5, <3>1, <4>1
        <5>3. owed[b] >= Limits!Tokens(n - 1, b) + Limits!Tokens(n, b) - Burst[b]
          BY <4>1
        <5> QED BY <1>12, <4>3, <5>1, <5>2, <5>3
      <4> QED BY <1>2, <3>1, <4>1, <4>2, <4>4
    <3> QED BY <3>1, <3>2
  <2>4. ASSUME request'[q].at \in {"got", "charged"} PROVE limiters'[request[q].limiter].seen = tick'
    <3>1. request[q].limiter \in 1..n
      BY <2>1, <2>3, <2>4 DEF Holds
    <3> QED BY <1>2, <1>8, <2>1, <2>2, <2>4, <3>1 DEF HeldInv
  <2>5. request'[q].at \in {"got", "charged"} => Holds(q)'
    BY DEF Holds
  <2> QED BY <1>9, <2>1, <2>2, <2>3, <2>4, <2>5, HeldLater DEF HeldInv
<1>18. ASSUME apart' PROVE ApartInv'
  <2>1. ApartInv /\ request[r] # Limits!Idling /\ k = current /\ cleaner = 0
    BY <1>2, <1>3, <1>18 DEF RateInv, ApartInv, Holds, Limits!Idling
  <2>2. ASSUME NEW q \in Requests
        PROVE  (request'[q] # Limits!Idling => cleaner' = 0) /\ (Holds(q)' => request'[q].limiter = current')
    <3>1. CASE q = r
      <4>1. request'[q] = t
        BY <1>2, <1>13, <3>1
      <4> QED BY <1>2, <1>13, <2>1, <4>1 DEF Holds, Limits!Idling
    <3>2. CASE q # r
      <4>1. request'[q] = request[q]
        BY <1>2, <1>13, <3>2
      <4> QED BY <1>2, <2>1, <4>1 DEF ApartInv, Holds
    <3> QED BY <3>1, <3>2
  <2>3. k = n /\ n \in 1..n /\ current # 0
    BY <1>1, <1>2, <1>3, <2>1 DEF LimiterTypes
  <2>4. ASSUME NEW b \in Limits!Buckets PROVE owed'[b] = Limits!Tokens(n, b)'
    <3>1. owed[b] = Limits!Tokens(n, b)
      BY <1>1, <2>1, <2>3 DEF ApartInv
    <3>2. Limits!Tokens(n, b)' = Limits!Tokens(n, b) - (IF b = c THEN 1 ELSE 0)
      BY <1>11, <2>3
    <3> QED BY <1>12, <3>1, <3>2
  <2>5. ~(cleaner' # 0 \/ current' = 0)
    BY <1>2, <2>1, <2>3
  <2> QED BY <1>9, <2>2, <2>4, <2>5, ApartLater
<1> QED BY <1>9, <1>14, <1>15, <1>16, <1>17, <1>18 DEF RateInv

(* A stale limiter has had the time to fill, and so has the allowance.        *)
LEMMA RateFindStale == ASSUME Limits!Assumptions, RateInv, Limits!FindStale PROVE RateInv'
<1>1. PICK n \in Nat : n = Count
  BY DEF RateInv, LimiterTypes
<1>2. /\ LimiterTypes /\ limiters \in [1..n -> Limiters] /\ tick \in Nat
      /\ UNCHANGED <<tick, limiters, current, request, owed>> /\ apart' \in BOOLEAN
      /\ current = n /\ n \in 1..n /\ cleaner' = n
      /\ tick - limiters[n].seen > StaleAfter /\ limiters[n].seen \in Nat
  BY <1>1 DEF RateInv, LimiterTypes, Limits!FindStale, Limits!Stale, Limiters
<1>3. Count' = n
  BY <1>1, <1>2 DEF Count, Limits!Made
<1>4. LimiterTypes' /\ \A l \in 1..n : Counted(l)'
  BY <1>1, <1>2, <1>3 DEF RateInv, LimiterTypes, Counted
<1>5. ASSUME NEW b \in Limits!Buckets
      PROVE  /\ Limits!Tokens(n, b)' = Limits!Tokens(n, b)
             /\ Limits!Tokens(n, b) = Burst[b] /\ owed[b] = Burst[b] /\ owed'[b] = owed[b]
             /\ Burst[b] \in Nat /\ tick - limiters[n].seen - Burst[b] >= Burst[b]
  <2>1. OwedInv(b) /\ Counted(n) /\ StaleAfter >= 2 * Burst[b] /\ StaleAfter \in Nat /\ Burst[b] \in Nat /\ owed[b] \in Int
    BY <1>1, <1>2, BurstType DEF RateInv, Limits!Assumptions, LimiterTypes
  <2>2. tick - limiters[n].seen - Burst[b] >= Burst[b] /\ tick - limiters[n].seen >= Burst[b]
    BY <1>2, <2>1
  <2>3. Limits!Tokens(n, b) = Burst[b]
    BY <1>1, <1>2, <2>1, <2>2, TokensRange
  <2>4. owed[b] >= Limits!Smaller(Burst[b], tick - limiters[n].seen - Burst[b]) /\ owed[b] <= Burst[b]
    BY <1>1, <1>2, <2>1 DEF OwedInv
  <2>5. owed[b] = Burst[b]
    BY <1>2, <2>1, <2>2, <2>4 DEF Limits!Smaller
  <2> QED BY <1>2, <2>1, <2>2, <2>3, <2>5 DEF Limits!Tokens
<1>6. ASSUME NEW b \in Limits!Buckets PROVE OwedInv(b)'
  BY <1>2, <1>3, <1>5, OwedLater DEF Limits!Smaller
<1>7. ASSUME NEW q \in Requests PROVE HeldInv(q)'
  <2>1. HeldInv(q) /\ StaleAfter \in Nat
    BY DEF RateInv, Limits!Assumptions
  <2>2. Holds(q) => request[q].limiter = n
    BY <1>1, <1>2, <2>1 DEF HeldInv
  <2> QED BY <1>2, <1>3, <2>1, <2>2, HeldLater DEF HeldInv, Holds
<1>8. ASSUME apart' PROVE ApartInv'
  <2>1. ASSUME NEW q \in Requests PROVE request'[q] = Limits!Idling /\ ~Holds(q)'
    <3>1. request[q] = Limits!Idling
      BY <1>8 DEF Limits!FindStale
    <3> QED BY <1>2, <3>1 DEF Holds, Limits!Idling
  <2> QED BY <1>2, <1>3, <1>5, <2>1, ApartLater
<1> QED BY <1>3, <1>4, <1>6, <1>7, <1>8 DEF RateInv

LEMMA RateDelete == ASSUME Limits!Assumptions, RateInv, Limits!Delete PROVE RateInv'
<1>1. PICK n \in Nat : n = Count
  BY DEF RateInv, LimiterTypes
<1>2. /\ LimiterTypes /\ limiters \in [1..n -> Limiters] /\ tick \in Nat
      /\ UNCHANGED <<tick, limiters, request, owed>> /\ apart' = apart
      /\ n # 0 /\ cleaner # 0 /\ cleaner' = 0 /\ current' = 0
  BY <1>1 DEF RateInv, LimiterTypes, Limits!Delete
<1>3. Count' = n
  BY <1>1, <1>2 DEF Count, Limits!Made
<1>4. LimiterTypes' /\ \A l \in 1..n : Counted(l)'
  BY <1>1, <1>2, <1>3 DEF RateInv, LimiterTypes, Counted
<1>5. ASSUME NEW b \in Limits!Buckets PROVE OwedInv(b)'
  <2>1. OwedInv(b) /\ owed' = owed /\ Limits!Tokens(n, b)' = Limits!Tokens(n, b)
    BY <1>2 DEF RateInv, Limits!Tokens
  <2> QED BY <1>1, <1>2, <1>3, <2>1, OwedLater DEF OwedInv
<1>6. ASSUME NEW q \in Requests PROVE HeldInv(q)'
  <2>1. HeldInv(q)
    BY DEF RateInv
  <2>2. Holds(q) => request[q].limiter = n /\ n \in 1..n
    BY <1>1, <1>2, <2>1 DEF HeldInv
  <2> QED BY <1>2, <1>3, <2>1, <2>2, HeldLater DEF HeldInv, Holds
<1>7. ASSUME apart' PROVE ApartInv'
  <2>1. ApartInv
    BY <1>2, <1>7 DEF RateInv
  <2>2. ASSUME NEW q \in Requests PROVE request'[q] = Limits!Idling /\ ~Holds(q)'
    BY <1>2, <2>1 DEF ApartInv, Holds, Limits!Idling
  <2>3. ASSUME NEW b \in Limits!Buckets
        PROVE  /\ n # 0 => owed'[b] = Limits!Tokens(n, b)'
               /\ cleaner' # 0 \/ current' = 0 => owed'[b] = Burst[b]
    BY <1>1, <1>2, <2>1 DEF ApartInv, Limits!Tokens
  <2> QED BY <1>3, <2>2, <2>3, ApartLater
<1> QED BY <1>3, <1>4, <1>5, <1>6, <1>7 DEF RateInv

LEMMA RateNext == ASSUME Limits!Assumptions, RateInv, [Limits!Next]_(Limits!vars) PROVE RateInv'
<1>1. CASE UNCHANGED Limits!vars
  <2>1. UNCHANGED <<tick, limiters, current, request, cleaner, owed, apart>>
    BY <1>1 DEF Limits!vars
  <2>2. request' \in [Requests -> {Limits!Idling} \union Tracks] /\ apart \in BOOLEAN
    BY <2>1 DEF RateInv, LimiterTypes
  <2>3. \A q \in Requests : HeldInv(q)'
    BY <2>1, HeldSame DEF RateInv
  <2>4. ASSUME apart', NEW q \in Requests
        PROVE  /\ request'[q] # Limits!Idling => cleaner = 0
               /\ Holds(q)' => request'[q].limiter = current
    BY <2>1, <2>4 DEF RateInv, ApartInv, Holds
  <2> QED BY <2>1, <2>2, <2>3, <2>4, RestSame
<1>2. CASE Limits!Next
  <2>1. CASE Limits!Tick \/ Limits!FindStale \/ Limits!Delete
    BY <2>1, RateTick, RateFindStale, RateDelete
  <2>2. ASSUME NEW r \in Requests, NEW s \in BOOLEAN, Limits!Lookup(r, s) PROVE RateInv'
    BY <2>2, RateLookup
  <2>3. ASSUME NEW r \in Requests, Limits!LoadOrStore(r) PROVE RateInv'
    BY <2>3, RateLoad, RateStore
  <2>4. ASSUME NEW r \in Requests, Limits!Touch(r) \/ Limits!Allow(r) \/ Limits!Refuse(r) PROVE RateInv'
    BY <2>4, RateTouch, RateAllow, RateRefuse
  <2> QED BY <1>2, <2>1, <2>2, <2>3, <2>4 DEF Limits!Next
<1> QED BY <1>1, <1>2

LEMMA RateImplied == ASSUME Limits!Assumptions, RateInv PROVE Limits!LimiterInv
<1>1. PICK n \in Nat : n = Count
  BY DEF RateInv, LimiterTypes
<1>2. LimiterTypes /\ limiters \in [1..n -> Limiters] /\ Limits!Made = 1..n /\ tick \in 0..LastTick
  BY <1>1 DEF RateInv, LimiterTypes, Limits!Made
<1>3. ASSUME NEW l \in 1..n
      PROVE  /\ limiters[l].seen \in 0..tick /\ limiters[l].last \in 0..tick
             /\ \A b \in Limits!Buckets : limiters[l].tokens[b] \in 0..Burst[b]
  <2>1. limiters[l] \in Limiters /\ Counted(l)
    BY <1>1, <1>2 DEF RateInv
  <2> QED BY <1>2, <2>1, BurstType DEF Limiters, Counted
<1>4. ASSUME NEW b \in Limits!Buckets
      PROVE  owed[b] <= Burst[b] /\ owed[b] >= -Burst[b] /\ (apart => owed[b] >= 0)
  <2>1. OwedInv(b) /\ Burst[b] \in Nat /\ owed[b] \in Int /\ current \in {0, n}
    BY <1>1, <1>2, BurstType DEF RateInv, LimiterTypes
  <2>2. n # 0 => Limits!Tokens(n, b) \in 0..Burst[b]
    <3>1. n # 0 => n \in 1..n /\ Counted(n)
      BY <1>1 DEF RateInv
    <3> QED BY <1>1, <1>2, <3>1, TokensRange
  <2>3. owed[b] >= -Burst[b]
    BY <1>1, <2>1, <2>2 DEF OwedInv
  <2>4. apart => owed[b] >= 0
    <3>1. apart => (n # 0 => owed[b] = Limits!Tokens(n, b))
      BY <1>1 DEF RateInv, ApartInv
    <3> QED BY <1>1, <2>1, <2>2, <3>1 DEF OwedInv
  <2> QED BY <2>1, <2>3, <2>4 DEF OwedInv
<1>5. ASSUME NEW r \in Requests
      PROVE  request[r] = Limits!Idling \/
                /\ request[r].at \in {"missed", "loaded", "got", "charged"}
                /\ request[r].sensitive \in BOOLEAN /\ request[r].limiter \in Limits!Made \union {0}
  <2>1. CASE request[r] \in Tracks
    <3>1. request[r].at = "missed" \/ Holds(r)
      BY <2>1 DEF Tracks, Holds
    <3>2. HeldInv(r)
      BY DEF RateInv
    <3>3. request[r].limiter \in Limits!Made \union {0}
      BY <1>1, <1>2, <3>1, <3>2 DEF HeldInv
    <3> QED BY <2>1, <3>3 DEF Tracks
  <2> QED BY <1>2, <2>1 DEF LimiterTypes
<1>6. current \in Limits!Made \union {0} /\ cleaner \in Limits!Made \union {0} /\ apart \in BOOLEAN
  BY <1>1, <1>2 DEF LimiterTypes
<1>7. Limits!TypeOK
  BY <1>2, <1>3, <1>4, <1>5, <1>6 DEF Limits!TypeOK
<1> QED BY <1>4, <1>7 DEF Limits!LimiterInv, Limits!AtMostTwoLimiters, Limits!LimitHolds

(* The limiter promises what its runs check: a client is never allowed more   *)
(* than two limiters would, nor, apart from cleanups, more than one.          *)
THEOREM LimiterHolds == Limits!Spec => []LimiterInv
<1>1. Limits!Init => RateInv
  BY PartsAssumption, RateInit
<1>2. RateInv /\ [Limits!Next]_(Limits!vars) => RateInv'
  BY PartsAssumption, RateNext
<1>3. RateInv => LimiterInv
  BY PartsAssumption, RateImplied DEF LimiterInv
<1> QED BY <1>1, <1>2, <1>3, PTL DEF Limits!Spec

-----------------------------------------------------------------------------
(* The VPP rates, within a month. What is kept of a day is all of it: in      *)
(* memory, in the database, and in what a lookup has read or has to write.    *)
Halves == {"day", "evening"}
RateDays == 0..(MonthDays + 2)
RateHours == RateDays \X Halves
DayOf(d) == {d} \X Halves
WholeDays(X) ==
    X \subseteq RateHours /\ \A d \in RateDays : \A p, q \in Halves : <<d, p>> \in X => <<d, q>> \in X

LEMMA MonthNames ==
    /\ Month!AllDays = RateDays /\ Month!Hours = RateHours
    /\ MonthDays \in Nat /\ MonthDays >= 1 /\ MonthRecent \in Nat /\ MonthFaults \in Nat
    /\ \A S : Month!Of(S) = S \X Halves
    /\ \A d : Month!Of({d}) = DayOf(d)
<1>1. Month!Assumptions  BY PartsAssumption
<1>2. MonthDays \in Nat /\ MonthRecent \in Nat /\ MonthFaults \in Nat  BY <1>1 DEF Month!Assumptions
<1> QED
  BY <1>2, NamesAssumption DEF Month!AllDays, Month!Hours, Month!Of, RateDays, RateHours, DayOf, Halves

LEMMA WholeMeets ==
    ASSUME NEW X, NEW S, WholeDays(X) PROVE WholeDays(X \cap (S \X Halves))
BY DEF WholeDays, RateHours
LEMMA WholeJoins ==
    ASSUME NEW X, NEW Y, WholeDays(X), WholeDays(Y) PROVE WholeDays(X \union Y)
BY DEF WholeDays
LEMMA WholeRange ==
    ASSUME NEW S, S \subseteq RateDays PROVE WholeDays(S \X Halves)
BY DEF WholeDays, RateHours
LEMMA WholeNone == WholeDays({})
BY DEF WholeDays
LEMMA WholeHas ==
    ASSUME NEW X, NEW d \in RateDays, WholeDays(X), X \cap DayOf(d) # {}
    PROVE  X \cap DayOf(d) = DayOf(d)
<1>1. PICK h \in X \cap DayOf(d) : TRUE  OBVIOUS
<1>2. PICK p \in Halves : h = <<d, p>>  BY <1>1 DEF DayOf
<1>3. \A q \in Halves : <<d, q>> \in X  BY <1>1, <1>2 DEF WholeDays
<1>4. DayOf(d) \subseteq X
  <2> SUFFICES ASSUME NEW g \in DayOf(d) PROVE g \in X  OBVIOUS
  <2>1. PICK q \in Halves : g = <<d, q>>  BY DEF DayOf
  <2> QED  BY <1>3, <2>1
<1> QED  BY <1>4
LEMMA WholeSince ==
    ASSUME NEW X, NEW n, WholeDays(X) PROVE WholeDays({h \in X : h[1] >= n})
<1> SUFFICES ASSUME NEW d \in RateDays, NEW p \in Halves, NEW q \in Halves, <<d, p>> \in {h \in X : h[1] >= n}
             PROVE  <<d, q>> \in {h \in X : h[1] >= n}
  BY DEF WholeDays
<1>1. <<d, p>> \in X /\ d >= n  OBVIOUS
<1>2. <<d, q>> \in X  BY <1>1 DEF WholeDays
<1> QED  BY <1>1, <1>2

-----------------------------------------------------------------------------
(* A lookup k, while m is in memory and p is the last day posted.             *)
RateLookups == [at : {"read", "use", "page", "join", "filter", "write", "collect", "failed", "answered"},
                first : RateDays, last : RateDays, midnight : BOOLEAN, due : RateDays,
                read : SUBSET RateHours, write : SUBSET RateHours, got : SUBSET RateHours]
WithPage == {"filter", "write", "join", "collect"}
AskedDays(k) == {d \in Month!Asked(k) : d <= k.due}
LookupSound(k, m, p) ==
    /\ k.due <= p
    /\ WholeDays(k.read) /\ WholeDays(k.write)
    /\ k.read \union k.write \subseteq (0..p) \X Halves
    /\ k.at \in WithPage => \A d \in 0..k.due : m[d] = DayOf(d)
    /\ k.at = "answered" => AskedDays(k) \X Halves \subseteq k.got
MemorySound(m, p) ==
    m \in [RateDays -> SUBSET RateHours] /\ \A d \in RateDays : m[d] = {} \/ (m[d] = DayOf(d) /\ d <= p)
MonthSafe ==
    /\ today \in 1..MonthDays /\ posted \in today..(today + 1) /\ misses \in 0..MonthFaults
    /\ MemorySound(kept, posted)
    /\ WholeDays(months) /\ months \subseteq (0..posted) \X Halves
    /\ lookup \in [MonthCalls -> RateLookups \union {Month!Idle}]
    /\ \A c \in MonthCalls : lookup[c] # Month!Idle => LookupSound(lookup[c], kept, posted)

LEMMA IdleIs == Month!Idle \notin RateLookups
<1>1. \A k \in RateLookups : DOMAIN k = {"at", "first", "last", "midnight", "due", "read", "write", "got"}
  BY DEF RateLookups
<1>2. DOMAIN Month!Idle = {"at"}  BY DEF Month!Idle
<1>3. "first" # "at"  OBVIOUS
<1> QED  BY <1>1, <1>2, <1>3
LEMMA IdleAt == Month!Idle.at = "idle"
BY DEF Month!Idle

LEMMA AskedAreDays ==
    ASSUME NEW k \in RateLookups
    PROVE  /\ Month!Asked(k) \subseteq Month!Within(k) /\ Month!Within(k) \subseteq RateDays
           /\ AskedDays(k) \subseteq RateDays
<1>1. k.first \in RateDays /\ k.last \in RateDays  BY DEF RateLookups
<1>2. MonthDays \in Nat  BY MonthNames
<1> QED  BY <1>1, <1>2 DEF Month!Asked, Month!Within, AskedDays, RateDays

(* What memory has of some days answers for those of them that it has.        *)
LEMMA CachedHas ==
    ASSUME NEW p, MemorySound(kept, p), NEW S, S \subseteq RateDays, NEW T, T \subseteq S,
           \A d \in T : kept[d] = DayOf(d)
    PROVE  T \X Halves \subseteq Month!Cached(S) /\ Month!Cached(S) \subseteq RateHours
<1>1. ASSUME NEW h \in T \X Halves PROVE h \in Month!Cached(S)
  <2>1. PICK d \in T, q \in Halves : h = <<d, q>>  BY <1>1
  <2>2. h \in kept[d]  BY <2>1 DEF DayOf
  <2> QED  BY <2>1, <2>2 DEF Month!Cached
<1>2. Month!Cached(S) \subseteq RateHours  BY DEF Month!Cached, MemorySound
<1> QED  BY <1>1, <1>2

(* Memory that grows by whole days, and time that passes, take nothing away.  *)
Grows(m, p) ==
    /\ MemorySound(m, p) /\ posted <= p
    /\ \A d \in RateDays : m[d] = kept[d] \/ m[d] = DayOf(d)
LEMMA LookupStays ==
    ASSUME MonthSafe, NEW m, NEW p \in Int, Grows(m, p), NEW k \in RateLookups, LookupSound(k, kept, posted)
    PROVE  LookupSound(k, m, p)
<1>1. k.due \in RateDays /\ posted \in Int /\ MonthDays \in Nat  BY MonthNames DEF RateLookups, MonthSafe
<1>2. k.due \in Int /\ k.due >= 0 /\ k.due <= p  BY <1>1 DEF LookupSound, Grows, RateDays
<1>3. 0..k.due \subseteq RateDays  BY <1>1 DEF RateDays
<1>4. (0..posted) \X Halves \subseteq (0..p) \X Halves
  <2>1. posted <= p  BY DEF Grows
  <2>2. 0..posted \subseteq 0..p  BY <1>1, <2>1
  <2> QED  BY <2>2
<1>5. k.at \in WithPage => \A d \in 0..k.due : m[d] = DayOf(d)  BY <1>3 DEF LookupSound, Grows
<1> QED  BY <1>2, <1>4, <1>5 DEF LookupSound

(* One lookup goes on.                                                        *)
LEMMA OneLooksUp ==
    ASSUME MonthSafe, NEW c \in MonthCalls, NEW q \in RateLookups \union {Month!Idle},
           lookup' = [lookup EXCEPT ![c] = q], Grows(kept', posted),
           q # Month!Idle => LookupSound(q, kept', posted),
           today' = today, posted' = posted, misses' \in 0..MonthFaults,
           WholeDays(months'), months' \subseteq (0..posted) \X Halves
    PROVE  MonthSafe'
<1>1. MemorySound(kept', posted') /\ months' \subseteq (0..posted') \X Halves  BY DEF Grows
<1>2. lookup' \in [MonthCalls -> RateLookups \union {Month!Idle}]  BY DEF MonthSafe
<1>3. posted \in Int  BY MonthNames DEF MonthSafe
<1>4. ASSUME NEW e \in MonthCalls, lookup'[e] # Month!Idle PROVE LookupSound(lookup'[e], kept', posted')
  <2>1. CASE e = c
    <3>1. lookup'[e] = q  BY <2>1 DEF MonthSafe
    <3> QED  BY <1>4, <3>1
  <2>2. CASE e # c
    <3>1. lookup'[e] = lookup[e] /\ lookup[e] \in RateLookups  BY <1>4, <2>2 DEF MonthSafe
    <3>2. LookupSound(lookup[e], kept, posted)  BY <1>4, <3>1 DEF MonthSafe
    <3>3. LookupSound(lookup[e], kept', posted)  BY <1>3, <3>1, <3>2, LookupStays
    <3> QED  BY <3>1, <3>3
  <2> QED  BY <2>1, <2>2
<1>5. today' \in 1..MonthDays /\ posted' \in today'..(today' + 1)  BY DEF MonthSafe
<1> QED  BY <1>1, <1>2, <1>4, <1>5 DEF MonthSafe

LEMMA KeptGrows == ASSUME MonthSafe PROVE Grows(kept, posted)
<1>1. posted \in Int  BY MonthNames DEF MonthSafe
<1> QED  BY <1>1 DEF Grows, MonthSafe

LEMMA MonthFault == ASSUME MonthSafe, NEW f, Month!Fault(f) PROVE misses' \in 0..MonthFaults
BY MonthNames DEF MonthSafe, Month!Fault

-----------------------------------------------------------------------------
(* What each step does.                                                       *)
LEMMA MonthAsks ==
    ASSUME MonthSafe, NEW c \in MonthCalls, NEW first \in RateDays, NEW last \in RateDays, NEW midnight \in BOOLEAN,
           Month!Ask(c, first, last, midnight)
    PROVE  MonthSafe'
<1> DEFINE k == [at |-> "read", first |-> first, last |-> last, midnight |-> midnight, due |-> posted,
                 read |-> {}, write |-> {}, got |-> {}]
           g == Month!Cached(Month!Asked(k))
           q == [k EXCEPT !.at = "answered", !.got = g]
<1>1. posted \in RateDays /\ posted \in Int /\ MemorySound(kept, posted)
  BY MonthNames DEF MonthSafe, RateDays
<1>2. k \in RateLookups  BY <1>1 DEF RateLookups
<1>3. UNCHANGED <<today, posted, kept, months, misses>> /\ Grows(kept', posted)
  BY KeptGrows DEF Month!Ask
<1>4. misses' \in 0..MonthFaults /\ WholeDays(months') /\ months' \subseteq (0..posted) \X Halves
  BY <1>3 DEF MonthSafe
<1>5. CASE \A d \in Month!Within(k) : kept[d] # {}
  <2>1. lookup' = [lookup EXCEPT ![c] = q]  BY <1>5 DEF Month!Ask, Month!Put
  <2>2. Month!Asked(k) \subseteq Month!Within(k) /\ Month!Within(k) \subseteq RateDays /\ AskedDays(k) \subseteq Month!Asked(k)
    BY <1>2, AskedAreDays DEF AskedDays
  <2>3. \A d \in AskedDays(k) : kept[d] = DayOf(d)  BY <1>1, <1>5, <2>2 DEF MemorySound
  <2>4. AskedDays(k) \X Halves \subseteq g /\ g \subseteq RateHours
    <3>1. Month!Asked(k) \subseteq RateDays  BY <2>2
    <3> QED  BY <1>1, <2>2, <2>3, <3>1, CachedHas
  <2> HIDE DEF g
  <2>5. q \in RateLookups  BY <1>2, <2>4 DEF RateLookups
  <2>6. q.at = "answered" /\ q.got = g /\ q.due = posted /\ q.read = {} /\ q.write = {} /\ AskedDays(q) = AskedDays(k)
    BY DEF AskedDays, Month!Asked
  <2> HIDE DEF q
  <2>7. LookupSound(q, kept', posted)
    BY <1>1, <2>4, <2>6, WholeNone DEF LookupSound, WithPage
  <2> QED  BY <1>3, <1>4, <2>1, <2>5, <2>7, OneLooksUp
<1>6. CASE ~(\A d \in Month!Within(k) : kept[d] # {})
  <2>1. lookup' = [lookup EXCEPT ![c] = k]  BY <1>6 DEF Month!Ask, Month!Put
  <2>2. k.at = "read" /\ k.due = posted /\ k.read = {} /\ k.write = {}  OBVIOUS
  <2> HIDE DEF k
  <2>3. LookupSound(k, kept', posted)  BY <1>1, <2>2, WholeNone DEF LookupSound, WithPage
  <2> QED  BY <1>2, <1>3, <1>4, <2>1, <2>3, OneLooksUp
<1> QED  BY <1>5, <1>6

LEMMA MonthAsksAny ==
    ASSUME MonthSafe, NEW c \in MonthCalls, Month!AskCurrent(c) \/ Month!AskFuture(c) \/ Month!AskConfirmed(c)
    PROVE  MonthSafe'
<1>1. {today - 1, today, today + 1, today + 2} \subseteq RateDays  BY MonthNames DEF MonthSafe, RateDays
<1>2. CASE Month!AskCurrent(c)
  <2>1. Month!Ask(c, today, today + 1, TRUE)  BY <1>2 DEF Month!AskCurrent
  <2> QED  BY <1>1, <2>1, MonthAsks, Zenon
<1>3. CASE Month!AskFuture(c)
  <2>1. Month!Ask(c, today, today + 2, TRUE)  BY <1>3 DEF Month!AskFuture
  <2> QED  BY <1>1, <2>1, MonthAsks, Zenon
<1>4. CASE Month!AskConfirmed(c)
  <2>1. PICK f \in {today - 1, today}, l \in {today, today + 1} : Month!Ask(c, f, l, FALSE)
    BY <1>4 DEF Month!AskConfirmed
  <2>2. f \in RateDays /\ l \in RateDays  BY <1>1
  <2> QED  BY <2>1, <2>2, MonthAsks, Zenon
<1> QED  BY <1>2, <1>3, <1>4

(* The lookup at hand.                                                        *)
LEMMA LookupAtHand ==
    ASSUME MonthSafe, NEW c \in MonthCalls, lookup[c].at # "idle"
    PROVE  lookup[c] \in RateLookups /\ LookupSound(lookup[c], kept, posted)
<1>1. lookup[c] # Month!Idle  BY IdleAt
<1> QED  BY <1>1 DEF MonthSafe

LEMMA MonthReads == ASSUME MonthSafe, NEW c \in MonthCalls, Month!Read(c) PROVE MonthSafe'
<1> DEFINE k == lookup[c]
           r == months \cap Month!Of(Month!Within(k))
           q == [k EXCEPT !.at = "use", !.read = r]
           f == [k EXCEPT !.at = "page"]
<1>1. k.at = "read" /\ UNCHANGED <<today, posted, kept, months>>  BY DEF Month!Read
<1>2. k \in RateLookups /\ LookupSound(k, kept, posted)  BY <1>1, LookupAtHand
<1>3. Grows(kept', posted) /\ WholeDays(months') /\ months' \subseteq (0..posted) \X Halves /\ misses \in 0..MonthFaults
  BY <1>1, KeptGrows DEF MonthSafe
<1>4. CASE Month!Put(c, q) /\ misses' = misses
  <2>1. WholeDays(r) /\ r \subseteq (0..posted) \X Halves
    BY MonthNames, WholeMeets DEF MonthSafe
  <2>2. r \subseteq RateHours  BY <2>1 DEF WholeDays
  <2> HIDE DEF r, k
  <2>3. q \in RateLookups  BY <1>2, <2>2 DEF RateLookups
  <2>4. q.at = "use" /\ q.read = r /\ q.write = k.write /\ q.due = k.due  BY <1>2 DEF RateLookups
  <2> HIDE DEF q
  <2>5. LookupSound(q, kept', posted)  BY <1>1, <1>2, <2>1, <2>4 DEF LookupSound, WithPage
  <2> QED  BY <1>1, <1>3, <1>4, <2>3, <2>5, OneLooksUp DEF Month!Put
<1>5. CASE Month!Fault("read") /\ Month!Put(c, f)
  <2> HIDE DEF k
  <2>1. f \in RateLookups /\ f.at = "page" /\ f.read = k.read /\ f.write = k.write /\ f.due = k.due
    BY <1>2 DEF RateLookups
  <2> HIDE DEF f
  <2>2. LookupSound(f, kept', posted)  BY <1>1, <1>2, <2>1 DEF LookupSound, WithPage
  <2>3. misses' \in 0..MonthFaults  BY <1>5, MonthFault
  <2> QED  BY <1>1, <1>3, <1>5, <2>1, <2>2, <2>3, OneLooksUp DEF Month!Put
<1> QED  BY <1>4, <1>5 DEF Month!Read

LEMMA MonthUses == ASSUME MonthSafe, NEW c \in MonthCalls, Month!Use(c) PROVE MonthSafe'
<1> DEFINE k == lookup[c]
           g == k.read \cap Month!Of(Month!Asked(k))
           q == [k EXCEPT !.at = "answered", !.got = g, !.read = {}]
           f == [k EXCEPT !.at = "page", !.read = {}]
<1>1. k.at = "use" /\ UNCHANGED <<today, posted, months, misses>>  BY DEF Month!Use
<1>2. k \in RateLookups /\ LookupSound(k, kept, posted)  BY <1>1, LookupAtHand
<1>3. WholeDays(months') /\ months' \subseteq (0..posted) \X Halves /\ misses' \in 0..MonthFaults
      /\ MemorySound(kept, posted) /\ posted \in Int
  BY <1>1, MonthNames DEF MonthSafe
<1>4. \A d \in RateDays : Month!Held(k, d) = {} \/ (Month!Held(k, d) = DayOf(d) /\ d <= posted)
  <2> TAKE d \in RateDays
  <2>1. Month!Held(k, d) = k.read \cap DayOf(d)  BY MonthNames DEF Month!Held
  <2>2. WholeDays(k.read) /\ k.read \subseteq (0..posted) \X Halves  BY <1>2 DEF LookupSound
  <2>3. CASE k.read \cap DayOf(d) # {}
    <3>1. k.read \cap DayOf(d) = DayOf(d)  BY <2>2, <2>3, WholeHas
    <3>2. d \in 0..posted  BY <2>2, <2>3 DEF DayOf
    <3>3. d <= posted  BY <1>3, <3>2
    <3> QED  BY <2>1, <3>1, <3>3
  <2> QED  BY <2>1, <2>3
<1>5. kept' = [d \in RateDays |-> IF Month!Held(k, d) # {} THEN Month!Held(k, d) ELSE kept[d]]
  BY MonthNames DEF Month!Use
<1>6. \A d \in RateDays : DayOf(d) \subseteq RateHours  BY DEF DayOf, RateHours
<1>7. Grows(kept', posted)
  <2>1. \A d \in RateDays : kept'[d] = kept[d] \/ (kept'[d] = DayOf(d) /\ d <= posted)  BY <1>4, <1>5
  <2>2. kept' \in [RateDays -> SUBSET RateHours]
    <3>1. \A d \in RateDays : (IF Month!Held(k, d) # {} THEN Month!Held(k, d) ELSE kept[d]) \in SUBSET RateHours
      BY <1>3, <1>4, <1>6 DEF MemorySound
    <3> QED  BY <1>5, <3>1
  <2> QED  BY <1>3, <2>1, <2>2 DEF Grows, MemorySound
<1>8. CASE \A d \in Month!Within(k) : Month!Held(k, d) # {}
  <2>1. lookup' = [lookup EXCEPT ![c] = q]  BY <1>8 DEF Month!Use, Month!Put
  <2>2. g \subseteq RateHours
    BY <1>2 DEF LookupSound, WholeDays
  <2>3. AskedDays(k) \X Halves \subseteq g
    <3>1. Month!Of(Month!Asked(k)) = Month!Asked(k) \X Halves  BY MonthNames
    <3> SUFFICES ASSUME NEW h \in AskedDays(k) \X Halves PROVE h \in k.read /\ h \in Month!Asked(k) \X Halves
      BY <3>1
    <3>2. PICK d \in AskedDays(k), p \in Halves : h = <<d, p>>  OBVIOUS
    <3>3. d \in Month!Asked(k) /\ d \in Month!Within(k) /\ d \in RateDays
      BY <1>2, AskedAreDays DEF AskedDays
    <3>4. Month!Held(k, d) = DayOf(d) /\ Month!Held(k, d) \subseteq k.read  BY <1>4, <1>8, <3>3 DEF Month!Held
    <3> QED  BY <3>2, <3>3, <3>4 DEF DayOf
  <2> HIDE DEF g, k
  <2>4. q \in RateLookups
    <3> DEFINE q1 == [k EXCEPT !.at = "answered"]
               q2 == [q1 EXCEPT !.got = g]
               q3 == [q2 EXCEPT !.read = {}]
    <3>1. q1 \in RateLookups  BY <1>2 DEF RateLookups
    <3> HIDE DEF q1
    <3>2. q2 \in RateLookups  BY <2>2, <3>1 DEF RateLookups
    <3> HIDE DEF q2
    <3>3. q3 \in RateLookups  BY <3>2 DEF RateLookups
    <3>4. q3 = q  BY DEF q1, q2
    <3> QED  BY <3>3, <3>4
  <2>5. q.at = "answered" /\ q.got = g /\ q.read = {} /\ q.write = k.write /\ q.due = k.due /\ AskedDays(q) = AskedDays(k)
    BY <1>2 DEF RateLookups, AskedDays, Month!Asked
  <2> HIDE DEF q
  <2>6. LookupSound(q, kept', posted)
    BY <1>2, <2>3, <2>5, WholeNone DEF LookupSound, WithPage
  <2> QED  BY <1>1, <1>3, <1>7, <2>1, <2>4, <2>6, OneLooksUp
<1>9. CASE ~(\A d \in Month!Within(k) : Month!Held(k, d) # {})
  <2>1. lookup' = [lookup EXCEPT ![c] = f]  BY <1>9 DEF Month!Use, Month!Put
  <2> HIDE DEF k
  <2>2. f \in RateLookups
    <3> DEFINE f1 == [k EXCEPT !.at = "page"]
               f2 == [f1 EXCEPT !.read = {}]
    <3>1. f1 \in RateLookups  BY <1>2 DEF RateLookups
    <3> HIDE DEF f1
    <3>2. f2 \in RateLookups  BY <3>1 DEF RateLookups
    <3>3. f2 = f  BY DEF f1
    <3> QED  BY <3>2, <3>3
  <2>3. f.at = "page" /\ f.read = {} /\ f.write = k.write /\ f.due = k.due  BY <1>2 DEF RateLookups
  <2> HIDE DEF f
  <2>4. LookupSound(f, kept', posted)  BY <1>2, <2>3, WholeNone DEF LookupSound, WithPage
  <2> QED  BY <1>1, <1>3, <1>7, <2>1, <2>2, <2>4, OneLooksUp
<1> QED  BY <1>8, <1>9

LEMMA MonthJoins == ASSUME MonthSafe, NEW c \in MonthCalls, Month!Join(c) PROVE MonthSafe'
<1> DEFINE k == lookup[c]
<1>1. k.at = "page" /\ UNCHANGED <<today, posted, kept, months, misses>>  BY DEF Month!Join
<1>2. k \in RateLookups /\ LookupSound(k, kept, posted)  BY <1>1, LookupAtHand
<1>3. PICK d \in MonthCalls :
        Month!Fetching(d) /\ lookup' = [lookup EXCEPT ![c] = [k EXCEPT !.at = "join", !.due = lookup[d].due]]
  BY DEF Month!Join, Month!Put
<1> DEFINE e == lookup[d]
           q == [k EXCEPT !.at = "join", !.due = e.due]
<1>4. e.at \in {"filter", "write"}  BY <1>3 DEF Month!Fetching
<1>5. e \in RateLookups /\ LookupSound(e, kept, posted)  BY <1>4, LookupAtHand
<1>6. lookup' = [lookup EXCEPT ![c] = q]  BY <1>3
<1>7. /\ Grows(kept', posted) /\ WholeDays(months') /\ months' \subseteq (0..posted) \X Halves
      /\ misses' \in 0..MonthFaults
  BY <1>1, KeptGrows DEF MonthSafe
<1> HIDE DEF k, e
<1>8. q \in RateLookups
  <2> DEFINE q1 == [k EXCEPT !.at = "join"]
             q2 == [q1 EXCEPT !.due = e.due]
  <2>1. q1 \in RateLookups /\ e.due \in RateDays  BY <1>2, <1>5 DEF RateLookups
  <2> HIDE DEF q1
  <2>2. q2 \in RateLookups  BY <2>1 DEF RateLookups
  <2>3. q2 = q  BY DEF q1
  <2> QED  BY <2>2, <2>3
<1>9. q.at = "join" /\ q.due = e.due /\ q.read = k.read /\ q.write = k.write  BY <1>2 DEF RateLookups
<1> HIDE DEF q
<1>10. LookupSound(q, kept', posted)  BY <1>1, <1>2, <1>4, <1>5, <1>9 DEF LookupSound, WithPage
<1> QED  BY <1>1, <1>6, <1>7, <1>8, <1>10, OneLooksUp

LEMMA MonthPages == ASSUME MonthSafe, NEW c \in MonthCalls, Month!Page(c) PROVE MonthSafe'
<1> DEFINE k == lookup[c]
           w == (0..posted) \X Halves
           q == [k EXCEPT !.at = "filter", !.due = posted, !.write = w]
           f == [k EXCEPT !.at = "failed"]
<1>1. k.at = "page" /\ UNCHANGED <<today, posted, months>>  BY DEF Month!Page
<1>2. k \in RateLookups /\ LookupSound(k, kept, posted)  BY <1>1, LookupAtHand
<1>3. /\ WholeDays(months') /\ months' \subseteq (0..posted) \X Halves /\ misses \in 0..MonthFaults
      /\ MemorySound(kept, posted) /\ posted \in Int /\ posted \in RateDays /\ 0..posted \subseteq RateDays
  BY <1>1, MonthNames DEF MonthSafe, RateDays
<1>4. CASE /\ kept' = [d \in Month!AllDays |-> IF d <= posted THEN Month!Of({d}) ELSE kept[d]]
           /\ Month!Put(c, [k EXCEPT !.at = "filter", !.due = posted, !.write = Month!Of(0..posted)])
           /\ misses' = misses
  <2>1. kept' = [d \in RateDays |-> IF d <= posted THEN DayOf(d) ELSE kept[d]]
    <3>1. \A d \in RateDays : Month!Of({d}) = DayOf(d)  BY MonthNames
    <3>2. Month!AllDays = RateDays  BY MonthNames
    <3> QED  BY <1>4, <3>1, <3>2
  <2>2. lookup' = [lookup EXCEPT ![c] = q]  BY <1>4, MonthNames DEF Month!Put
  <2>3. \A d \in RateDays : DayOf(d) \subseteq RateHours  BY DEF DayOf, RateHours
  <2>4. Grows(kept', posted)
    <3>1. \A d \in RateDays : (IF d <= posted THEN DayOf(d) ELSE kept[d]) \in SUBSET RateHours
      BY <1>3, <2>3 DEF MemorySound
    <3>2. kept' \in [RateDays -> SUBSET RateHours]  BY <2>1, <3>1
    <3>3. \A d \in RateDays : kept'[d] = IF d <= posted THEN DayOf(d) ELSE kept[d]  BY <2>1
    <3> QED  BY <1>3, <3>2, <3>3 DEF Grows, MemorySound
  <2>5. \A d \in 0..posted : kept'[d] = DayOf(d)
    <3> TAKE d \in 0..posted
    <3>1. d \in RateDays /\ d <= posted  BY <1>3
    <3> QED  BY <2>1, <3>1
  <2>6. WholeDays(w) /\ w \subseteq RateHours
    <3>1. WholeDays(w)  BY <1>3, WholeRange
    <3> QED  BY <3>1 DEF WholeDays
  <2> HIDE DEF w, k
  <2>7. q \in RateLookups
    <3> DEFINE q1 == [k EXCEPT !.at = "filter"]
               q2 == [q1 EXCEPT !.due = posted]
               q3 == [q2 EXCEPT !.write = w]
    <3>1. q1 \in RateLookups  BY <1>2 DEF RateLookups
    <3> HIDE DEF q1
    <3>2. q2 \in RateLookups  BY <1>3, <3>1 DEF RateLookups
    <3> HIDE DEF q2
    <3>3. q3 \in RateLookups  BY <2>6, <3>2 DEF RateLookups
    <3>4. q3 = q  BY DEF q1, q2
    <3> QED  BY <3>3, <3>4
  <2>8. q.at = "filter" /\ q.due = posted /\ q.read = k.read /\ q.write = w  BY <1>2 DEF RateLookups
  <2> HIDE DEF q
  <2>9. LookupSound(q, kept', posted)
    BY <1>2, <1>3, <2>5, <2>6, <2>8 DEF LookupSound, WithPage, w
  <2> QED  BY <1>1, <1>3, <1>4, <2>2, <2>4, <2>7, <2>9, OneLooksUp
<1>5. CASE Month!Fault("page") /\ Month!Put(c, f) /\ kept' = kept
  <2>1. Grows(kept', posted)  BY <1>5, KeptGrows
  <2>2. misses' \in 0..MonthFaults  BY <1>5, MonthFault
  <2> HIDE DEF k
  <2>3. f \in RateLookups /\ f.at = "failed" /\ f.read = k.read /\ f.write = k.write /\ f.due = k.due
    BY <1>2 DEF RateLookups
  <2> HIDE DEF f
  <2>4. LookupSound(f, kept', posted)  BY <1>2, <2>3 DEF LookupSound, WithPage
  <2> QED  BY <1>1, <1>3, <1>5, <2>1, <2>2, <2>3, <2>4, OneLooksUp DEF Month!Put
<1> QED  BY <1>4, <1>5 DEF Month!Page

LEMMA MonthFilters == ASSUME MonthSafe, NEW c \in MonthCalls, Month!Filter(c) PROVE MonthSafe'
<1> DEFINE k == lookup[c]
<1>1. k.at = "filter" /\ UNCHANGED <<today, posted, kept, months>>  BY DEF Month!Filter
<1>2. k \in RateLookups /\ LookupSound(k, kept, posted)  BY <1>1, LookupAtHand
<1>3. /\ Grows(kept', posted) /\ WholeDays(months') /\ months' \subseteq (0..posted) \X Halves
      /\ misses \in 0..MonthFaults
  BY <1>1, KeptGrows DEF MonthSafe
<1>4. ASSUME NEW w, WholeDays(w), w \subseteq k.write,
             lookup' = [lookup EXCEPT ![c] = [k EXCEPT !.at = "write", !.write = w]], misses' \in 0..MonthFaults
      PROVE  MonthSafe'
  <2> DEFINE q == [k EXCEPT !.at = "write", !.write = w]
  <2>1. w \subseteq RateHours  BY <1>4 DEF WholeDays
  <2> HIDE DEF k
  <2>2. q \in RateLookups
    <3> DEFINE q1 == [k EXCEPT !.at = "write"]
               q2 == [q1 EXCEPT !.write = w]
    <3>1. q1 \in RateLookups  BY <1>2 DEF RateLookups
    <3> HIDE DEF q1
    <3>2. q2 \in RateLookups  BY <2>1, <3>1 DEF RateLookups
    <3>3. q2 = q  BY DEF q1
    <3> QED  BY <3>2, <3>3
  <2>3. q.at = "write" /\ q.due = k.due /\ q.read = k.read /\ q.write = w  BY <1>2 DEF RateLookups
  <2>4. lookup' = [lookup EXCEPT ![c] = q]  BY <1>4
  <2> HIDE DEF q
  <2>5. LookupSound(q, kept', posted)  BY <1>1, <1>2, <1>4, <2>3 DEF LookupSound, WithPage
  <2> QED  BY <1>1, <1>3, <1>4, <2>2, <2>4, <2>5, OneLooksUp
<1> DEFINE since == today - MonthRecent
           w == IF months \cap Month!Of(since..today) # {} THEN {h \in k.write : h[1] >= since} ELSE k.write
<1>5. CASE Month!Put(c, [k EXCEPT !.at = "write", !.write = w]) /\ misses' = misses
  <2>1. WholeDays(w) /\ w \subseteq k.write
    <3>1. WholeDays(k.write)  BY <1>2 DEF LookupSound
    <3>2. WholeDays({h \in k.write : h[1] >= since})  BY <3>1, WholeSince
    <3> QED  BY <3>1, <3>2
  <2> HIDE DEF w, k
  <2> QED  BY <1>3, <1>4, <1>5, <2>1 DEF Month!Put, k
<1>6. CASE Month!Fault("read") /\ Month!Put(c, [k EXCEPT !.at = "write"])
  <2>1. [k EXCEPT !.at = "write"] = [k EXCEPT !.at = "write", !.write = k.write]  BY <1>2 DEF RateLookups
  <2>2. misses' \in 0..MonthFaults /\ WholeDays(k.write)  BY <1>2, <1>6, MonthFault DEF LookupSound
  <2> QED  BY <1>4, <1>6, <2>1, <2>2 DEF Month!Put
<1>7. \/ Month!Put(c, [k EXCEPT !.at = "write", !.write = w]) /\ misses' = misses
      \/ Month!Fault("read") /\ Month!Put(c, [k EXCEPT !.at = "write"])
  BY <1>2 DEF Month!Filter, RateLookups
<1> QED  BY <1>5, <1>6, <1>7

(* All who waited for a page collect from memory.                             *)
LEMMA MonthLands ==
    ASSUME MonthSafe, NEW c \in MonthCalls, lookup[c].at = "write", Month!Land(c),
           UNCHANGED <<today, posted, kept, months>>, misses' \in 0..MonthFaults
    PROVE  MonthSafe'
<1>1. Grows(kept, posted) /\ posted \in Int  BY KeptGrows, MonthNames DEF MonthSafe
<1>2. ASSUME NEW d \in MonthCalls
      PROVE  \/ lookup'[d] = lookup[d]
             \/ lookup'[d] \in RateLookups /\ LookupSound(lookup'[d], kept, posted)
  <2> DEFINE k == lookup[d]
             q == [k EXCEPT !.at = "collect", !.write = {}]
  <2>1. CASE d = c \/ k.at = "join"
    <3>1. lookup'[d] = q  BY <2>1 DEF Month!Land
    <3>2. k.at \in {"write", "join"}  BY <2>1
    <3>3. k \in RateLookups /\ LookupSound(k, kept, posted)  BY <3>2, LookupAtHand
    <3> HIDE DEF k
    <3>4. q \in RateLookups
      <4> DEFINE q1 == [k EXCEPT !.at = "collect"]
                 q2 == [q1 EXCEPT !.write = {}]
      <4>1. q1 \in RateLookups  BY <3>3 DEF RateLookups
      <4> HIDE DEF q1
      <4>2. q2 \in RateLookups  BY <4>1 DEF RateLookups
      <4>3. q2 = q  BY DEF q1
      <4> QED  BY <4>2, <4>3
    <3>5. q.at = "collect" /\ q.due = k.due /\ q.read = k.read /\ q.write = {}  BY <3>3 DEF RateLookups
    <3> HIDE DEF q
    <3>6. LookupSound(q, kept, posted)  BY <3>2, <3>3, <3>5, WholeNone DEF LookupSound, WithPage
    <3> QED  BY <3>1, <3>4, <3>6
  <2>2. CASE ~(d = c \/ k.at = "join")  BY <2>2 DEF Month!Land
  <2> QED  BY <2>1, <2>2
<1>3. lookup' \in [MonthCalls -> RateLookups \union {Month!Idle}]
  <2>1. DOMAIN lookup' = MonthCalls /\ lookup' = [d \in MonthCalls |-> lookup'[d]]  BY DEF Month!Land
  <2>2. \A d \in MonthCalls : lookup'[d] \in RateLookups \union {Month!Idle}  BY <1>2 DEF MonthSafe
  <2> QED  BY <2>1, <2>2
<1>4. \A d \in MonthCalls : lookup'[d] # Month!Idle => LookupSound(lookup'[d], kept, posted)
  BY <1>2 DEF MonthSafe
<1> QED  BY <1>3, <1>4 DEF MonthSafe

LEMMA MonthWrites == ASSUME MonthSafe, NEW c \in MonthCalls, Month!Write(c) PROVE MonthSafe'
<1> DEFINE k == lookup[c]
<1>1. k.at = "write" /\ UNCHANGED <<today, posted, kept>>  BY DEF Month!Write
<1>2. k \in RateLookups /\ LookupSound(k, kept, posted)  BY <1>1, LookupAtHand
<1> DEFINE m == CHOOSE n \in Month!Months : /\ \E h \in k.write : Month!MonthOf(h) = n
                                            /\ \A h \in k.write : n <= Month!MonthOf(h)
           ofMonth == {h \in k.write : Month!MonthOf(h) = m}
           q == [k EXCEPT !.write = k.write \ ofMonth]
<1>3. CASE /\ k.write # {}
           /\ months' = months \union ofMonth
           /\ lookup' = [lookup EXCEPT ![c] = [lookup[c] EXCEPT !.write = @ \ ofMonth]]
           /\ misses' = misses
  <2>1. \A h \in RateHours : Month!MonthOf(h) = 1
    <3> TAKE h \in RateHours
    <3>1. h[1] \in 0..(MonthDays + 2) /\ MonthDays \in Nat  BY MonthNames DEF RateHours, RateDays
    <3>2. h[1] < MonthDays + 3  BY <3>1
    <3> QED  BY <3>2 DEF Month!MonthOf
  <2>2. WholeDays(k.write) /\ k.write \subseteq RateHours /\ k.write \subseteq (0..posted) \X Halves
    BY <1>2 DEF LookupSound, WholeDays
  <2>3. m = 1
    <3>1. PICK h \in k.write : TRUE  BY <1>3
    <3>2. \A g \in k.write : Month!MonthOf(g) = 1  BY <2>1, <2>2
    <3>3. \A n \in Month!Months : (\E g \in k.write : Month!MonthOf(g) = n) /\ (\A g \in k.write : n <= Month!MonthOf(g))
                                   <=> n = 1
      BY <3>1, <3>2 DEF Month!Months
    <3> QED  BY <3>3 DEF Month!Months
  <2>4. ofMonth = k.write  BY <2>1, <2>2, <2>3
  <2> HIDE DEF ofMonth, m, k
  <2>5. lookup' = [lookup EXCEPT ![c] = q]  BY <1>3 DEF k
  <2>6. q = [k EXCEPT !.write = {}]  BY <2>4
  <2> HIDE DEF q
  <2>7. q \in RateLookups /\ q.at = "write" /\ q.due = k.due /\ q.read = k.read /\ q.write = {}
    BY <1>1, <1>2, <2>6 DEF RateLookups
  <2>8. Grows(kept', posted) /\ misses' \in 0..MonthFaults
    BY <1>1, <1>3, KeptGrows DEF MonthSafe
  <2>9. WholeDays(months') /\ months' \subseteq (0..posted) \X Halves
    BY <1>3, <2>2, <2>4, WholeJoins DEF MonthSafe
  <2>10. LookupSound(q, kept', posted)  BY <1>1, <1>2, <2>7, WholeNone DEF LookupSound, WithPage
  <2> QED  BY <1>1, <2>5, <2>7, <2>8, <2>9, <2>10, OneLooksUp
<1>4. CASE Month!Land(c) /\ months' = months /\ misses' \in 0..MonthFaults
  BY <1>1, <1>4, MonthLands
<1>5. CASE k.write = {} /\ Month!Land(c) /\ UNCHANGED <<months, misses>>
  BY <1>4, <1>5 DEF MonthSafe
<1>6. CASE k.write # {} /\ Month!Fault("write") /\ Month!Land(c) /\ UNCHANGED months
  BY <1>4, <1>6, MonthFault
<1> QED  BY <1>3, <1>5, <1>6 DEF Month!Write, Month!Put

LEMMA MonthCollects == ASSUME MonthSafe, NEW c \in MonthCalls, Month!Collect(c) PROVE MonthSafe'
<1> DEFINE k == lookup[c]
           g == Month!Cached(Month!Asked(k))
           q == [k EXCEPT !.at = "answered", !.got = g]
<1>1. k.at = "collect" /\ UNCHANGED <<today, posted, kept, months, misses>> /\ lookup' = [lookup EXCEPT ![c] = q]
  BY DEF Month!Collect, Month!Put
<1>2. k \in RateLookups /\ LookupSound(k, kept, posted)  BY <1>1, LookupAtHand
<1>3. /\ Grows(kept', posted) /\ WholeDays(months') /\ months' \subseteq (0..posted) \X Halves
      /\ misses' \in 0..MonthFaults /\ MemorySound(kept, posted) /\ posted \in Int
  BY <1>1, KeptGrows, MonthNames DEF MonthSafe
<1>4. Month!Asked(k) \subseteq RateDays /\ AskedDays(k) \subseteq Month!Asked(k)
  BY <1>2, AskedAreDays DEF AskedDays
<1>5. \A d \in AskedDays(k) : kept[d] = DayOf(d)
  <2> TAKE d \in AskedDays(k)
  <2>1. d \in RateDays /\ d <= k.due /\ k.due \in RateDays  BY <1>2, <1>4 DEF AskedDays, RateLookups
  <2>2. d \in 0..k.due  BY <2>1, MonthNames DEF RateDays
  <2> QED  BY <1>1, <1>2, <2>2 DEF LookupSound, WithPage
<1>6. AskedDays(k) \X Halves \subseteq g /\ g \subseteq RateHours  BY <1>3, <1>4, <1>5, CachedHas
<1> HIDE DEF g, k
<1>7. q \in RateLookups
  <2> DEFINE q1 == [k EXCEPT !.at = "answered"]
             q2 == [q1 EXCEPT !.got = g]
  <2>1. q1 \in RateLookups  BY <1>2 DEF RateLookups
  <2> HIDE DEF q1
  <2>2. q2 \in RateLookups  BY <1>6, <2>1 DEF RateLookups
  <2>3. q2 = q  BY DEF q1
  <2> QED  BY <2>2, <2>3
<1>8. q.at = "answered" /\ q.got = g /\ q.due = k.due /\ q.read = k.read /\ q.write = k.write /\ AskedDays(q) = AskedDays(k)
  BY <1>2 DEF RateLookups, AskedDays, Month!Asked
<1> HIDE DEF q
<1>9. LookupSound(q, kept', posted)  BY <1>1, <1>2, <1>6, <1>8 DEF LookupSound, WithPage
<1> QED  BY <1>1, <1>3, <1>7, <1>9, OneLooksUp

LEMMA MonthEnds == ASSUME MonthSafe, NEW c \in MonthCalls, Month!Done(c) PROVE MonthSafe'
<1>1. UNCHANGED <<today, posted, kept, months, misses>> /\ lookup' = [lookup EXCEPT ![c] = Month!Idle]
  BY DEF Month!Done, Month!Put
<1>2. /\ Grows(kept', posted) /\ WholeDays(months') /\ months' \subseteq (0..posted) \X Halves
      /\ misses' \in 0..MonthFaults
  BY <1>1, KeptGrows DEF MonthSafe
<1>3. Month!Idle \in RateLookups \union {Month!Idle}  OBVIOUS
<1> HIDE DEF Month!Idle
<1> DEFINE q == Month!Idle
<1>4. q \in RateLookups \union {Month!Idle} /\ (q # Month!Idle => LookupSound(q, kept', posted))
      /\ lookup' = [lookup EXCEPT ![c] = q]
  BY <1>1
<1> HIDE DEF q
<1> QED  BY <1>1, <1>2, <1>4, OneLooksUp

LEMMA MonthPasses == ASSUME MonthSafe, Month!Post \/ Month!Midnight PROVE MonthSafe'
<1>1. /\ UNCHANGED <<kept, months, lookup, misses>> /\ posted <= posted'
      /\ today' \in 1..MonthDays /\ posted' \in today'..(today' + 1) /\ posted' \in Int
  BY MonthNames DEF MonthSafe, Month!Post, Month!Midnight
<1>2. posted \in Int  BY MonthNames DEF MonthSafe
<1>3. Grows(kept, posted')
  <2>1. \A d \in RateDays : d <= posted => d <= posted'  BY <1>1, <1>2 DEF RateDays
  <2> QED  BY <1>1, <2>1 DEF Grows, MonthSafe, MemorySound
<1>4. months \subseteq (0..posted') \X Halves
  <2>1. 0..posted \subseteq 0..posted'  BY <1>1, <1>2
  <2> QED  BY <2>1 DEF MonthSafe
<1>5. \A c \in MonthCalls : lookup[c] # Month!Idle => LookupSound(lookup[c], kept, posted')
  <2> TAKE c \in MonthCalls
  <2> HAVE lookup[c] # Month!Idle
  <2>1. lookup[c] \in RateLookups /\ LookupSound(lookup[c], kept, posted)  BY DEF MonthSafe
  <2> QED  BY <1>1, <1>3, <2>1, LookupStays
<1> QED  BY <1>1, <1>3, <1>4, <1>5 DEF MonthSafe, Grows

LEMMA NothingKept == ASSUME NEW p PROVE MemorySound([d \in Month!AllDays |-> {}], p)
<1>1. [d \in RateDays |-> {}] \in [RateDays -> SUBSET RateHours] /\ \A d \in RateDays : [e \in RateDays |-> {}][d] = {}
  OBVIOUS
<1> QED  BY <1>1, MonthNames DEF MemorySound

LEMMA MonthRestarts == ASSUME MonthSafe, Month!Restart PROVE MonthSafe'
<1>1. /\ UNCHANGED <<today, posted, months>> /\ kept' = [d \in Month!AllDays |-> {}]
      /\ lookup' = [c \in MonthCalls |-> Month!Idle] /\ Month!Fault("restart")
  BY DEF Month!Restart
<1>2. misses' \in 0..MonthFaults  BY <1>1, MonthFault
<1>3. MemorySound(kept', posted)  BY <1>1, NothingKept
<1> QED  BY <1>1, <1>2, <1>3 DEF MonthSafe

LEMMA MonthFirst == ASSUME Month!Init PROVE MonthSafe
<1>1. /\ today = 1 /\ posted = 1 /\ misses = 0 /\ kept = [d \in Month!AllDays |-> {}]
      /\ lookup = [c \in MonthCalls |-> Month!Idle]
  BY DEF Month!Init
<1>2. PICK days \in {{}, {0}, {0, 1}} : months = days \X Halves  BY MonthNames DEF Month!Init
<1>3. days \subseteq RateDays /\ days \subseteq 0..1  BY <1>2, MonthNames DEF RateDays
<1>4. WholeDays(months) /\ months \subseteq (0..1) \X Halves  BY <1>2, <1>3, WholeRange
<1>5. MemorySound(kept, posted)  BY <1>1, NothingKept
<1>6. today \in 1..MonthDays /\ posted \in today..(today + 1) /\ misses \in 0..MonthFaults
  BY <1>1, MonthNames
<1> QED  BY <1>1, <1>4, <1>5, <1>6 DEF MonthSafe

LEMMA MonthNext == MonthSafe /\ [Month!Next]_vpp => MonthSafe'
<1> SUFFICES ASSUME MonthSafe, [Month!Next]_vpp PROVE MonthSafe'  OBVIOUS
<1>1. CASE UNCHANGED vpp  BY <1>1 DEF vpp, MonthSafe
<1>2. CASE Month!Post \/ Month!Midnight  BY <1>2, MonthPasses
<1>3. CASE Month!Restart  BY <1>3, MonthRestarts
<1>4. ASSUME NEW c \in MonthCalls,
             \/ Month!AskCurrent(c) \/ Month!AskFuture(c) \/ Month!AskConfirmed(c)
             \/ Month!Read(c) \/ Month!Use(c) \/ Month!Join(c) \/ Month!Page(c) \/ Month!Filter(c)
             \/ Month!Write(c) \/ Month!Collect(c) \/ Month!Done(c)
      PROVE  MonthSafe'
  BY <1>4, MonthAsksAny, MonthReads, MonthUses, MonthJoins, MonthPages, MonthFilters, MonthWrites, MonthCollects,
     MonthEnds
<1> QED  BY <1>1, <1>2, <1>3, <1>4 DEF Month!Next

LEMMA MonthMeans == MonthSafe => Month!TypeOK /\ Month!AnswerHasEveryHour
<1> SUFFICES ASSUME MonthSafe PROVE Month!TypeOK /\ Month!AnswerHasEveryHour  OBVIOUS
<1>1. \A c \in MonthCalls : lookup[c] = Month!Idle \/ (lookup[c] \in RateLookups /\ LookupSound(lookup[c], kept, posted))
  BY DEF MonthSafe
<1>2. Month!AnswerHasEveryHour
  <2> SUFFICES ASSUME NEW c \in MonthCalls, lookup[c].at = "answered"
               PROVE  Month!Of({d \in Month!Asked(lookup[c]) : d <= lookup[c].due}) \subseteq lookup[c].got
    BY DEF Month!AnswerHasEveryHour
  <2>1. LookupSound(lookup[c], kept, posted)  BY LookupAtHand
  <2>2. Month!Of(AskedDays(lookup[c])) = AskedDays(lookup[c]) \X Halves  BY MonthNames
  <2> QED  BY <2>1, <2>2 DEF LookupSound, AskedDays
<1>3. \A d \in Month!AllDays : kept[d] \subseteq Month!Of({d}) /\ (kept[d] # {} => d <= posted)
  BY MonthNames DEF MonthSafe, MemorySound
<1>4. months \subseteq Month!Of(0..posted)  BY MonthNames DEF MonthSafe
<1>5. ASSUME NEW c \in MonthCalls
      PROVE  lookup[c] = Month!Idle \/
        /\ lookup[c].at \in {"read", "use", "page", "join", "filter", "write", "collect", "failed", "answered"}
        /\ {lookup[c].first, lookup[c].last, lookup[c].due} \subseteq Month!AllDays
        /\ lookup[c].read \cup lookup[c].write \cup lookup[c].got \subseteq Month!Hours
  BY <1>1, MonthNames DEF RateLookups
<1>6. Month!TypeOK  BY <1>3, <1>4, <1>5 DEF MonthSafe, Month!TypeOK
<1> QED  BY <1>2, <1>6

-----------------------------------------------------------------------------
(* The Agile prices of some sites, one lookup at a time. From a day on, what  *)
(* memory and the database have is unbroken; a site has the prices until the  *)
(* evening, without a hole, once the morning is over; and a lookup resumes at *)
(* a price its site has.                                                      *)
Midnight(t) == 3 * Alone!Day(t)
Unbroken(X, n) == \A t \in X : t >= n => n..t \subseteq X
LoneLookups == [at : {"load", "fetch", "answer", "answered"}, kind : {"current", "future"} \union AloneSites,
                when : Alone!Slots, start : Alone!Slots, end : Alone!Slots, due : Alone!Slots,
                leader : {1}, since : Alone!Slots, got : SUBSET Alone!Slots]

ClockSound ==
    /\ now \in 0..(3 * AgileDays - 1) /\ now >= 3 * AgileLookback
    /\ \/ horizon = Midnight(now) + 1
       \/ horizon = Midnight(now) + 4 /\ ~Alone!Morning(now)
    /\ aged \in (Midnight(now) + 1)..horizon
    /\ recent \in BOOLEAN /\ synced \subseteq AloneSites /\ faults \in 0..AgileFaults
PricesSound ==
    /\ memory \subseteq 0..horizon /\ db \subseteq 0..horizon
    /\ Unbroken(memory, Midnight(now)) /\ Unbroken(db, Midnight(now))
    /\ recent => Midnight(now)..aged \subseteq memory
SiteSound(s) ==
    /\ stored[s] \subseteq 0..horizon
    /\ \A t, u \in stored[s] : t..u \subseteq stored[s]
    /\ \E t \in stored[s] : t >= Midnight(now) - 2
    /\ ~Alone!Morning(now) \/ s \in synced => Midnight(now) + 1 \in stored[s]
StoredSound ==
    /\ stored = [s \in AloneSites |-> stored[s]]
    /\ \A s \in AloneSites : SiteSound(s)

(* When and for what the lookup k was made; and how far it has got.           *)
LoneMade(k) ==
    /\ k.when = now \/ (k.when = now - 1 /\ synced = {})
    /\ Midnight(k.when) + 1 <= k.due /\ k.due <= Alone!Expected(k.when) /\ k.due <= aged
    /\ k.start <= k.end /\ k.end <= Midnight(k.when) + 5
    /\ ~Alone!Morning(k.when) => k.start >= Midnight(k.when)
    /\ k.kind \in AloneSites =>
        k.start \in stored[k.kind] /\ (Alone!Morning(k.when) => k.end = Midnight(k.when) + 1)
LoneWent(k) ==
    /\ Unbroken(memory, Midnight(k.when)) /\ Unbroken(db, Midnight(k.when))
    /\ k.at \in {"load", "fetch"} /\ k.when # now => ~recent
    /\ k.at = "answer" => Alone!Range(k) \cap 0..k.due \subseteq memory
    /\ k.at = "answered" =>
        /\ Alone!Range(k) \cap 0..k.due \subseteq k.got
        /\ k.got \subseteq Alone!Range(k) \cap 0..horizon
        /\ \A t \in k.got : k.start..t \subseteq k.got
AloneSafe ==
    /\ ClockSound /\ PricesSound /\ StoredSound
    /\ call = [c \in {1} |-> call[1]]
    /\ call[1] = Alone!Idle \/ (call[1] \in LoneLookups /\ LoneMade(call[1]) /\ LoneWent(call[1]))

-----------------------------------------------------------------------------
LEMMA AloneNames ==
    /\ AgileDays \in Nat /\ AgileLookback \in Nat /\ AgileFaults \in Nat
    /\ AgileLookback >= 1 /\ AgileLookback < AgileDays
    /\ AloneSites # {} /\ "current" \notin AloneSites /\ "future" \notin AloneSites
    /\ Alone!Slots = 0..(3 * AgileDays + 5)
<1>1. Alone!Assumptions  BY PartsAssumption
<1> QED  BY <1>1, NamesAssumption DEF Alone!Assumptions, Alone!Slots

(* A day has three slots; the times of a lookup, counted from its midnight.   *)
LEMMA MidnightIs ==
    ASSUME NEW t \in Nat
    PROVE  /\ Alone!Day(t) \in Nat /\ Midnight(t) \in Nat /\ Midnight(t) <= t /\ t <= Midnight(t) + 2
           /\ Alone!Morning(t) <=> t = Midnight(t)
           /\ t = Midnight(t) + 2 => Midnight(t + 1) = Midnight(t) + 3
           /\ t # Midnight(t) + 2 => Midnight(t + 1) = Midnight(t)
<1>1. t \div 3 \in Nat /\ t % 3 \in 0..2 /\ t = 3 * (t \div 3) + (t % 3)  OBVIOUS
<1>2. (t + 1) \div 3 \in Nat /\ (t + 1) % 3 \in 0..2 /\ t + 1 = 3 * ((t + 1) \div 3) + ((t + 1) % 3)  OBVIOUS
<1> QED  BY <1>1, <1>2 DEF Alone!Day, Alone!Morning, Midnight

LEMMA TimesAre ==
    ASSUME NEW t \in Nat
    PROVE  Alone!Expected(t) = Midnight(t) + IF Alone!Morning(t) THEN 1 ELSE 4
BY MidnightIs DEF Alone!Expected, Midnight
LEMMA FetchedIs ==
    ASSUME NEW k
    PROVE  /\ Alone!Fetched(k) = Alone!FetchStart(k)..(Midnight(k.when) + 5)
           /\ Alone!FetchStart(k) = IF k.start >= Midnight(k.when) THEN Midnight(k.when) ELSE k.start
BY DEF Alone!Fetched, Alone!FetchStart, Midnight

LEMMA SlotsAre ==
    /\ Alone!Slots \subseteq Nat
    /\ ClockSound =>
        /\ now \in Nat /\ horizon \in Nat /\ aged \in Nat /\ aged <= horizon
        /\ Midnight(now) \in Nat /\ Midnight(now) <= now /\ now <= Midnight(now) + 2
        /\ Midnight(now) <= 3 * AgileDays - 3
        /\ 0..horizon \subseteq Alone!Slots /\ 0..(Midnight(now) + 5) \subseteq Alone!Slots
        /\ horizon <= Alone!Expected(now) /\ Midnight(now) + 1 <= aged
<1>1. Alone!Slots \subseteq Nat  BY AloneNames
<1>2. ASSUME ClockSound
      PROVE  /\ now \in Nat /\ horizon \in Nat /\ aged \in Nat /\ aged <= horizon
             /\ Midnight(now) \in Nat /\ Midnight(now) <= now /\ now <= Midnight(now) + 2
             /\ Midnight(now) <= 3 * AgileDays - 3
             /\ 0..horizon \subseteq Alone!Slots /\ 0..(Midnight(now) + 5) \subseteq Alone!Slots
             /\ horizon <= Alone!Expected(now) /\ Midnight(now) + 1 <= aged
  <2>1. now \in Nat /\ now <= 3 * AgileDays - 1  BY <1>2, AloneNames DEF ClockSound
  <2>2. Midnight(now) \in Nat /\ Midnight(now) <= now /\ now <= Midnight(now) + 2  BY <2>1, MidnightIs
  <2>3. Midnight(now) <= 3 * AgileDays - 3
    <3>1. Alone!Day(now) \in Nat /\ Midnight(now) = 3 * Alone!Day(now)  BY <2>1, MidnightIs DEF Midnight
    <3> QED  BY <2>1, <2>2, <3>1, AloneNames
  <2>4. horizon \in Nat /\ aged \in Nat /\ aged <= horizon /\ Midnight(now) + 1 <= aged
        /\ horizon <= Midnight(now) + 4
    BY <1>2, <2>2 DEF ClockSound
  <2>5. horizon <= Alone!Expected(now)  BY <1>2, <2>1, <2>2, TimesAre DEF ClockSound
  <2> QED  BY <2>1, <2>2, <2>3, <2>4, <2>5, AloneNames
<1> QED  BY <1>1, <1>2

(* Sets that are unbroken from n on.                                          *)
LEMMA UnbrokenJoins ==
    ASSUME NEW X, NEW Y, NEW n, Unbroken(X, n), Unbroken(Y, n) PROVE Unbroken(X \union Y, n)
BY DEF Unbroken
LEMMA UnbrokenMeets ==
    ASSUME NEW n \in Int, NEW a \in Int, NEW b \in Int, NEW X \in SUBSET Int, Unbroken(X, n), a <= n
    PROVE  Unbroken(X \cap (a..b), n)
<1> SUFFICES ASSUME NEW t \in X \cap (a..b), t >= n, NEW u \in n..t PROVE u \in X /\ u \in a..b
  BY DEF Unbroken
<1>1. t \in Int /\ u \in Int  OBVIOUS
<1> QED  BY <1>1 DEF Unbroken
LEMMA UnbrokenRange ==
    ASSUME NEW n \in Int, NEW a \in Int, NEW b \in Int, a <= n PROVE Unbroken(a..b, n)
BY DEF Unbroken
LEMMA UnbrokenLater ==
    ASSUME NEW n \in Int, NEW m \in Int, n <= m, NEW X \in SUBSET Int, Unbroken(X, n) PROVE Unbroken(X, m)
<1> SUFFICES ASSUME NEW t \in X, t >= m PROVE m..t \subseteq X  BY DEF Unbroken
<1>1. t \in Int /\ t >= n  OBVIOUS
<1>2. n..t \subseteq X  BY <1>1 DEF Unbroken
<1> QED  BY <1>1, <1>2

(* A set of natural numbers up to n has a last one.                           *)
LEMMA HasLast ==
    ASSUME NEW n \in Nat, NEW S \in SUBSET (0..n), S # {}
    PROVE  \E t \in S : \A u \in S : u <= t
<1> DEFINE Left == {k \in Nat : n - k \in S}
           R == {ss \in Nat \X Nat : ss[1] < ss[2]}
<1>1. IsWellFoundedOn(R, Nat)  BY NatLessThanWellFounded DEF OpToRel
<1>2. Left # {} /\ Left \in SUBSET Nat
  <2>1. PICK d \in S : TRUE  OBVIOUS
  <2>2. n - d \in Nat /\ n - (n - d) = d  BY <2>1
  <2>3. n - d \in Left  BY <2>1, <2>2
  <2> QED  BY <2>3
<1>3. PICK k \in Left : \A m \in Left : <<m, k>> \notin R
  <2> HIDE DEF R, Left
  <2> QED  BY <1>1, <1>2, WFMin
<1>4. n - k \in S /\ k \in Nat  OBVIOUS
<1>5. ASSUME NEW e \in S PROVE e <= n - k
  <2>1. n - e \in Nat /\ n - (n - e) = e  OBVIOUS
  <2>2. n - e \in Left  BY <2>1
  <2>3. ~(n - e < k)  BY <1>3, <1>4, <2>1, <2>2
  <2> QED  BY <1>4, <2>1, <2>3
<1> QED  BY <1>4, <1>5

-----------------------------------------------------------------------------
(* What of the invariant a step leaves alone.                                 *)
LEMMA ClockStays ==
    ASSUME ClockSound, UNCHANGED <<now, horizon, aged, synced>>, recent' \in BOOLEAN, faults' \in 0..AgileFaults
    PROVE  ClockSound'
BY DEF ClockSound
LEMMA StoredStays ==
    ASSUME StoredSound, UNCHANGED <<now, horizon, stored, synced>> PROVE StoredSound'
BY DEF StoredSound, SiteSound
LEMMA PricesStay ==
    ASSUME PricesSound, UNCHANGED <<now, horizon, aged, recent, memory, db>> PROVE PricesSound'
BY DEF PricesSound, Unbroken
LEMMA AloneFault == ASSUME ClockSound, NEW f, Alone!Fault(f) PROVE faults' \in 0..AgileFaults
BY AloneNames DEF ClockSound, Alone!Fault

(* A lookup that goes on is of the same time and for the same.                *)
Same(k, q) ==
    /\ q.kind = k.kind /\ q.when = k.when /\ q.start = k.start /\ q.end = k.end /\ q.due = k.due
LEMMA MadeStays ==
    ASSUME NEW k, NEW q, LoneMade(k), Same(k, q), UNCHANGED <<now, aged, stored, synced>>
    PROVE  LoneMade(q)'
BY DEF LoneMade, Same

LEMMA LoneGoes ==
    ASSUME call = [c \in {1} |-> call[1]], NEW q \in LoneLookups, call' = [call EXCEPT ![1] = q],
           ClockSound', PricesSound', StoredSound', LoneMade(q)', LoneWent(q)'
    PROVE  AloneSafe'
<1>1. call'[1] = q /\ call' = [c \in {1} |-> call'[1]]  OBVIOUS
<1>2. LoneMade(call[1])' /\ LoneWent(call[1])'  BY <1>1 DEF LoneMade, LoneWent
<1> QED  BY <1>1, <1>2 DEF AloneSafe

LEMMA LoneIdles ==
    ASSUME call' = [c \in {1} |-> Alone!Idle], ClockSound', PricesSound', StoredSound' PROVE AloneSafe'
<1>1. call'[1] = Alone!Idle /\ call' = [c \in {1} |-> call'[1]]  OBVIOUS
<1>2. Alone!Idle' = Alone!Idle  BY DEF Alone!Idle
<1> QED  BY <1>1, <1>2 DEF AloneSafe

LEMMA LoneAtHand ==
    ASSUME AloneSafe, call[1].at # "idle"
    PROVE  /\ call[1] \in LoneLookups /\ LoneMade(call[1]) /\ LoneWent(call[1])
           /\ call[1].when \in Nat /\ Midnight(call[1].when) \in Nat
           /\ Midnight(call[1].when) <= Midnight(now) /\ Midnight(now) <= Midnight(call[1].when) + 3
           /\ call[1].when <= now /\ now <= call[1].when + 1
<1>1. call[1] # Alone!Idle  BY DEF Alone!Idle
<1>2. call[1] \in LoneLookups /\ LoneMade(call[1]) /\ LoneWent(call[1])  BY <1>1 DEF AloneSafe
<1>3. call[1].when \in Nat  BY <1>2, SlotsAre DEF LoneLookups
<1>4. now \in Nat /\ (call[1].when = now \/ call[1].when = now - 1)  BY <1>2, SlotsAre DEF LoneMade, AloneSafe
<1>5. Midnight(call[1].when) \in Nat /\ Midnight(call[1].when) <= Midnight(now)
      /\ Midnight(now) <= Midnight(call[1].when) + 3
  <2>1. CASE call[1].when = now  BY <1>4, <2>1, MidnightIs
  <2>2. CASE call[1].when = now - 1
    <3>1. call[1].when + 1 = now  BY <1>3, <1>4, <2>2
    <3>2. Midnight(call[1].when) \in Nat /\ (Midnight(now) = Midnight(call[1].when) + 3
                                             \/ Midnight(now) = Midnight(call[1].when))
      BY <1>3, <3>1, MidnightIs
    <3> QED  BY <3>2
  <2> QED  BY <1>4, <2>1, <2>2
<1> QED  BY <1>2, <1>3, <1>4, <1>5

-----------------------------------------------------------------------------
(* Time passes.                                                               *)
LEMMA AlonePublishes == ASSUME AloneSafe, Alone!Publish PROVE AloneSafe'
<1>1. /\ UNCHANGED <<now, aged, recent, memory, db, stored, synced, call, faults>>
      /\ ~Alone!Morning(now) /\ horizon' = Midnight(now) + 4 /\ horizon < horizon'
  <2>1. Midnight(now) + 4 = 3 * (Alone!Day(now) + 1) + 1  BY SlotsAre, MidnightIs DEF AloneSafe, Midnight
  <2> QED  BY <2>1 DEF Alone!Publish
<1>2. horizon \in Nat /\ Midnight(now) \in Nat /\ aged \in Nat /\ horizon' \in Nat
  BY <1>1, SlotsAre DEF AloneSafe
<1>3. Midnight(now)' = Midnight(now) /\ Alone!Morning(now)' = Alone!Morning(now)
  BY <1>1 DEF Midnight, Alone!Day, Alone!Morning
<1>4. ClockSound'
  <2>1. aged \in (Midnight(now) + 1)..horizon  BY DEF AloneSafe, ClockSound
  <2>2. aged \in (Midnight(now) + 1)..horizon'  BY <1>1, <1>2, <2>1
  <2> QED  BY <1>1, <1>3, <2>2 DEF AloneSafe, ClockSound
<1>5. 0..horizon \subseteq 0..horizon'  BY <1>1, <1>2
<1>6. PricesSound'  BY <1>1, <1>3, <1>5 DEF AloneSafe, PricesSound, Unbroken
<1>7. StoredSound'  BY <1>1, <1>3, <1>5 DEF AloneSafe, StoredSound, SiteSound
<1>8. CASE call[1] # Alone!Idle
  <2>1. LoneMade(call[1])'  BY <1>1, <1>8 DEF AloneSafe, LoneMade
  <2>2. LoneWent(call[1])'
    BY <1>1, <1>5, <1>8 DEF AloneSafe, LoneWent, Unbroken, Alone!Range
  <2> QED  BY <1>1, <1>4, <1>6, <1>7, <1>8, <2>1, <2>2 DEF AloneSafe
<1>9. CASE call[1] = Alone!Idle
  BY <1>1, <1>4, <1>6, <1>7, <1>9 DEF AloneSafe, Alone!Idle
<1> QED  BY <1>8, <1>9

LEMMA AloneAges == ASSUME AloneSafe, Alone!QuarterHour PROVE AloneSafe'
<1>1. UNCHANGED <<now, horizon, memory, db, stored, synced, call, faults>> /\ recent' = FALSE /\ aged' = horizon
  BY DEF Alone!QuarterHour
<1>2. horizon \in Nat /\ Midnight(now) \in Nat /\ aged \in Nat /\ aged <= horizon /\ Midnight(now) + 1 <= aged
  BY <1>1, SlotsAre DEF AloneSafe
<1>3. Midnight(now)' = Midnight(now) /\ Alone!Morning(now)' = Alone!Morning(now)
  BY <1>1 DEF Midnight, Alone!Day, Alone!Morning
<1>4. ClockSound'
  <2>1. horizon \in (Midnight(now) + 1)..horizon  BY <1>2
  <2> QED  BY <1>1, <1>3, <2>1 DEF AloneSafe, ClockSound
<1>5. PricesSound'  BY <1>1, <1>3 DEF AloneSafe, PricesSound, Unbroken
<1>6. StoredSound'  BY <1>1, StoredStays DEF AloneSafe
<1>7. CASE call[1] # Alone!Idle
  <2>1. call[1].due \in Nat  BY <1>7, SlotsAre DEF AloneSafe, LoneLookups
  <2>2. LoneMade(call[1])'  BY <1>1, <1>2, <1>7, <2>1 DEF AloneSafe, LoneMade
  <2>3. LoneWent(call[1])'
    BY <1>1, <1>7 DEF AloneSafe, LoneWent, Unbroken, Alone!Range
  <2> QED  BY <1>1, <1>4, <1>5, <1>6, <1>7, <2>2, <2>3 DEF AloneSafe
<1>8. CASE call[1] = Alone!Idle
  BY <1>1, <1>4, <1>5, <1>6, <1>8 DEF AloneSafe, Alone!Idle
<1> QED  BY <1>7, <1>8

LEMMA AloneTicks == ASSUME AloneSafe, Alone!Tick PROVE AloneSafe'
<1>1. /\ UNCHANGED <<horizon, memory, db, stored, call, faults>> /\ recent' = FALSE /\ aged' = horizon
      /\ synced' = {} /\ synced = AloneSites
      /\ now' = now + 1 /\ now + 1 < 3 * AgileDays /\ now + 1 <= horizon
  BY DEF Alone!Tick
<1>2. /\ now \in Nat /\ horizon \in Nat /\ Midnight(now) \in Nat /\ aged \in Nat /\ aged <= horizon
      /\ Midnight(now) + 1 <= aged /\ Midnight(now) <= now /\ now <= Midnight(now) + 2
  BY <1>1, SlotsAre DEF AloneSafe
<1>3. Midnight(now)' = Midnight(now + 1) /\ Alone!Morning(now)' = Alone!Morning(now + 1)
  BY <1>1 DEF Midnight, Alone!Day, Alone!Morning
<1>4. /\ Midnight(now)' \in Nat /\ (Alone!Morning(now)' <=> now + 1 = Midnight(now)')
      /\ now = Midnight(now) + 2 => Midnight(now)' = Midnight(now) + 3
      /\ now # Midnight(now) + 2 => Midnight(now)' = Midnight(now)
  <2>1. now + 1 \in Nat  BY <1>2
  <2>2. Midnight(now + 1) \in Nat /\ (Alone!Morning(now + 1) <=> now + 1 = Midnight(now + 1))
    BY <2>1, MidnightIs
  <2> QED  BY <1>2, <1>3, <2>2, MidnightIs
<1>5. Alone!Morning(now) <=> now = Midnight(now)  BY <1>2, MidnightIs
<1>6. ClockSound'
  <2>0. now >= 3 * AgileLookback  BY DEF AloneSafe, ClockSound
  <2>1. now' \in 0..(3 * AgileDays - 1) /\ now' >= 3 * AgileLookback  BY <1>1, <1>2, <2>0, AloneNames
  <2>2. horizon = Midnight(now)' + 1 \/ (horizon = Midnight(now)' + 4 /\ ~Alone!Morning(now)')
    BY <1>1, <1>2, <1>4, <1>5 DEF AloneSafe, ClockSound
  <2>3. horizon \in (Midnight(now)' + 1)..horizon  BY <1>2, <1>4, <2>2
  <2> QED  BY <1>1, <2>1, <2>2, <2>3 DEF AloneSafe, ClockSound
<1>7. Midnight(now) <= Midnight(now)' /\ memory \in SUBSET Int /\ db \in SUBSET Int
  BY <1>2, <1>4 DEF AloneSafe, PricesSound
<1>8. PricesSound'
  <2>1. Unbroken(memory, Midnight(now)') /\ Unbroken(db, Midnight(now)')
    BY <1>2, <1>4, <1>7, UnbrokenLater DEF AloneSafe, PricesSound
  <2> QED  BY <1>1, <2>1 DEF AloneSafe, PricesSound, Unbroken
<1>9. StoredSound'
  <2>1. ASSUME NEW s \in AloneSites PROVE SiteSound(s)'
    <3>1. /\ stored[s] \subseteq 0..horizon /\ \A t, u \in stored[s] : t..u \subseteq stored[s]
          /\ Midnight(now) + 1 \in stored[s]
      BY <1>1, <2>1 DEF AloneSafe, StoredSound, SiteSound
    <3>2. Midnight(now) + 1 >= Midnight(now)' - 2  BY <1>2, <1>4
    <3>3. ~Alone!Morning(now)' => Midnight(now)' = Midnight(now)  BY <1>2, <1>4
    <3> QED  BY <1>1, <3>1, <3>2, <3>3 DEF SiteSound
  <2> QED  BY <1>1, <2>1 DEF AloneSafe, StoredSound
<1>10. CASE call[1] # Alone!Idle
  <2>0. call[1] \in LoneLookups /\ LoneMade(call[1]) /\ LoneWent(call[1])  BY <1>10 DEF AloneSafe
  <2>1. call[1].due \in Nat /\ call[1].when = now
    BY <1>1, <2>0, AloneNames, SlotsAre DEF LoneMade, LoneLookups
  <2>2. LoneMade(call[1])'
    <3>1. call[1].when = now' - 1 /\ call[1].due <= aged'  BY <1>1, <1>2, <2>0, <2>1 DEF LoneMade
    <3> QED  BY <1>1, <2>0, <3>1 DEF LoneMade
  <2>3. LoneWent(call[1])'
    BY <1>1, <2>0 DEF LoneWent, Unbroken, Alone!Range
  <2> QED  BY <1>1, <1>6, <1>8, <1>9, <2>0, <2>2, <2>3 DEF AloneSafe
<1>11. CASE call[1] = Alone!Idle
  BY <1>1, <1>6, <1>8, <1>9, <1>11 DEF AloneSafe, Alone!Idle
<1> QED  BY <1>10, <1>11

LEMMA AloneRestarts == ASSUME AloneSafe, Alone!Restart PROVE AloneSafe'
<1>1. /\ UNCHANGED <<now, horizon, aged, db, stored, synced>> /\ recent' = FALSE /\ memory' = {}
      /\ call' = [c \in {1} |-> Alone!Idle] /\ faults' \in 0..AgileFaults
  BY AloneFault DEF Alone!Restart, AloneSafe
<1>2. ClockSound' /\ StoredSound'  BY <1>1, ClockStays, StoredStays DEF AloneSafe
<1>3. PricesSound'  BY <1>1 DEF AloneSafe, PricesSound, Unbroken, Midnight, Alone!Day
<1> QED  BY <1>1, <1>2, <1>3, LoneIdles

-----------------------------------------------------------------------------
(* A lookup is made. What memory answers at once it has until it was due.     *)
LEMMA CoveredHas ==
    ASSUME NEW k, k.due \in Int, k.end \in Int, k.start \in Int, Alone!Expected(k.when) \in Int,
           k.due <= Alone!Expected(k.when), k.start > Alone!CheckEnd(k) \/ Alone!Covered(k)
    PROVE  Alone!Range(k) \cap 0..k.due \subseteq memory
BY DEF Alone!Covered, Alone!CheckEnd, Alone!Range

LEMMA LoneAsks ==
    ASSUME AloneSafe, NEW kind \in {"current", "future"} \union AloneSites,
           NEW start \in Alone!Slots, NEW end \in Alone!Slots, Alone!Ask(1, kind, start, end),
           start <= end, end <= Midnight(now) + 5, ~Alone!Morning(now) => start >= Midnight(now),
           kind \in AloneSites => start \in stored[kind] /\ (Alone!Morning(now) => end = Midnight(now) + 1)
    PROVE  AloneSafe'
<1> DEFINE k == [at |-> "load", kind |-> kind, when |-> now, start |-> start, end |-> end,
                 due |-> aged, leader |-> 1, since |-> now, got |-> {}]
           shared == {d \in {1} : Alone!Flying(d) /\ Alone!Fetched(call[d]) = Alone!Fetched(k)}
           r == IF start > Alone!CheckEnd(k) \/ Alone!Covered(k) THEN [k EXCEPT !.at = "answer"] ELSE k
<1>1. call[1] = Alone!Idle /\ UNCHANGED <<now, horizon, aged, recent, memory, db, stored, synced, faults>>
  BY DEF Alone!Ask
<1>2. call' = [call EXCEPT ![1] = r]
  <2>1. shared = {}  BY <1>1 DEF Alone!Flying, Alone!Idle
  <2>2. call' = [call EXCEPT ![1] = IF start > Alone!CheckEnd(k) \/ Alone!Covered(k) THEN [k EXCEPT !.at = "answer"]
                                    ELSE IF shared # {} THEN LET d == CHOOSE d \in shared : TRUE
                                                             IN  [k EXCEPT !.at = "joined", !.leader = d, !.since = call[d].since]
                                    ELSE k]
    BY DEF Alone!Ask
  <2> HIDE DEF shared
  <2> QED  BY <2>1, <2>2
<1>3. /\ now \in Nat /\ aged \in Nat /\ horizon \in Nat /\ aged <= horizon /\ Midnight(now) \in Nat
      /\ now \in Alone!Slots /\ aged \in Alone!Slots /\ start \in Nat /\ end \in Nat
      /\ Midnight(now) + 1 <= aged /\ horizon <= Alone!Expected(now) /\ Alone!Expected(now) \in Nat
  <2>1. now \in 0..(Midnight(now) + 5)  BY SlotsAre DEF AloneSafe
  <2> QED  BY <2>1, SlotsAre, TimesAre DEF AloneSafe
<1>4. k \in LoneLookups  BY <1>3 DEF LoneLookups
<1>5. /\ k.kind = kind /\ k.when = now /\ k.start = start /\ k.end = end /\ k.due = aged /\ k.at = "load"
      /\ k.got = {}
  OBVIOUS
<1> HIDE DEF k
<1>6. r \in LoneLookups /\ Same(k, r) /\ (r.at = "load" \/ (r.at = "answer" /\ Alone!Range(r) \cap 0..r.due \subseteq memory))
  <2>1. CASE start > Alone!CheckEnd(k) \/ Alone!Covered(k)
    <3>1. r = [k EXCEPT !.at = "answer"]  BY <2>1
    <3> HIDE DEF r
    <3>2. r \in LoneLookups /\ Same(k, r) /\ r.at = "answer"  BY <1>4, <3>1 DEF LoneLookups, Same
    <3>3. Alone!Range(k) \cap 0..k.due \subseteq memory
      BY <1>3, <1>5, <2>1, CoveredHas
    <3> QED  BY <3>2, <3>3 DEF Same, Alone!Range
  <2>2. CASE ~(start > Alone!CheckEnd(k) \/ Alone!Covered(k))
    <3>1. r = k  BY <2>2
    <3> QED  BY <1>4, <1>5, <3>1 DEF Same
  <2> QED  BY <2>1, <2>2
<1>7. LoneMade(k)  BY <1>3, <1>5 DEF LoneMade
<1> HIDE DEF r
<1> PICK q : q = r  OBVIOUS
<1>8. ClockSound' /\ PricesSound' /\ StoredSound'
  BY <1>1, ClockStays, PricesStay, StoredStays DEF AloneSafe, ClockSound
<1>9. LoneMade(q)'  BY <1>1, <1>6, <1>7, MadeStays
<1>10. q.when = now  BY <1>5, <1>6 DEF Same
<1>11. LoneWent(q)'
  <2>1. Unbroken(memory, Midnight(now)) /\ Unbroken(db, Midnight(now))  BY DEF AloneSafe, PricesSound
  <2> QED  BY <1>1, <1>6, <1>10, <2>1 DEF LoneWent, Unbroken, Alone!Range
<1>12. call = [c \in {1} |-> call[1]]  BY DEF AloneSafe
<1> QED  BY <1>2, <1>6, <1>8, <1>9, <1>11, <1>12, LoneGoes

LEMMA SyncIs ==
    ASSUME AloneSafe, NEW s \in AloneSites
    PROVE  /\ Alone!SyncStart(s) \in stored[s] /\ \A t \in stored[s] : t <= Alone!SyncStart(s)
           /\ Alone!SyncEnd = Midnight(now) + IF Alone!Morning(now) THEN 1 ELSE 3
<1>1. horizon \in Nat /\ Midnight(now) \in Nat /\ now \in Nat  BY SlotsAre DEF AloneSafe
<1>2. SiteSound(s)  BY DEF AloneSafe, StoredSound
<1>3. PICK t \in stored[s] : t >= Midnight(now) - 2  BY <1>2 DEF SiteSound
<1>4. stored[s] \subseteq 0..horizon /\ t \in Int  BY <1>1, <1>2, <1>3 DEF SiteSound
<1>5. 3 * (Alone!Day(now) - AgileLookback) = Midnight(now) - 3 * AgileLookback
  <2>1. Alone!Day(now) \in Nat  BY <1>1, MidnightIs
  <2> QED  BY <2>1, AloneNames DEF Midnight
<1>6. t > 3 * (Alone!Day(now) - AgileLookback)  BY <1>1, <1>3, <1>4, <1>5, AloneNames
<1>7. Alone!SyncStart(s) = CHOOSE u \in stored[s] : \A v \in stored[s] : v <= u
  BY <1>3, <1>6 DEF Alone!SyncStart
<1>8. \E u \in stored[s] : \A v \in stored[s] : v <= u  BY <1>1, <1>3, <1>4, HasLast
<1> QED  BY <1>7, <1>8 DEF Alone!SyncEnd, Midnight

LEMMA AloneAsks ==
    ASSUME AloneSafe, Alone!AskCurrent(1) \/ Alone!AskFuture(1) \/ \E s \in AloneSites : Alone!AskSync(1, s)
    PROVE  AloneSafe'
<1>1. /\ now \in Nat /\ Midnight(now) \in Nat /\ Midnight(now) <= now /\ now <= Midnight(now) + 2
      /\ 0..(Midnight(now) + 5) \subseteq Alone!Slots /\ 0..horizon \subseteq Alone!Slots
      /\ "current" \notin AloneSites /\ "future" \notin AloneSites
  BY SlotsAre, AloneNames DEF AloneSafe
<1>2. now \in Alone!Slots /\ Midnight(now) + 5 \in Alone!Slots /\ 3 * Alone!Day(now) = Midnight(now)
  BY <1>1 DEF Midnight
<1>3. CASE Alone!AskCurrent(1)
  <2>1. Alone!Ask(1, "current", now, now)  BY <1>3 DEF Alone!AskCurrent
  <2>2. now <= now /\ now <= Midnight(now) + 5 /\ now >= Midnight(now)  BY <1>1
  <2>3. "current" \in {"current", "future"} \union AloneSites  OBVIOUS
  <2> QED  BY <1>1, <1>2, <2>1, <2>2, <2>3, LoneAsks, Zenon
<1>4. CASE Alone!AskFuture(1)
  <2>1. Alone!Ask(1, "future", now, Midnight(now) + 5)  BY <1>2, <1>4 DEF Alone!AskFuture
  <2>2. now <= Midnight(now) + 5 /\ Midnight(now) + 5 <= Midnight(now) + 5 /\ now >= Midnight(now)  BY <1>1
  <2>3. "future" \in {"current", "future"} \union AloneSites  OBVIOUS
  <2> QED  BY <1>1, <1>2, <2>1, <2>2, <2>3, LoneAsks, Zenon
<1>5. ASSUME NEW s \in AloneSites, Alone!AskSync(1, s) PROVE AloneSafe'
  <2>1. Alone!SyncStart(s) <= Alone!SyncEnd /\ Alone!Ask(1, s, Alone!SyncStart(s), Alone!SyncEnd)
    BY <1>5 DEF Alone!AskSync
  <2>2. Alone!SyncStart(s) \in stored[s] /\ \A t \in stored[s] : t <= Alone!SyncStart(s)
    BY SyncIs
  <2>3. Alone!SyncEnd = Midnight(now) + IF Alone!Morning(now) THEN 1 ELSE 3  BY SyncIs
  <2>4. SiteSound(s)  BY DEF AloneSafe, StoredSound
  <2>5. Alone!SyncStart(s) \in Alone!Slots  BY <1>1, <2>2, <2>4 DEF SiteSound
  <2>6. Alone!SyncEnd \in 0..(Midnight(now) + 5) /\ Alone!SyncEnd <= Midnight(now) + 5  BY <1>1, <2>3
  <2>7. Alone!SyncEnd \in Alone!Slots  BY <1>1, <2>6
  <2>8. ~Alone!Morning(now) => Alone!SyncStart(s) >= Midnight(now)
    <3> SUFFICES ASSUME ~Alone!Morning(now) PROVE Alone!SyncStart(s) >= Midnight(now)  OBVIOUS
    <3>1. Midnight(now) + 1 <= Alone!SyncStart(s)  BY <2>2, <2>4 DEF SiteSound
    <3>2. Alone!SyncStart(s) \in Nat  BY <2>5, SlotsAre
    <3> QED  BY <1>1, <3>1, <3>2
  <2>9. Alone!Morning(now) => Alone!SyncEnd = Midnight(now) + 1  BY <2>3
  <2>10. s \in {"current", "future"} \union AloneSites  OBVIOUS
  <2> QED  BY <2>1, <2>2, <2>5, <2>6, <2>7, <2>8, <2>9, <2>10, LoneAsks, Zenon
<1> QED  BY <1>3, <1>4, <1>5

-----------------------------------------------------------------------------
(* A lookup goes on.                                                          *)
LEMMA LoneLoads == ASSUME AloneSafe, Alone!Load(1) PROVE AloneSafe'
<1> DEFINE k == call[1]
           r == [k EXCEPT !.at = "fetch"]
<1>1. /\ k.at = "load" /\ call' = [call EXCEPT ![1] = r]
      /\ UNCHANGED <<now, horizon, aged, recent, db, stored, synced>>
      /\ \/ memory' = memory \union (db \cap Alone!Fetched(k)) /\ faults' = faults
         \/ Alone!Fault("database") /\ memory' = memory
  BY DEF Alone!Load
<1>2. /\ k \in LoneLookups /\ LoneMade(k) /\ LoneWent(k)
      /\ k.when \in Nat /\ Midnight(k.when) \in Nat /\ Midnight(k.when) <= Midnight(now)
  BY <1>1, LoneAtHand
<1>3. horizon \in Nat /\ Midnight(now) \in Nat  BY SlotsAre DEF AloneSafe
<1>4. ClockSound' /\ StoredSound'
  BY <1>1, AloneFault, ClockStays, StoredStays DEF AloneSafe, ClockSound
<1> HIDE DEF k
<1>5. r \in LoneLookups /\ Same(k, r) /\ r.at = "fetch"  BY <1>2 DEF LoneLookups, Same
<1> HIDE DEF r
<1> PICK q : q = r  OBVIOUS
<1>6. LoneMade(q)'  BY <1>1, <1>2, <1>5, MadeStays
<1>7. ASSUME NEW n \in Int, Midnight(k.when) <= n, Unbroken(memory, n), Unbroken(db, n) PROVE Unbroken(memory, n)'
  <2>1. CASE memory' = memory \union (db \cap Alone!Fetched(k))
    <3>1. db \in SUBSET Int  BY <1>3 DEF AloneSafe, PricesSound
    <3>2. Alone!FetchStart(k) \in Int /\ Alone!FetchStart(k) <= n /\ Midnight(k.when) + 5 \in Int
      <4>1. k.start \in Nat  BY <1>2, SlotsAre DEF LoneLookups
      <4>2. Alone!FetchStart(k) = IF k.start >= Midnight(k.when) THEN Midnight(k.when) ELSE k.start  BY FetchedIs
      <4> QED  BY <1>2, <1>7, <4>1, <4>2
    <3>3. Unbroken(db \cap Alone!Fetched(k), n)  BY <1>7, <3>1, <3>2, FetchedIs, UnbrokenMeets
    <3>4. Unbroken(memory \union (db \cap Alone!Fetched(k)), n)  BY <1>7, <3>3, UnbrokenJoins
    <3> QED  BY <2>1, <3>4 DEF Unbroken
  <2>2. CASE memory' = memory  BY <1>7, <2>2 DEF Unbroken
  <2> QED  BY <1>1, <2>1, <2>2
<1>8. /\ Unbroken(memory, Midnight(now)) /\ Unbroken(db, Midnight(now))
      /\ Unbroken(memory, Midnight(k.when)) /\ Unbroken(db, Midnight(k.when))
  BY <1>2 DEF AloneSafe, PricesSound, LoneWent
<1>9. PricesSound'
  <2>1. Unbroken(memory, Midnight(now))'
    <3>1. ASSUME NEW n \in Int, n = Midnight(now) PROVE Unbroken(memory, n)'  BY <1>2, <1>7, <1>8, <3>1
    <3>2. Unbroken(memory', Midnight(now))  BY <1>3, <3>1 DEF Unbroken
    <3> QED  BY <1>1, <3>2 DEF Unbroken, Midnight, Alone!Day
  <2>2. memory' \subseteq 0..horizon /\ memory \subseteq memory'  BY <1>1 DEF AloneSafe, PricesSound
  <2> QED  BY <1>1, <2>1, <2>2 DEF AloneSafe, PricesSound, Unbroken, Midnight, Alone!Day
<1>10. LoneWent(q)'
  <2>1. q.at = "fetch" /\ q.when = k.when /\ (q.when # now => ~recent)
    BY <1>1, <1>2, <1>5 DEF Same, LoneWent, k
  <2>2. ASSUME NEW n \in Int, n = Midnight(q.when) PROVE Unbroken(memory, n)' /\ Unbroken(db, n)'
    BY <1>1, <1>2, <1>7, <1>8, <2>1, <2>2 DEF Unbroken
  <2>3. Midnight(q.when) \in Int  BY <1>2, <2>1
  <2> QED  BY <1>1, <2>1, <2>2, <2>3 DEF LoneWent
<1>11. call = [c \in {1} |-> call[1]]  BY DEF AloneSafe
<1> QED  BY <1>1, <1>4, <1>5, <1>6, <1>9, <1>10, <1>11, LoneGoes

(* It has what was published when it was due.                                 *)
LEMMA LandsIs ==
    ASSUME AloneSafe, Alone!Land(1, "answer")
    PROVE  call' = [call EXCEPT ![1] = [call[1] EXCEPT !.at = "answer"]]
BY DEF Alone!Land, AloneSafe
LEMMA LoneLands ==
    ASSUME AloneSafe, call[1].at = "fetch", Alone!Land(1, "answer"),
           UNCHANGED <<now, aged>>, ClockSound', PricesSound', StoredSound',
           UNCHANGED <<stored, synced>>,
           Unbroken(memory', Midnight(call[1].when)), Unbroken(db', Midnight(call[1].when)),
           Alone!Range(call[1]) \cap 0..call[1].due \subseteq memory'
    PROVE  AloneSafe'
<1> DEFINE k == call[1]
           r == [k EXCEPT !.at = "answer"]
<1>1. call' = [call EXCEPT ![1] = r]  BY LandsIs
<1>2. k \in LoneLookups /\ LoneMade(k) /\ LoneWent(k)  BY LoneAtHand
<1>3. /\ Unbroken(memory', Midnight(k.when)) /\ Unbroken(db', Midnight(k.when))
      /\ Alone!Range(k) \cap 0..k.due \subseteq memory'
  OBVIOUS
<1> HIDE DEF k
<1>4. r \in LoneLookups /\ Same(k, r) /\ r.at = "answer"  BY <1>2 DEF LoneLookups, Same
<1> HIDE DEF r
<1> PICK q : q = r  OBVIOUS
<1>5. LoneMade(q)'  BY <1>2, <1>4, MadeStays
<1>6. LoneWent(q)'
  BY <1>3, <1>4 DEF LoneWent, Unbroken, Alone!Range, Same
<1>7. call = [c \in {1} |-> call[1]]  BY DEF AloneSafe
<1> QED  BY <1>1, <1>4, <1>5, <1>6, <1>7, LoneGoes

LEMMA LoneSpares == ASSUME AloneSafe, Alone!Spare(1) PROVE AloneSafe'
<1> DEFINE k == call[1]
<1>1. /\ k.at = "fetch" /\ (Alone!Covered(k) \/ Alone!Cooling(k)) /\ Alone!Land(1, "answer")
      /\ UNCHANGED <<now, horizon, aged, recent, memory, db, stored, synced, faults>>
  BY DEF Alone!Spare
<1>2. /\ k \in LoneLookups /\ LoneMade(k) /\ LoneWent(k)
      /\ k.when \in Nat /\ Midnight(k.when) \in Nat /\ k.at = "fetch"
  BY <1>1, LoneAtHand
<1>3. ClockSound' /\ PricesSound' /\ StoredSound'
  BY <1>1, ClockStays, PricesStay, StoredStays DEF AloneSafe, ClockSound
<1>4. k.due \in Nat /\ k.end \in Nat /\ k.start \in Nat /\ aged \in Nat /\ Midnight(now) \in Nat
  BY <1>2, SlotsAre DEF LoneLookups, AloneSafe
<1>5. Alone!Expected(k.when) \in Int /\ k.due <= Alone!Expected(k.when)  BY <1>2, TimesAre DEF LoneMade
<1>6. Alone!Range(k) \cap 0..k.due \subseteq memory
  <2> HIDE DEF k
  <2>1. CASE Alone!Covered(k)  BY <1>4, <1>5, <2>1, CoveredHas
  <2>2. CASE Alone!Cooling(k)
    <3>1. recent /\ Alone!CheckEnd(k) > Midnight(k.when) + 1  BY <2>2 DEF Alone!Cooling, Midnight
    <3>2. k.when = now  BY <1>2, <3>1 DEF LoneWent
    <3>3. ~Alone!Morning(k.when)
      <4>1. Alone!CheckEnd(k) <= Alone!Expected(k.when)  BY <1>4, <1>5 DEF Alone!CheckEnd
      <4>2. Alone!CheckEnd(k) \in Int  BY <1>4, <1>5 DEF Alone!CheckEnd
      <4> QED  BY <1>2, <1>5, <3>1, <4>1, <4>2, TimesAre
    <3>4. k.start >= Midnight(now) /\ k.due <= aged  BY <1>2, <3>2, <3>3 DEF LoneMade
    <3>5. Midnight(now)..aged \subseteq memory  BY <3>1 DEF AloneSafe, PricesSound
    <3> QED  BY <1>4, <3>4, <3>5 DEF Alone!Range
  <2> QED  BY <1>1, <2>1, <2>2 DEF k
<1>7. Unbroken(memory', Midnight(k.when)) /\ Unbroken(db', Midnight(k.when))
  BY <1>1, <1>2 DEF LoneWent
<1> QED  BY <1>1, <1>3, <1>6, <1>7, LoneLands

LEMMA LoneFetches == ASSUME AloneSafe, Alone!Fetch(1) PROVE AloneSafe'
<1> DEFINE k == call[1]
           prices == Alone!Fetched(k) \cap 0..horizon
           M == Midnight(k.when)
<1>1. /\ k.at = "fetch" /\ memory' = memory \union prices
      /\ (db' = db \union prices /\ faults' = faults) \/ (Alone!Fault("database") /\ db' = db)
      /\ recent' = (recent \/ ~Alone!Morning(k.when))
      /\ Alone!Land(1, "answer") /\ UNCHANGED <<now, horizon, aged, stored, synced>>
  BY DEF Alone!Fetch
<1>2. /\ k \in LoneLookups /\ LoneMade(k) /\ LoneWent(k)
      /\ k.when \in Nat /\ M \in Nat /\ M <= Midnight(now) /\ k.when <= now /\ now <= k.when + 1
      /\ Midnight(now) <= M + 3
  BY <1>1, LoneAtHand
<1>3. /\ horizon \in Nat /\ Midnight(now) \in Nat /\ now \in Nat /\ aged \in Nat /\ aged <= horizon
      /\ Midnight(now) + 1 <= aged
  BY SlotsAre DEF AloneSafe
<1>4. /\ k.start \in Nat /\ k.end \in Nat /\ k.due \in Nat /\ k.start <= k.end /\ k.end <= M + 5
      /\ k.due <= horizon
  <2>1. k.start \in Nat /\ k.end \in Nat /\ k.due \in Nat  BY <1>2, SlotsAre DEF LoneLookups
  <2>2. k.start <= k.end /\ k.end <= M + 5 /\ k.due <= aged  BY <1>2 DEF LoneMade
  <2> QED  BY <1>3, <2>1, <2>2
<1>5. ClockSound' /\ StoredSound'
  BY <1>1, AloneFault, ClockStays, StoredStays DEF AloneSafe, ClockSound
<1> DEFINE F == Alone!FetchStart(k)
<1>6. F \in Nat /\ F <= M /\ F <= k.start /\ Alone!Fetched(k) = F..(M + 5)
      /\ (k.start >= M => F = M)
  <2>1. F = IF k.start >= M THEN M ELSE k.start  BY FetchedIs
  <2> HIDE DEF F
  <2> QED  BY <1>2, <1>4, <2>1, FetchedIs DEF F
<1>7. prices = (0..horizon) \cap (F..(M + 5))  BY <1>6
<1>8. ASSUME NEW n \in Nat, M <= n, Unbroken(memory, n), Unbroken(db, n)
      PROVE  Unbroken(memory', n) /\ Unbroken(db', n)
  <2>1. Unbroken(0..horizon, n)  BY <1>3, UnbrokenRange
  <2>2. (0..horizon) \in SUBSET Int /\ M + 5 \in Int /\ F \in Int /\ F <= n  BY <1>2, <1>3, <1>6, <1>8
  <2> HIDE DEF F, M, prices
  <2>3. Unbroken(prices, n)
    <3>1. n \in Int  OBVIOUS
    <3>2. Unbroken((0..horizon) \cap (F..(M + 5)), n)  BY <2>1, <2>2, <3>1, UnbrokenMeets, Zenon
    <3> QED  BY <1>7, <3>2
  <2>4. Unbroken(memory \union prices, n) /\ Unbroken(db \union prices, n)  BY <1>8, <2>3, UnbrokenJoins
  <2> QED  BY <1>1, <1>8, <2>4 DEF prices, k
<1>9. Alone!Range(k) \cap 0..k.due \subseteq prices
  <2> HIDE DEF k, prices, F, M
  <2> SUFFICES ASSUME NEW t \in k.start..k.end, t \in 0..k.due PROVE t \in 0..horizon /\ t \in F..(M + 5)
    BY <1>7 DEF Alone!Range
  <2>1. t \in Int /\ k.start <= t /\ t <= k.end /\ 0 <= t /\ t <= k.due  BY <1>4
  <2> QED  BY <1>2, <1>3, <1>4, <1>6, <2>1
<1>10. ~Alone!Morning(k.when) => Midnight(now)..aged \subseteq prices
  <2> SUFFICES ASSUME ~Alone!Morning(k.when) PROVE Midnight(now)..aged \subseteq prices  OBVIOUS
  <2>1. F = M  BY <1>2, <1>6 DEF LoneMade
  <2>2. horizon <= M + 5
    <3>1. CASE Midnight(now) = M  BY <1>2, <1>3, <3>1 DEF AloneSafe, ClockSound
    <3>2. CASE Midnight(now) # M
      <4>1. now = k.when + 1  BY <1>2, <1>3, <3>2
      <4>2. k.when = M + 2 /\ Midnight(now) = M + 3  BY <1>2, <3>2, <4>1, MidnightIs
      <4>3. Alone!Morning(now)  BY <1>2, <1>3, <4>1, <4>2, MidnightIs
      <4> QED  BY <1>2, <1>3, <4>2, <4>3 DEF AloneSafe, ClockSound
    <3> QED  BY <3>1, <3>2
  <2> HIDE DEF k, prices, F, M
  <2> QED  BY <1>2, <1>3, <1>6, <1>7, <2>1, <2>2
<1>11. Unbroken(memory', M) /\ Unbroken(db', M)  BY <1>2, <1>8 DEF LoneWent
<1>12. PricesSound'
  <2>1. Unbroken(memory', Midnight(now)) /\ Unbroken(db', Midnight(now))
    BY <1>2, <1>3, <1>8 DEF AloneSafe, PricesSound
  <2>2. prices \subseteq 0..horizon  OBVIOUS
  <2> HIDE DEF prices, k
  <2>3. memory' \subseteq 0..horizon /\ db' \subseteq 0..horizon
    BY <1>1, <2>2 DEF AloneSafe, PricesSound, k
  <2>4. recent' => Midnight(now)..aged \subseteq memory'
    BY <1>1, <1>10 DEF AloneSafe, PricesSound, k
  <2> QED  BY <1>1, <2>1, <2>3, <2>4 DEF PricesSound, Unbroken, Midnight, Alone!Day
<1>13. Alone!Range(k) \cap 0..k.due \subseteq memory'  BY <1>1, <1>9
<1> QED  BY <1>1, <1>5, <1>11, <1>12, <1>13, LoneLands

LEMMA LoneNeverFails == ~Alone!FetchFails(1)
BY DEF Alone!FetchFails, Alone!Fault

(* What memory has from the start of a lookup on is unbroken.                 *)
LEMMA LoneAnswers == ASSUME AloneSafe, Alone!Answer(1) PROVE AloneSafe'
<1> DEFINE k == call[1]
           g == Alone!Range(k) \cap memory
           r1 == [k EXCEPT !.at = "answered"]
           r == [r1 EXCEPT !.got = g]
<1>1. /\ k.at = "answer" /\ UNCHANGED <<now, horizon, aged, recent, memory, db, stored, synced, faults>>
      /\ call' = [call EXCEPT ![1] = [k EXCEPT !.at = "answered", !.got = g]]
  <2>1. call' = [call EXCEPT ![1].at = "answered", ![1].got = g] /\ call = [c \in {1} |-> call[1]]
    BY DEF Alone!Answer, AloneSafe
  <2>2. call' = [call EXCEPT ![1] = [k EXCEPT !.at = "answered", !.got = g]]
    BY <2>1
  <2> QED  BY <2>2 DEF Alone!Answer
<1>2. /\ k \in LoneLookups /\ LoneMade(k) /\ LoneWent(k)
      /\ k.when \in Nat /\ Midnight(k.when) \in Nat
  BY <1>1, LoneAtHand
<1>3. /\ k.start \in Nat /\ k.end \in Nat /\ k.due \in Nat /\ Midnight(k.when) + 1 <= k.due /\ horizon \in Nat
      /\ memory \subseteq 0..horizon /\ 0..horizon \subseteq Alone!Slots
  BY <1>2, SlotsAre DEF LoneLookups, LoneMade, AloneSafe, PricesSound
<1>4. Unbroken(memory, Midnight(k.when)) /\ Alone!Range(k) \cap 0..k.due \subseteq memory
  BY <1>1, <1>2 DEF LoneWent
<1>5. g \subseteq Alone!Range(k) \cap 0..horizon /\ g \subseteq Alone!Slots /\ Alone!Range(k) \cap 0..k.due \subseteq g
  BY <1>3, <1>4
<1>6. \A t \in g : k.start..t \subseteq g
  <2> HIDE DEF k
  <2> SUFFICES ASSUME NEW t \in g, NEW u \in k.start..t PROVE u \in memory /\ u \in k.start..k.end
    BY DEF Alone!Range
  <2>1. t \in k.start..k.end /\ t \in memory /\ t \in Int /\ u \in Int  BY <1>3 DEF Alone!Range
  <2>2. u \in k.start..k.end  BY <1>3, <2>1
  <2>3. CASE u <= k.due  BY <1>3, <1>4, <2>1, <2>2, <2>3 DEF Alone!Range
  <2>4. CASE ~(u <= k.due)
    <3>1. t >= Midnight(k.when) /\ u \in Midnight(k.when)..t  BY <1>2, <1>3, <2>1, <2>4
    <3> QED  BY <1>4, <2>1, <2>2, <3>1 DEF Unbroken
  <2> QED  BY <2>2, <2>3, <2>4
<1>7. Unbroken(memory, Midnight(k.when)) /\ Unbroken(db, Midnight(k.when))  BY <1>2 DEF LoneWent
<1> HIDE DEF g
<1>8. r = [k EXCEPT !.at = "answered", !.got = g]  OBVIOUS
<1>9. call' = [call EXCEPT ![1] = r]  BY <1>1, <1>8
<1> HIDE DEF k
<1>10. r1 \in LoneLookups /\ Same(k, r1) /\ r1.at = "answered"  BY <1>2 DEF LoneLookups, Same
<1> HIDE DEF r1
<1>11. r \in LoneLookups /\ Same(k, r) /\ r.at = "answered" /\ r.got = g
  BY <1>5, <1>10 DEF LoneLookups, Same
<1> HIDE DEF r
<1> PICK q : q = r  OBVIOUS
<1>12. LoneMade(q)'  BY <1>1, <1>2, <1>11, MadeStays
<1>13. LoneWent(q)'
  BY <1>1, <1>5, <1>6, <1>7, <1>11 DEF LoneWent, Unbroken, Alone!Range, Same
<1>14. ClockSound' /\ PricesSound' /\ StoredSound' /\ call = [c \in {1} |-> call[1]]
  BY <1>1, ClockStays, PricesStay, StoredStays DEF AloneSafe, ClockSound
<1> QED  BY <1>9, <1>11, <1>12, <1>13, <1>14, LoneGoes

(* What a sync stores continues what the site had.                            *)
LEMMA LoneEnds == ASSUME AloneSafe, Alone!Done(1) PROVE AloneSafe'
<1> DEFINE k == call[1]
<1>1. /\ k.at \in {"answered", "failed"} /\ UNCHANGED <<now, horizon, aged, recent, memory, db, faults>>
      /\ call' = [call EXCEPT ![1] = Alone!Idle]
  BY DEF Alone!Done
<1>2. /\ k \in LoneLookups /\ LoneMade(k) /\ LoneWent(k)
      /\ k.when \in Nat /\ Midnight(k.when) \in Nat
  BY <1>1, LoneAtHand
<1>3. k.at = "answered"  BY <1>1, <1>2 DEF LoneLookups
<1>4. /\ k.start \in Nat /\ k.end \in Nat /\ k.due \in Nat /\ horizon \in Nat /\ now \in Nat /\ Midnight(now) \in Nat
      /\ Midnight(k.when) + 1 <= k.due /\ k.start <= k.end
  BY <1>2, SlotsAre DEF LoneLookups, LoneMade, AloneSafe
<1>5. /\ Alone!Range(k) \cap 0..k.due \subseteq k.got /\ k.got \subseteq Alone!Range(k) \cap 0..horizon
      /\ \A t \in k.got : k.start..t \subseteq k.got
  BY <1>2, <1>3 DEF LoneWent
<1>6. PricesSound' /\ call' = [c \in {1} |-> Alone!Idle]
  BY <1>1, PricesStay DEF AloneSafe
<1>7. CASE k.kind \in AloneSites
  <2>1. /\ stored' = [stored EXCEPT ![k.kind] = @ \union k.got]
        /\ synced' = IF k.when = now THEN synced \union {k.kind} ELSE synced
    BY <1>3, <1>7 DEF Alone!Done
  <2>2. synced' \subseteq AloneSites  BY <1>7, <2>1 DEF AloneSafe, ClockSound
  <2>3. ClockSound'  BY <1>1, <2>2 DEF AloneSafe, ClockSound, Midnight, Alone!Day, Alone!Morning
  <2>4. ASSUME NEW s \in AloneSites PROVE SiteSound(s)'
    <3>1. SiteSound(s)  BY DEF AloneSafe, StoredSound
    <3>2. CASE s # k.kind
      <4>1. stored'[s] = stored[s] /\ (s \in synced' => s \in synced)
        BY <2>1, <3>2 DEF AloneSafe, StoredSound
      <4> QED  BY <1>1, <3>1, <4>1 DEF SiteSound, Midnight, Alone!Day, Alone!Morning
    <3>3. CASE s = k.kind
      <4>1. stored'[s] = stored[s] \union k.got  BY <2>1, <3>3 DEF AloneSafe, StoredSound
      <4>2. /\ stored[s] \subseteq 0..horizon /\ \A t, u \in stored[s] : t..u \subseteq stored[s]
            /\ \E t \in stored[s] : t >= Midnight(now) - 2
            /\ ~Alone!Morning(now) \/ s \in synced => Midnight(now) + 1 \in stored[s]
        BY <3>1 DEF SiteSound
      <4>3. k.start \in stored[s] /\ (Alone!Morning(k.when) => k.end = Midnight(k.when) + 1)
        BY <1>2, <3>3 DEF LoneMade
      <4> HIDE DEF k
      <4>4. stored[s] \union k.got \subseteq 0..horizon  BY <1>5, <4>2
      <4>5. \A t, u \in stored[s] \union k.got : t..u \subseteq stored[s] \union k.got
        <5> SUFFICES ASSUME NEW t \in stored[s] \union k.got, NEW u \in stored[s] \union k.got,
                            NEW v \in t..u
                     PROVE  v \in stored[s] \union k.got
          OBVIOUS
        <5>1. t \in Int /\ u \in Int /\ v \in Int /\ t <= v /\ v <= u  BY <1>4, <4>4
        <5>2. \A w \in k.got : w \in Int /\ k.start <= w  BY <1>4, <1>5 DEF Alone!Range
        <5>3. CASE v <= k.start
          <6>1. CASE t \in stored[s]
            <7>1. v \in t..k.start  BY <1>4, <5>1, <5>3
            <7> QED  BY <4>2, <4>3, <6>1, <7>1
          <6>2. CASE t \in k.got
            <7>1. v = k.start  BY <1>4, <5>1, <5>2, <5>3, <6>2
            <7> QED  BY <4>3, <7>1
          <6> QED  BY <6>1, <6>2
        <5>4. CASE ~(v <= k.start)
          <6>1. v \in k.start..u  BY <1>4, <5>1, <5>4
          <6> QED  BY <1>5, <4>2, <4>3, <6>1
        <5> QED  BY <5>3, <5>4
      <4>6. \E t \in stored[s] \union k.got : t >= Midnight(now) - 2  BY <4>2
      <4>7. ~Alone!Morning(now) \/ s \in synced' => Midnight(now) + 1 \in stored[s] \union k.got
        <5>1. CASE ~Alone!Morning(now) \/ s \in synced  BY <4>2, <5>1
        <5>2. CASE Alone!Morning(now) /\ s \notin synced
          <6> SUFFICES ASSUME s \in synced' PROVE Midnight(now) + 1 \in stored[s] \union k.got
            BY <5>2
          <6>1. k.when = now  BY <2>1, <5>2 DEF k
          <6>2. Midnight(now) + 1 \in Alone!Range(k)
            BY <1>4, <4>3, <5>2, <6>1 DEF Alone!Range
          <6>3. Midnight(now) + 1 \in 0..k.due  BY <1>4, <6>1
          <6> QED  BY <1>5, <6>2, <6>3
        <5> QED  BY <5>1, <5>2
      <4> QED  BY <1>1, <4>1, <4>4, <4>5, <4>6, <4>7 DEF SiteSound, Midnight, Alone!Day, Alone!Morning
    <3> QED  BY <3>2, <3>3
  <2>5. stored' = [s \in AloneSites |-> stored'[s]]  BY <2>1 DEF AloneSafe, StoredSound
  <2>6. StoredSound'  BY <2>4, <2>5 DEF StoredSound
  <2> QED  BY <1>6, <2>3, <2>6, LoneIdles
<1>8. CASE k.kind \notin AloneSites
  <2>1. UNCHANGED <<stored, synced>>  BY <1>8 DEF Alone!Done
  <2>2. ClockSound' /\ StoredSound'
    BY <1>1, <2>1, ClockStays, StoredStays DEF AloneSafe, ClockSound
  <2> QED  BY <1>6, <2>2, LoneIdles
<1> QED  BY <1>7, <1>8

-----------------------------------------------------------------------------
LEMMA AloneFirst == ASSUME Alone!Init PROVE AloneSafe
<1>1. /\ now \in (3 * AgileLookback)..(3 * AgileLookback + 1) /\ horizon = 3 * AgileLookback + 1 /\ aged = horizon
      /\ recent = FALSE /\ memory = {} /\ db = 0..horizon /\ synced = {} /\ faults = 0
      /\ stored = [s \in AloneSites |-> 0..now] /\ call = [c \in {1} |-> Alone!Idle]
  BY DEF Alone!Init
<1>2. now \in Nat /\ horizon \in Nat /\ now <= horizon  BY <1>1, AloneNames
<1>3. Midnight(now) = 3 * AgileLookback
  <2>1. now = Midnight(now) \/ now = Midnight(now) + 1 \/ now = Midnight(now) + 2  BY <1>2, MidnightIs
  <2>2. Midnight(now) = 3 * Alone!Day(now) /\ Alone!Day(now) \in Nat  BY <1>2, MidnightIs DEF Midnight
  <2> QED  BY <1>1, <2>1, <2>2, AloneNames
<1>4. Alone!Morning(now) <=> now = Midnight(now)  BY <1>2, MidnightIs
<1>5. ClockSound
  <2>1. now \in 0..(3 * AgileDays - 1) /\ now >= 3 * AgileLookback  BY <1>1, <1>2, AloneNames
  <2>2. horizon = Midnight(now) + 1 /\ aged \in (Midnight(now) + 1)..horizon /\ faults \in 0..AgileFaults
    BY <1>1, <1>2, <1>3, AloneNames
  <2> QED  BY <1>1, <2>1, <2>2 DEF ClockSound
<1>6. PricesSound
  <2>1. Unbroken(0..horizon, Midnight(now)) /\ Unbroken({}, Midnight(now))
    BY <1>2, <1>3, AloneNames, UnbrokenRange DEF Unbroken
  <2> QED  BY <1>1, <2>1 DEF PricesSound
<1>7. ASSUME NEW s \in AloneSites PROVE SiteSound(s)
  <2>1. stored[s] = 0..now  BY <1>1
  <2>2. 0..now \subseteq 0..horizon /\ \A t, u \in 0..now : t..u \subseteq 0..now  BY <1>2
  <2>3. now \in 0..now /\ now >= Midnight(now) - 2  BY <1>1, <1>2, <1>3, AloneNames
  <2>4. ~Alone!Morning(now) => Midnight(now) + 1 \in 0..now  BY <1>1, <1>2, <1>3, <1>4, AloneNames
  <2> QED  BY <1>1, <2>1, <2>2, <2>3, <2>4 DEF SiteSound
<1>8. StoredSound  BY <1>1, <1>7 DEF StoredSound
<1> QED  BY <1>1, <1>5, <1>6, <1>8 DEF AloneSafe

LEMMA AloneNext == AloneSafe /\ [Alone!Next]_agile => AloneSafe'
<1> SUFFICES ASSUME AloneSafe, [Alone!Next]_agile PROVE AloneSafe'  OBVIOUS
<1>1. CASE UNCHANGED agile
  <2>1. UNCHANGED <<now, horizon, aged, recent, memory, db, stored, synced, call, faults>>  BY <1>1 DEF agile
  <2>2. ClockSound' /\ PricesSound' /\ StoredSound'
    BY <2>1, ClockStays, PricesStay, StoredStays DEF AloneSafe, ClockSound
  <2>3. CASE call[1] # Alone!Idle
    <3>1. LoneMade(call[1])' /\ LoneWent(call[1])'
      BY <2>1, <2>3 DEF AloneSafe, LoneMade, LoneWent, Unbroken, Alone!Range
    <3> QED  BY <2>1, <2>2, <2>3, <3>1 DEF AloneSafe
  <2>4. CASE call[1] = Alone!Idle  BY <2>1, <2>2, <2>4 DEF AloneSafe, Alone!Idle
  <2> QED  BY <2>3, <2>4
<1>2. CASE Alone!Publish \/ Alone!QuarterHour \/ Alone!Tick \/ Alone!Restart
  BY <1>2, AlonePublishes, AloneAges, AloneTicks, AloneRestarts
<1>3. CASE Alone!AskCurrent(1) \/ Alone!AskFuture(1) \/ \E s \in AloneSites : Alone!AskSync(1, s)
  BY <1>3, AloneAsks
<1>4. CASE Alone!Load(1) \/ Alone!Spare(1) \/ Alone!Fetch(1) \/ Alone!FetchFails(1) \/ Alone!Answer(1) \/ Alone!Done(1)
  BY <1>4, LoneLoads, LoneSpares, LoneFetches, LoneNeverFails, LoneAnswers, LoneEnds
<1>5. Alone!Next => \/ Alone!Publish \/ Alone!QuarterHour \/ Alone!Tick \/ Alone!Restart
                    \/ Alone!AskCurrent(1) \/ Alone!AskFuture(1) \/ \E s \in AloneSites : Alone!AskSync(1, s)
                    \/ Alone!Load(1) \/ Alone!Spare(1) \/ Alone!Fetch(1) \/ Alone!FetchFails(1) \/ Alone!Answer(1)
                    \/ Alone!Done(1)
  BY DEF Alone!Next
<1> QED  BY <1>1, <1>2, <1>3, <1>4, <1>5

LEMMA AloneMeans == AloneSafe => Alone!TypeOK /\ Alone!AnswerIsComplete /\ Alone!HistoryHasNoHole
<1> SUFFICES ASSUME AloneSafe PROVE Alone!TypeOK /\ Alone!AnswerIsComplete /\ Alone!HistoryHasNoHole
  OBVIOUS
<1>1. Alone!AnswerIsComplete
  <2> SUFFICES ASSUME call[1].at = "answered"
               PROVE  Alone!Range(call[1]) \cap 0..call[1].due \subseteq call[1].got
    BY DEF Alone!AnswerIsComplete
  <2> QED  BY LoneAtHand DEF LoneWent
<1>2. Alone!HistoryHasNoHole  BY DEF Alone!HistoryHasNoHole, AloneSafe, StoredSound, SiteSound
<1>3. Alone!TypeOK
  <2>1. /\ now \in 0..(3 * AgileDays - 1) /\ horizon \in Alone!Slots /\ aged \in 0..horizon /\ recent \in BOOLEAN
        /\ synced \subseteq AloneSites /\ faults \in 0..AgileFaults
    <3>1. horizon \in Nat /\ aged \in Nat /\ aged <= horizon /\ 0..horizon \subseteq Alone!Slots
      BY SlotsAre DEF AloneSafe
    <3>2. horizon \in 0..horizon /\ aged \in 0..horizon  BY <3>1
    <3> QED  BY <3>1, <3>2 DEF AloneSafe, ClockSound
  <2>2. memory \subseteq 0..horizon /\ db \subseteq 0..horizon /\ \A s \in AloneSites : stored[s] \subseteq 0..horizon
    BY DEF AloneSafe, PricesSound, StoredSound, SiteSound
  <2>3. \A c \in {1} : call[c] = Alone!Idle \/
          /\ DOMAIN call[c] = {"at", "kind", "when", "start", "end", "due", "leader", "since", "got"}
          /\ {call[c].when, call[c].start, call[c].end, call[c].due, call[c].since} \cup call[c].got \subseteq Alone!Slots
          /\ call[c].leader \in {1}
    <3>1. call[1] = Alone!Idle \/ call[1] \in LoneLookups  BY DEF AloneSafe
    <3>2. \A k \in LoneLookups :
            /\ DOMAIN k = {"at", "kind", "when", "start", "end", "due", "leader", "since", "got"}
            /\ {k.when, k.start, k.end, k.due, k.since} \cup k.got \subseteq Alone!Slots
            /\ k.leader \in {1}
      BY DEF LoneLookups
    <3> QED  BY <3>1, <3>2
  <2> QED  BY <2>1, <2>2, <2>3 DEF Alone!TypeOK
<1> QED  BY <1>1, <1>2, <1>3

-----------------------------------------------------------------------------
(* What is known of the prices in the parts that are about their answers.     *)
AnswersSound ==
    /\ part = "month" => MonthSafe
    /\ part = "alone" => AloneSafe

(* An answer lacks no price that was published when it was asked for: of VPP  *)
(* rates within a month, whatever fails; of Agile prices one lookup at a      *)
(* time, which also leave no hole in what a site that keeps syncing stores.   *)
THEOREM AnswersHold == PartsSpec => []AnswersInv
<1>1. PartsInit => AnswersSound
  <2> SUFFICES ASSUME PartsInit PROVE AnswersSound  OBVIOUS
  <2>1. part = "month" => Month!Init  BY DEF PartsInit
  <2>2. part = "alone" => Alone!Init  BY DEF PartsInit
  <2> QED  BY <2>1, <2>2, MonthFirst, AloneFirst DEF AnswersSound
<1>2. AnswersSound /\ [PartsNext]_vars => AnswersSound'
  <2> SUFFICES ASSUME AnswersSound, [PartsNext]_vars PROVE AnswersSound'  OBVIOUS
  <2>1. part' = part
    BY DEF PartsNext, vars, ForAgile, ForVpp, ForFlags, ForRules, ForLimits
  <2>2. part = "month" => [Month!Next]_vpp
    BY DEF PartsNext, vars, ForAgile, ForVpp, ForFlags, ForRules, ForLimits, vpp
  <2>3. part = "alone" => [Alone!Next]_agile
    BY DEF PartsNext, vars, ForAgile, ForVpp, ForFlags, ForRules, ForLimits, agile
  <2> QED  BY <2>1, <2>2, <2>3, MonthNext, AloneNext DEF AnswersSound
<1>3. AnswersSound => AnswersInv
  BY MonthMeans, AloneMeans
  DEF AnswersSound, AnswersInv, AnswerIsComplete, LoneHistoryHasNoHole, AnswerHasEveryHour
<1> QED BY <1>1, <1>2, <1>3, PTL DEF PartsSpec

-----------------------------------------------------------------------------
(* The Agile prices of one site, any number of lookups at a time. Beside what *)
(* is said of one lookup: what the site stored since a lookup of its began is *)
(* in memory, without a gap from where that resumes; so is what memory and    *)
(* database have from there to the end of the day; and when a lookup is over, *)
(* memory has the prices until the slot in which it began.                    *)
ManyLookups == [at : {"load", "fetch", "joined", "answer", "answered"}, kind : {"current", "future", "home"},
                when : Alone!Slots, start : Alone!Slots, end : Alone!Slots, due : Alone!Slots,
                leader : SteadyCalls, since : Alone!Slots, got : SUBSET Alone!Slots]
History == stored["home"]
Batches(X) == \A t \in X : Alone!Morning(t) => t + 1 \in X

TimesSound ==
    /\ now \in 0..(3 * AgileDays - 1) /\ now >= 3 * AgileLookback /\ now <= horizon
    /\ \/ horizon = Midnight(now) + 1
       \/ horizon = Midnight(now) + 4 /\ ~Alone!Morning(now)
    /\ aged \in (Midnight(now) + 1)..horizon
    /\ recent \in BOOLEAN /\ synced \subseteq {"home"} /\ faults \in 0..AgileFaults
SharedSound ==
    /\ memory \subseteq 0..horizon /\ db \subseteq 0..horizon
    /\ Unbroken(memory, Midnight(now)) /\ Unbroken(db, Midnight(now))
    /\ Batches(memory) /\ Batches(db)
    /\ recent => (IF Alone!Morning(now) THEN Midnight(now) - 3 ELSE Midnight(now))..now \subseteq memory
HistorySound ==
    /\ stored = [s \in {"home"} |-> History]
    /\ History \subseteq 0..horizon
    /\ \A t, u \in History : t..u \subseteq History
    /\ \E t \in History : t >= Midnight(now) - 2
    /\ ~Alone!Morning(now) \/ "home" \in synced => Midnight(now) + 1 \in History

(* When and for what the lookup k was made.                                   *)
Asked(k) ==
    /\ k.since \in {now - 1, now} /\ k.when \in {k.since, k.since + 1} /\ k.when <= now
    /\ Midnight(k.since) = Midnight(k.when)
    /\ k.start <= k.end /\ k.due <= horizon
    /\ k.kind # "home" => k.start = k.when /\ k.end \in {k.when, Midnight(k.when) + 5}
    /\ k.kind = "home" =>
        /\ k.end = Midnight(k.when) + IF Alone!Morning(k.when) THEN 1 ELSE 3
        /\ ~Alone!Morning(k.when) => Midnight(k.when) + 1 <= k.start
(* What there is from where it resumes.                                       *)
Evening(k, X) == {t \in X : k.start <= t /\ t <= Midnight(k.when) + 2}
Resumes(k) == k.kind = "home" =>
    /\ k.start \in History
    /\ \A t \in History : t > k.start => k.start..t \subseteq memory
    /\ ~Alone!Morning(k.when) =>
        /\ \A t \in Evening(k, memory) : k.start..t \subseteq memory
        /\ \A t \in Evening(k, db) : k.start..t \subseteq memory \union db
(* How far it has got.                                                        *)
Due(k) == IF Alone!Morning(k.when) THEN Midnight(k.when) + 1 ELSE k.since
Goes(k) ==
    /\ k.at \in {"load", "fetch"} => k.since = k.when /\ k.start <= Alone!CheckEnd(k)
    /\ k.at = "answer" /\ k.kind = "home" => k.start..Due(k) \subseteq memory
    /\ k.at = "answered" /\ k.kind = "home" =>
        /\ k.got \subseteq (k.start..k.end) \cap memory
        /\ \A t \in k.got : k.start..t \subseteq k.got
        /\ Alone!Morning(k.when) => Midnight(k.when) + 1 \in k.got
(* The lookup k joined that of j.                                             *)
Together(j, k) ==
    /\ j \in ManyLookups /\ j.at \in {"load", "fetch"} /\ j.when = k.since
    /\ Alone!FetchStart(j) = Alone!FetchStart(k)
LookSound(k) ==
    /\ k \in ManyLookups /\ Asked(k) /\ Resumes(k) /\ Goes(k)
    /\ k.at = "joined" => Together(call[k.leader], k)
ManySafe ==
    /\ TimesSound /\ SharedSound /\ HistorySound
    /\ call = [c \in SteadyCalls |-> call[c]]
    /\ \A c \in SteadyCalls : call[c] # Alone!Idle => LookSound(call[c])

-----------------------------------------------------------------------------
(* The operators of the part are those of the lookups one at a time.          *)
LEMMA SteadyIs ==
    /\ Steadily!Idle = Alone!Idle /\ Steadily!Slots = Alone!Slots
    /\ \A t : 3 * Steadily!Day(t) = Midnight(t) /\ (Steadily!Morning(t) <=> Alone!Morning(t))
    /\ Steadily!SyncEnd = Midnight(now) + IF Alone!Morning(now) THEN 1 ELSE 3
    /\ \A k : /\ Steadily!CheckEnd(k) = Alone!CheckEnd(k) /\ Steadily!Covered(k) = Alone!Covered(k)
              /\ Steadily!Fetched(k) = Alone!Fetched(k) /\ Steadily!Range(k) = Alone!Range(k)
              /\ Steadily!Cooling(k) = (Alone!CheckEnd(k) > Midnight(k.when) + 1 /\ recent
                                            /\ Alone!Range(k) \cap memory # {})
BY DEF Steadily!Idle, Alone!Idle, Steadily!Slots, Alone!Slots, Steadily!Day, Midnight, Alone!Day, Steadily!Morning,
       Alone!Morning, Steadily!SyncEnd, Steadily!CheckEnd, Alone!CheckEnd, Steadily!Covered, Alone!Covered,
       Steadily!Fetched, Alone!Fetched, Steadily!FetchStart, Alone!FetchStart, Steadily!Range, Alone!Range,
       Steadily!Cooling, Steadily!Expected, Alone!Expected

LEMMA TimesSlots ==
    ASSUME TimesSound
    PROVE  /\ now \in Nat /\ horizon \in Nat /\ aged \in Nat /\ aged <= horizon /\ now <= horizon
           /\ Midnight(now) \in Nat /\ Midnight(now) <= now /\ now <= Midnight(now) + 2
           /\ Midnight(now) <= 3 * AgileDays - 3 /\ Midnight(now) >= 3
           /\ 0..horizon \subseteq Alone!Slots /\ 0..(Midnight(now) + 5) \subseteq Alone!Slots
           /\ Midnight(now) + 1 <= horizon /\ (horizon = Midnight(now) + 1 \/ horizon = Midnight(now) + 4)
           /\ (Alone!Morning(now) <=> now = Midnight(now))
<1>1. now \in Nat /\ now <= 3 * AgileDays - 1 /\ now >= 3 * AgileLookback  BY AloneNames DEF TimesSound
<1>2. Midnight(now) \in Nat /\ Midnight(now) <= now /\ now <= Midnight(now) + 2
      /\ (Alone!Morning(now) <=> now = Midnight(now))
  BY <1>1, MidnightIs
<1>3. Midnight(now) <= 3 * AgileDays - 3 /\ Midnight(now) >= 3
  <2>1. Alone!Day(now) \in Nat /\ Midnight(now) = 3 * Alone!Day(now)  BY <1>1, MidnightIs DEF Midnight
  <2> QED  BY <1>1, <1>2, <2>1, AloneNames
<1>4. horizon \in Nat /\ aged \in Nat /\ aged <= horizon /\ Midnight(now) + 1 <= horizon
      /\ (horizon = Midnight(now) + 1 \/ horizon = Midnight(now) + 4) /\ now <= horizon
  BY <1>2 DEF TimesSound
<1>5. 0..horizon \subseteq Alone!Slots /\ 0..(Midnight(now) + 5) \subseteq Alone!Slots
  BY <1>2, <1>3, <1>4, AloneNames
<1> QED  BY <1>1, <1>2, <1>3, <1>4, <1>5

(* The times of a lookup under way.                                           *)
LEMMA LookTimes ==
    ASSUME TimesSound, NEW k \in ManyLookups, Asked(k)
    PROVE  /\ k.when \in Nat /\ k.start \in Nat /\ k.end \in Nat /\ k.since \in Nat /\ k.due \in Nat
           /\ Midnight(k.when) \in Nat /\ Midnight(k.when) <= k.when /\ k.when <= Midnight(k.when) + 2
           /\ (Alone!Morning(k.when) <=> k.when = Midnight(k.when))
           /\ k.when <= now /\ now <= k.when + 1 /\ k.since <= k.when /\ Midnight(k.when) <= k.since
           /\ Midnight(k.when) = Midnight(now) \/ (Midnight(k.when) + 3 = Midnight(now) /\ k.when + 1 = now
                                                     /\ now = Midnight(now) /\ k.since = k.when)
           /\ Alone!FetchStart(k) \in Nat /\ Alone!FetchStart(k) <= Midnight(k.when) /\ Alone!FetchStart(k) <= k.start
           /\ k.end <= Midnight(k.when) + 5
           /\ Alone!FetchStart(k) = IF k.start >= Midnight(k.when) THEN Midnight(k.when) ELSE k.start
           /\ Alone!Fetched(k) = Alone!FetchStart(k)..(Midnight(k.when) + 5)
           /\ Alone!Expected(k.when) = Midnight(k.when) + IF Alone!Morning(k.when) THEN 1 ELSE 4
<1>1. k.when \in Nat /\ k.start \in Nat /\ k.end \in Nat /\ k.since \in Nat /\ k.due \in Nat  BY SlotsAre DEF ManyLookups
<1>2. now \in Nat /\ Midnight(now) \in Nat /\ Midnight(now) <= now /\ now <= Midnight(now) + 2  BY TimesSlots
<1>3. Midnight(k.when) \in Nat /\ Midnight(k.when) <= k.when /\ k.when <= Midnight(k.when) + 2
      /\ (Alone!Morning(k.when) <=> k.when = Midnight(k.when))
  BY <1>1, MidnightIs
<1>4. Midnight(k.since) <= k.since  BY <1>1, MidnightIs
<1>5. k.when <= now /\ now <= k.when + 1 /\ k.since <= k.when /\ Midnight(k.when) <= k.since /\ k.since >= now - 1
  BY <1>1, <1>2, <1>4 DEF Asked
<1>6. \/ Midnight(k.when) = Midnight(now)
      \/ Midnight(k.when) + 3 = Midnight(now) /\ k.when + 1 = now /\ now = Midnight(now) /\ k.since = k.when
  <2>1. k.when = now \/ k.when + 1 = now  BY <1>1, <1>2, <1>5
  <2>2. CASE k.when + 1 = now
    <3>1. \/ Midnight(now) = Midnight(k.when)
          \/ Midnight(now) = Midnight(k.when) + 3 /\ k.when = Midnight(k.when) + 2
      BY <1>1, <2>2, MidnightIs
    <3>2. k.since = k.when  BY <1>1, <1>5, <2>2
    <3> QED  BY <1>1, <1>2, <1>3, <2>2, <3>1, <3>2
  <2> QED  BY <2>1, <2>2
<1>7. /\ Alone!FetchStart(k) = IF k.start >= Midnight(k.when) THEN Midnight(k.when) ELSE k.start
      /\ Alone!Fetched(k) = Alone!FetchStart(k)..(Midnight(k.when) + 5)
  BY FetchedIs
<1>8. Alone!FetchStart(k) \in Nat /\ Alone!FetchStart(k) <= Midnight(k.when) /\ Alone!FetchStart(k) <= k.start
  BY <1>1, <1>3, <1>7
<1>9. Alone!Expected(k.when) = Midnight(k.when) + IF Alone!Morning(k.when) THEN 1 ELSE 4
  BY <1>1, TimesAre
<1>10. k.end <= Midnight(k.when) + 5
  <2>1. CASE k.kind = "home"  BY <1>1, <1>3, <2>1 DEF Asked
  <2>2. CASE k.kind # "home"  BY <1>1, <1>3, <2>2 DEF Asked
  <2> QED  BY <2>1, <2>2
<1> QED  BY <1>1, <1>3, <1>5, <1>6, <1>7, <1>8, <1>9, <1>10

-----------------------------------------------------------------------------
(* A lookup k under way brings prices, of its days, to what memory has.       *)
Brings(k, X, Y) ==
    \/ X = db \cap Alone!Fetched(k) /\ Y = {}
    \/ X = Alone!Fetched(k) \cap 0..horizon /\ (Y = X \/ Y = {})
LEMMA Flies ==
    ASSUME ManySafe, NEW c \in SteadyCalls, call[c].at # "idle"
    PROVE  LookSound(call[c]) /\ call[c] \in ManyLookups /\ Asked(call[c])
<1>1. call[c] # Alone!Idle  BY DEF Alone!Idle
<1> QED  BY <1>1 DEF ManySafe, LookSound

(* Where k has nothing, the lookup j of an evening has no gap before it.      *)
LEMMA NoGapBefore ==
    ASSUME ManySafe, NEW k, NEW j, LookSound(k), LookSound(j), j.kind = "home", ~Alone!Morning(j.when),
           NEW t \in Nat, j.start <= t, t <= Midnight(j.when) + 2, Alone!FetchStart(k) <= t,
           NEW u \in j.start..t, u < Alone!FetchStart(k)
    PROVE  u \in memory
<1>1. k \in ManyLookups /\ j \in ManyLookups /\ Asked(k) /\ Asked(j) /\ Resumes(j) /\ Resumes(k)  BY DEF LookSound
<1>2. TimesSound  BY DEF ManySafe
<1>3. /\ j.start \in Nat /\ k.start \in Nat /\ Midnight(k.when) \in Nat /\ Midnight(j.when) \in Nat
      /\ Alone!FetchStart(k) \in Nat
      /\ Alone!FetchStart(k) = IF k.start >= Midnight(k.when) THEN Midnight(k.when) ELSE k.start
      /\ Midnight(j.when) = Midnight(now) \/ Midnight(j.when) + 3 = Midnight(now)
      /\ Midnight(k.when) = Midnight(now) \/ Midnight(k.when) + 3 = Midnight(now)
      /\ k.when \in Nat /\ Midnight(k.when) <= k.when /\ Midnight(now) \in Nat
  BY <1>1, <1>2, LookTimes, TimesSlots
<1>4. Midnight(j.when) + 1 <= j.start  BY <1>1 DEF Asked
<1>5. u \in Nat /\ j.start <= u /\ u <= t  BY <1>3
<1>6. Alone!FetchStart(k) # Midnight(k.when)  BY <1>3, <1>4, <1>5
<1>7. Alone!FetchStart(k) = k.start /\ k.start < Midnight(k.when)  BY <1>3, <1>6
<1>8. k.kind = "home"  BY <1>1, <1>3, <1>7 DEF Asked
<1>9. k.start \in History /\ k.start > j.start  BY <1>1, <1>3, <1>5, <1>7, <1>8 DEF Resumes
<1>10. j.start..k.start \subseteq memory  BY <1>1, <1>9 DEF Resumes
<1> QED  BY <1>3, <1>5, <1>7, <1>10

LEMMA BroughtIs ==
    ASSUME ManySafe, NEW k, LookSound(k), NEW X, NEW Y, Brings(k, X, Y), memory' = memory \union X, db' = db \union Y
    PROVE  /\ X \subseteq 0..horizon /\ Y \subseteq 0..horizon /\ X \in SUBSET Nat /\ Y \in SUBSET Nat
           /\ memory \in SUBSET Nat /\ db \in SUBSET Nat
           /\ X \subseteq Alone!FetchStart(k)..(Midnight(k.when) + 5)
           /\ Y \subseteq Alone!FetchStart(k)..(Midnight(k.when) + 5)
           /\ Alone!FetchStart(k) \in Nat /\ Alone!FetchStart(k) <= Midnight(now)
           /\ Midnight(k.when) \in Nat /\ Midnight(k.when) <= Midnight(now)
<1>1. k \in ManyLookups /\ Asked(k)  BY DEF LookSound
<1>2. TimesSound /\ memory \subseteq 0..horizon /\ db \subseteq 0..horizon  BY DEF ManySafe, SharedSound
<1>3. /\ Alone!FetchStart(k) \in Nat /\ Alone!FetchStart(k) <= Midnight(k.when) /\ Midnight(k.when) \in Nat
      /\ Midnight(k.when) <= Midnight(now) /\ Midnight(now) \in Nat /\ horizon \in Nat
      /\ Alone!Fetched(k) = Alone!FetchStart(k)..(Midnight(k.when) + 5)
  BY <1>1, <1>2, LookTimes, TimesSlots
<1>4. memory \in SUBSET Nat /\ db \in SUBSET Nat  BY <1>2, <1>3
<1>5. X \subseteq 0..horizon /\ X \subseteq Alone!FetchStart(k)..(Midnight(k.when) + 5)
      /\ Y \subseteq 0..horizon /\ Y \subseteq Alone!FetchStart(k)..(Midnight(k.when) + 5)
  BY <1>2, <1>3 DEF Brings
<1>6. X \in SUBSET Nat /\ Y \in SUBSET Nat  BY <1>3, <1>5
<1> QED  BY <1>3, <1>4, <1>5, <1>6

LEMMA BroughtUnbroken ==
    ASSUME ManySafe, NEW k, LookSound(k), NEW X, NEW Y, Brings(k, X, Y), memory' = memory \union X, db' = db \union Y,
           now' = now
    PROVE  Unbroken(memory', Midnight(now)) /\ Unbroken(db', Midnight(now))
<1>1. /\ Alone!FetchStart(k) \in Nat /\ Alone!FetchStart(k) <= Midnight(now) /\ Midnight(now) \in Nat
      /\ Midnight(k.when) \in Nat /\ horizon \in Nat /\ db \in SUBSET Int
      /\ Alone!Fetched(k) = Alone!FetchStart(k)..(Midnight(k.when) + 5)
  BY BroughtIs, TimesSlots, FetchedIs DEF ManySafe
<1>2. Unbroken(memory, Midnight(now)) /\ Unbroken(db, Midnight(now))  BY DEF ManySafe, SharedSound
<1>3. Unbroken({}, Midnight(now))  BY DEF Unbroken
<1>4. Unbroken(db \cap Alone!Fetched(k), Midnight(now))  BY <1>1, <1>2, UnbrokenMeets
<1>5. Unbroken(Alone!Fetched(k) \cap 0..horizon, Midnight(now))
  <2>1. Unbroken(Alone!Fetched(k), Midnight(now))  BY <1>1, UnbrokenRange
  <2>2. Alone!Fetched(k) \in SUBSET Int  BY <1>1
  <2>3. 0 \in Int /\ 0 <= Midnight(now) /\ Midnight(now) \in Int /\ horizon \in Int  BY <1>1
  <2> QED  BY <2>1, <2>2, <2>3, UnbrokenMeets
<1>6. Unbroken(X, Midnight(now)) /\ Unbroken(Y, Midnight(now))  BY <1>3, <1>4, <1>5 DEF Brings
<1> QED  BY <1>2, <1>6, UnbrokenJoins

LEMMA MorningIs == ASSUME NEW t \in Nat, Alone!Morning(t) PROVE t = Midnight(t) /\ t % 3 = 0
BY MidnightIs DEF Alone!Morning
LEMMA BroughtBatches ==
    ASSUME ManySafe, NEW k, LookSound(k), NEW X, NEW Y, Brings(k, X, Y), memory' = memory \union X, db' = db \union Y
    PROVE  Batches(memory') /\ Batches(db')
<1>1. /\ X \in SUBSET Nat /\ X \subseteq 0..horizon /\ Alone!FetchStart(k) \in Nat
      /\ X \subseteq Alone!FetchStart(k)..(Midnight(k.when) + 5) /\ Midnight(k.when) \in Nat
      /\ Midnight(now) \in Nat /\ horizon \in Nat /\ (horizon = Midnight(now) + 1 \/ horizon = Midnight(now) + 4)
      /\ Alone!Fetched(k) = Alone!FetchStart(k)..(Midnight(k.when) + 5)
      /\ k.when \in Nat /\ now \in Nat
  BY BroughtIs, TimesSlots, LookTimes, FetchedIs DEF ManySafe, LookSound
<1>2. Batches(memory) /\ Batches(db)  BY DEF ManySafe, SharedSound
<1>3. ASSUME NEW t \in X, Alone!Morning(t) PROVE t + 1 <= horizon /\ t + 1 <= Midnight(k.when) + 5 /\ t + 1 \in Alone!Fetched(k)
  <2>1. t \in Nat /\ t <= horizon /\ t <= Midnight(k.when) + 5 /\ Alone!FetchStart(k) <= t  BY <1>1
  <2>2. t = 3 * Alone!Day(t) /\ Alone!Day(t) \in Nat  BY <1>3, <2>1, MidnightIs DEF Midnight
  <2>3. Midnight(now) = 3 * Alone!Day(now) /\ Alone!Day(now) \in Nat  BY <1>1, MidnightIs DEF Midnight
  <2>4. Midnight(k.when) = 3 * Alone!Day(k.when) /\ Alone!Day(k.when) \in Nat  BY <1>1, MidnightIs DEF Midnight
  <2>5. t + 1 <= horizon  BY <1>1, <2>1, <2>2, <2>3
  <2>6. t + 1 <= Midnight(k.when) + 5  BY <1>1, <2>1, <2>2, <2>4
  <2> QED  BY <1>1, <2>1, <2>5, <2>6
<1>4. Batches(X)
  <2> SUFFICES ASSUME NEW t \in X, Alone!Morning(t) PROVE t + 1 \in X  BY DEF Batches
  <2>1. t + 1 <= horizon /\ t + 1 \in Alone!Fetched(k) /\ t \in Nat  BY <1>1, <1>3
  <2>2. t + 1 \in 0..horizon  BY <1>1, <2>1
  <2>3. t \in db => t + 1 \in db  BY <1>2 DEF Batches
  <2> QED  BY <2>1, <2>2, <2>3 DEF Brings
<1>5. Y = {} \/ Y = X  BY DEF Brings
<1> QED  BY <1>2, <1>4, <1>5 DEF Batches

(* The evening of a lookup j stays without a gap.                             *)
LEMMA BroughtResumes ==
    ASSUME ManySafe, NEW k, LookSound(k), NEW X, NEW Y, Brings(k, X, Y), memory' = memory \union X, db' = db \union Y,
           stored' = stored, NEW j, LookSound(j)
    PROVE  Resumes(j)'
<1> SUFFICES ASSUME j.kind = "home" PROVE Resumes(j)'  BY DEF Resumes
<1>1. /\ Resumes(j) /\ Asked(j) /\ j \in ManyLookups /\ TimesSound /\ k \in ManyLookups /\ Asked(k)
  BY DEF LookSound, ManySafe
<1>2. j.start \in History' /\ \A t \in History' : t > j.start => j.start..t \subseteq memory'
  BY <1>1 DEF Resumes, History
<1>3. /\ X \in SUBSET Nat /\ Y \in SUBSET Nat /\ memory \in SUBSET Nat /\ db \in SUBSET Nat
      /\ X \subseteq Alone!FetchStart(k)..(Midnight(k.when) + 5) /\ Y \subseteq Alone!FetchStart(k)..(Midnight(k.when) + 5)
      /\ X \subseteq 0..horizon
      /\ Alone!FetchStart(k) \in Nat /\ Midnight(k.when) \in Nat /\ j.start \in Nat /\ horizon \in Nat
      /\ Alone!Fetched(k) = Alone!FetchStart(k)..(Midnight(k.when) + 5) /\ Midnight(j.when) \in Nat
  BY <1>1, BroughtIs, LookTimes, TimesSlots, FetchedIs
<1>4. ASSUME ~Alone!Morning(j.when)
      PROVE  /\ \A t \in Evening(j, memory') : j.start..t \subseteq memory'
             /\ \A t \in Evening(j, db') : j.start..t \subseteq memory' \union db'
  <2>1. ASSUME NEW t \in X \union Y, j.start <= t, t <= Midnight(j.when) + 2, NEW u \in j.start..t,
               u < Alone!FetchStart(k)
        PROVE  u \in memory
    <3>1. t \in Nat /\ Alone!FetchStart(k) <= t  BY <1>3, <2>1
    <3> QED  BY <1>4, <2>1, <3>1, NoGapBefore
  <2>2. ASSUME NEW t \in X \union Y, NEW u \in j.start..t, ~(u < Alone!FetchStart(k))
        PROVE  u \in Alone!Fetched(k)
    <3>1. t \in Nat /\ t <= Midnight(k.when) + 5 /\ u \in Int /\ u <= t  BY <1>3, <2>2
    <3> QED  BY <1>3, <2>2, <3>1
  <2>3. ASSUME NEW t \in Evening(j, X), NEW u \in j.start..t PROVE u \in memory'
    <3>1. t \in X /\ j.start <= t /\ t <= Midnight(j.when) + 2  BY DEF Evening
    <3>2. CASE u < Alone!FetchStart(k)  BY <2>1, <3>1, <3>2
    <3>3. CASE ~(u < Alone!FetchStart(k))
      <4>1. u \in Alone!Fetched(k)  BY <2>2, <3>1, <3>3
      <4>2. CASE X = db \cap Alone!Fetched(k)
        <5>1. t \in Evening(j, db)  BY <3>1, <4>2 DEF Evening
        <5>2. u \in memory \union db  BY <1>1, <1>4, <5>1 DEF Resumes
        <5> QED  BY <4>1, <4>2, <5>2
      <4>3. CASE X = Alone!Fetched(k) \cap 0..horizon
        <5>1. u \in 0..horizon  BY <1>3, <3>1
        <5> QED  BY <4>1, <4>3, <5>1
      <4> QED  BY <4>2, <4>3 DEF Brings
    <3> QED  BY <3>2, <3>3
  <2>4. ASSUME NEW t \in Evening(j, memory'), NEW u \in j.start..t PROVE u \in memory'
    <3>1. CASE t \in memory
      <4>1. t \in Evening(j, memory)  BY <3>1 DEF Evening
      <4> QED  BY <1>1, <1>4, <4>1 DEF Resumes
    <3>2. CASE t \in X
      <4>1. t \in Evening(j, X)  BY <3>2 DEF Evening
      <4> QED  BY <2>3, <4>1
    <3> QED  BY <3>1, <3>2 DEF Evening
  <2>5. ASSUME NEW t \in Evening(j, db'), NEW u \in j.start..t PROVE u \in memory' \union db'
    <3>1. CASE t \in db
      <4>1. t \in Evening(j, db)  BY <3>1 DEF Evening
      <4>2. u \in memory \union db  BY <1>1, <1>4, <4>1 DEF Resumes
      <4> QED  BY <4>2
    <3>2. CASE t \in Y
      <4>1. t \in X  BY <3>2 DEF Brings
      <4>2. t \in Evening(j, X)  BY <4>1 DEF Evening
      <4> QED  BY <2>3, <4>2
    <3> QED  BY <3>1, <3>2 DEF Evening
  <2> QED  BY <2>4, <2>5
<1>5. Evening(j, memory)' = Evening(j, memory') /\ Evening(j, db)' = Evening(j, db')
  BY DEF Evening
<1> QED  BY <1>2, <1>4, <1>5 DEF Resumes

-----------------------------------------------------------------------------
(* A lookup is over, for itself and for those that joined it.                 *)
LEMMA OneDay ==
    ASSUME ManySafe, NEW k, LookSound(k), NEW j, LookSound(j), Together(k, j), j.kind = "home"
    PROVE  /\ Midnight(j.when) = Midnight(k.when) /\ j.since = k.when /\ k.since = k.when
           /\ Alone!FetchStart(j) = Alone!FetchStart(k) /\ k.start <= Alone!CheckEnd(k)
           /\ k.kind # "home" => k.start = k.when
           /\ Alone!Morning(j.when) => k.when = Midnight(k.when)
BY LookTimes DEF LookSound, Together, Asked, Goes, ManySafe

LEMMA FetchLands ==
    ASSUME ManySafe, NEW k, LookSound(k), NEW j, LookSound(j), Together(k, j), j.kind = "home",
           memory' = memory \union (Alone!Fetched(k) \cap 0..horizon)
    PROVE  j.start..Due(j) \subseteq memory'
<1>1. TimesSound /\ j \in ManyLookups /\ Asked(j) /\ k \in ManyLookups /\ Asked(k)  BY DEF ManySafe, LookSound
<1>2. Midnight(j.when) = Midnight(k.when) /\ Alone!FetchStart(j) = Alone!FetchStart(k)  BY OneDay
<1>3. Alone!Fetched(k) = Alone!FetchStart(j)..(Midnight(j.when) + 5)  BY <1>2, FetchedIs
<1>4. /\ Alone!FetchStart(j) \in Nat /\ Alone!FetchStart(j) <= j.start /\ j.start \in Nat /\ j.since \in Nat
      /\ Midnight(j.when) \in Nat /\ j.since <= j.when /\ j.when <= Midnight(j.when) + 2 /\ j.when <= now
      /\ Midnight(j.when) <= Midnight(now) /\ j.when \in Nat
  BY <1>1, LookTimes, TimesSlots
<1>5. now <= horizon /\ Midnight(now) + 1 <= horizon /\ horizon \in Nat /\ now \in Nat /\ Midnight(now) \in Nat
  BY <1>1, TimesSlots
<1>6. Due(j) \in Nat /\ Due(j) <= Midnight(j.when) + 5 /\ Due(j) <= horizon  BY <1>4, <1>5 DEF Due
<1>7. \A t \in j.start..Due(j) : t \in Alone!FetchStart(j)..(Midnight(j.when) + 5) /\ t \in 0..horizon
  BY <1>4, <1>5, <1>6
<1> QED  BY <1>3, <1>7

LEMMA SameStart ==
    ASSUME NEW m \in Nat, NEW a \in Nat, NEW b \in Nat, NEW x, NEW y,
           x = IF a >= m THEN m ELSE a, y = IF b >= m THEN m ELSE b, x = y
    PROVE  (a < m => b = a) /\ (a >= m => b >= m)
OBVIOUS
LEMMA SpareLands ==
    ASSUME ManySafe, NEW k, LookSound(k), NEW j, LookSound(j), Together(k, j), j.kind = "home",
           Steadily!Covered(k) \/ Steadily!Cooling(k)
    PROVE  j.start..Due(j) \subseteq memory
<1>1. TimesSound /\ j \in ManyLookups /\ Asked(j) /\ Resumes(j) /\ k \in ManyLookups /\ Asked(k) /\ Resumes(k)
  BY DEF ManySafe, LookSound
<1>2. /\ Midnight(j.when) = Midnight(k.when) /\ j.since = k.when /\ Alone!FetchStart(j) = Alone!FetchStart(k)
      /\ k.start <= Alone!CheckEnd(k) /\ (k.kind # "home" => k.start = k.when)
      /\ (Alone!Morning(j.when) => k.when = Midnight(k.when))
  BY OneDay
<1>3. /\ j.start \in Nat /\ j.since \in Nat /\ j.when \in Nat /\ Midnight(j.when) \in Nat
      /\ Midnight(j.when) <= j.since /\ j.since <= j.when /\ j.when <= Midnight(j.when) + 2
      /\ Alone!FetchStart(j) = IF j.start >= Midnight(j.when) THEN Midnight(j.when) ELSE j.start
      /\ Midnight(j.when) = Midnight(now) \/ (Midnight(j.when) + 3 = Midnight(now) /\ j.when + 1 = now
                                                /\ now = Midnight(now) /\ j.since = j.when)
      /\ (Alone!Morning(j.when) <=> j.when = Midnight(j.when))
  BY <1>1, LookTimes
<1>4. /\ k.start \in Nat /\ k.end \in Nat /\ k.when \in Nat /\ k.start <= k.end
      /\ Alone!FetchStart(k) = IF k.start >= Midnight(k.when) THEN Midnight(k.when) ELSE k.start
      /\ Alone!Expected(k.when) = Midnight(k.when) + IF Alone!Morning(k.when) THEN 1 ELSE 4
      /\ (Alone!Morning(k.when) <=> k.when = Midnight(k.when)) /\ k.when <= Midnight(k.when) + 2
  BY <1>1, LookTimes DEF Asked
<1>0. /\ j.start < Midnight(j.when) => k.start = j.start
      /\ j.start >= Midnight(j.when) => k.start >= Midnight(j.when)
  <2> DEFINE x == Alone!FetchStart(j)
             y == Alone!FetchStart(k)
             m == Midnight(j.when)
  <2>1. m \in Nat /\ x = (IF j.start >= m THEN m ELSE j.start) /\ j.start \in Nat  BY <1>3
  <2>2. y = (IF k.start >= m THEN m ELSE k.start) /\ k.start \in Nat  BY <1>2, <1>4
  <2>3. x = y  BY <1>2
  <2> HIDE DEF x, y, m
  <2>4. (j.start < m => k.start = j.start) /\ (j.start >= m => k.start >= m)  BY <2>1, <2>2, <2>3, SameStart
  <2> QED  BY <2>4 DEF m
<1>5. now \in Nat /\ Midnight(now) \in Nat /\ Midnight(now) <= now /\ now <= Midnight(now) + 2
      /\ (Alone!Morning(now) <=> now = Midnight(now))
  BY <1>1, TimesSlots
<1>6. /\ memory \in SUBSET Int /\ Unbroken(memory, Midnight(now)) /\ Batches(memory)
      /\ recent => (IF Alone!Morning(now) THEN Midnight(now) - 3 ELSE Midnight(now))..now \subseteq memory
  BY <1>1, TimesSlots DEF ManySafe, SharedSound
<1>7. Alone!CheckEnd(k) \in Nat /\ Alone!CheckEnd(k) = IF k.end < Alone!Expected(k.when) THEN k.end ELSE Alone!Expected(k.when)
  BY <1>1, <1>3, <1>4, <1>2 DEF Alone!CheckEnd
<1>8. /\ k.kind = "home" => k.end = Midnight(k.when) + IF Alone!Morning(k.when) THEN 1 ELSE 3
      /\ k.kind = "home" /\ ~Alone!Morning(k.when) => Midnight(k.when) + 1 <= k.start
      /\ k.kind # "home" => k.end \in {k.when, Midnight(k.when) + 5}
      /\ ~Alone!Morning(j.when) => Midnight(j.when) + 1 <= j.start
  BY <1>1 DEF Asked
<1>9. \/ k.start..Alone!CheckEnd(k) \subseteq memory
      \/ Alone!CheckEnd(k) > Midnight(k.when) + 1 /\ recent /\ Alone!Range(k) \cap memory # {}
  BY SteadyIs DEF Alone!Covered
<1>10. CASE Alone!Morning(j.when)
  <2>1. Due(j) = Midnight(j.when) + 1 /\ Midnight(j.when) = Midnight(now)  BY <1>3, <1>5, <1>10 DEF Due
  <2>2. Alone!Morning(k.when) /\ Alone!CheckEnd(k) <= Midnight(k.when) + 1  BY <1>2, <1>4, <1>7, <1>10
  <2>3. k.start..Alone!CheckEnd(k) \subseteq memory  BY <1>2, <1>3, <1>7, <1>9, <2>2
  <2>4. CASE j.start < Midnight(j.when)
    <3>1. k.start = j.start /\ k.start < Midnight(k.when)  BY <1>0, <1>2, <2>4
    <3>2. k.kind = "home"  BY <1>2, <1>3, <3>1
    <3>3. Alone!CheckEnd(k) = Midnight(k.when) + 1  BY <1>2, <1>3, <1>4, <1>7, <1>8, <2>2, <3>2
    <3> QED  BY <1>2, <2>1, <2>3, <3>1, <3>3
  <2>5. CASE j.start >= Midnight(j.when)
    <3>1. k.start >= Midnight(k.when)  BY <1>0, <1>2, <2>5
    <3>2. k.start \in memory  BY <1>2, <1>4, <1>7, <2>3
    <3>3. Midnight(now)..k.start \subseteq memory  BY <1>2, <1>6, <2>1, <3>1, <3>2 DEF Unbroken
    <3>4. Midnight(now) \in memory  BY <1>2, <1>4, <1>5, <2>1, <3>1, <3>3
    <3>5. Alone!Morning(Midnight(now))  BY <1>2, <1>10, <1>3, <2>1
    <3>6. Midnight(now) + 1 \in memory  BY <1>6, <3>4, <3>5 DEF Batches
    <3>7. Midnight(now)..(Midnight(now) + 1) \subseteq memory  BY <1>6, <3>6, <1>5 DEF Unbroken
    <3> QED  BY <1>3, <2>1, <2>5, <3>7
  <2> QED  BY <1>3, <2>4, <2>5
<1>11. CASE ~Alone!Morning(j.when)
  <2>1. Due(j) = k.when /\ Midnight(j.when) + 1 <= j.start  BY <1>2, <1>8, <1>11 DEF Due
  <2>2. CASE k.when < j.start
    BY <1>3, <1>4, <2>1, <2>2
  <2>3. CASE j.start <= k.when
    <3>1. ~Alone!Morning(k.when) /\ k.start >= Midnight(k.when) + 1 /\ k.when >= Midnight(k.when) + 1
      BY <1>2, <1>3, <1>4, <1>8, <2>1, <2>3
    <3>2. Alone!CheckEnd(k) >= k.when  BY <1>2, <1>3, <1>4, <1>7, <1>8, <3>1
    <3>3. CASE Midnight(j.when) = Midnight(now)
      <4>1. ASSUME NEW t \in memory, t >= k.when PROVE j.start..Due(j) \subseteq memory
        <5>1. t \in Int /\ t >= Midnight(now)  BY <1>2, <1>4, <1>5, <1>6, <3>1, <3>3, <4>1
        <5>2. Midnight(now)..t \subseteq memory  BY <1>6, <5>1 DEF Unbroken
        <5>3. j.start..Due(j) \subseteq Midnight(now)..t  BY <1>3, <1>4, <1>5, <2>1, <3>3, <4>1, <5>1
        <5> QED  BY <5>2, <5>3
      <4>2. CASE k.start..Alone!CheckEnd(k) \subseteq memory
        <5>1. Alone!CheckEnd(k) \in memory  BY <1>2, <1>4, <1>7, <4>2
        <5> QED  BY <3>2, <4>1, <5>1
      <4>3. CASE recent
        <5>1. k.when <= now  BY <1>1, LookTimes
        <5>2. Midnight(now)..now \subseteq memory  BY <1>6, <1>5, <4>3
        <5>3. now \in memory  BY <1>5, <5>2
        <5> QED  BY <4>1, <5>1, <5>3
      <4> QED  BY <1>9, <4>2, <4>3
    <3>4. CASE Midnight(j.when) + 3 = Midnight(now) /\ j.when + 1 = now /\ now = Midnight(now) /\ j.since = j.when
      <4>1. k.when = Midnight(j.when) + 2  BY <1>2, <1>3, <3>4
      <4>2. CASE k.start..Alone!CheckEnd(k) \subseteq memory
        <5>1. CASE k.start <= k.when
          <6>1. k.when \in memory  BY <1>4, <1>7, <3>2, <4>2, <5>1
          <6>2. k.when \in Evening(j, memory)  BY <1>3, <2>3, <4>1, <6>1 DEF Evening
          <6> QED  BY <1>1, <1>11, <2>1, <6>2 DEF Resumes
        <5>2. CASE k.when < k.start
          <6>1. k.kind = "home"  BY <1>2, <1>4, <5>2
          <6>2. k.start \in History /\ k.start > j.start  BY <1>1, <1>3, <1>4, <2>3, <5>2, <6>1 DEF Resumes
          <6>3. j.start..k.start \subseteq memory  BY <1>1, <6>2 DEF Resumes
          <6> QED  BY <1>3, <1>4, <2>1, <5>2, <6>3
        <5> QED  BY <1>4, <5>1, <5>2
      <4>3. CASE recent
        <5>1. (Midnight(now) - 3)..now \subseteq memory  BY <1>5, <1>6, <3>4, <4>3
        <5>2. j.start..Due(j) \subseteq (Midnight(now) - 3)..now  BY <1>3, <1>5, <2>1, <3>4, <4>1
        <5> QED  BY <5>1, <5>2
      <4> QED  BY <1>9, <4>2, <4>3
    <3> QED  BY <1>3, <3>3, <3>4
  <2> QED  BY <1>3, <1>4, <2>2, <2>3
<1> QED  BY <1>10, <1>11

-----------------------------------------------------------------------------
(* What of the invariant a step leaves alone.                                 *)
LEMMA TimesStay ==
    ASSUME TimesSound, UNCHANGED <<now, horizon, aged, synced>>, recent' \in BOOLEAN, faults' \in 0..AgileFaults
    PROVE  TimesSound'
BY DEF TimesSound
LEMMA SharedStays ==
    ASSUME SharedSound, UNCHANGED <<now, horizon, recent, memory, db>> PROVE SharedSound'
BY DEF SharedSound, Unbroken, Batches
LEMMA HistoryStays ==
    ASSUME HistorySound, UNCHANGED <<now, horizon, stored, synced>> PROVE HistorySound'
BY DEF HistorySound, History
LEMMA ResumesStays ==
    ASSUME NEW j, Resumes(j), UNCHANGED <<memory, db, stored>> PROVE Resumes(j)'
BY DEF Resumes, History, Evening
LEMMA ManyFault == ASSUME TimesSound, NEW f, Steadily!Fault(f) PROVE faults' \in 0..AgileFaults
BY AloneNames DEF TimesSound, Steadily!Fault

(* A lookup that goes on is of the same time and for the same.                *)
Alike(k, q) == Same(k, q) /\ q.since = k.since /\ q.leader = k.leader
LEMMA AlikeIs ==
    ASSUME NEW k, NEW q, Alike(k, q)
    PROVE  /\ Asked(k) => Asked(q)
           /\ Resumes(k) => Resumes(q)
           /\ Resumes(k)' => Resumes(q)'
           /\ Due(q) = Due(k) /\ Alone!CheckEnd(q) = Alone!CheckEnd(k)
           /\ Alone!FetchStart(q) = Alone!FetchStart(k)
<1>1. /\ q.kind = k.kind /\ q.when = k.when /\ q.start = k.start /\ q.end = k.end /\ q.due = k.due
      /\ q.since = k.since
  BY DEF Alike, Same
<1>2. Asked(k) => Asked(q)  BY <1>1 DEF Asked
<1>3. (Resumes(k) => Resumes(q)) /\ (Resumes(k)' => Resumes(q)')  BY <1>1 DEF Resumes, Evening
<1>4. Due(q) = Due(k) /\ Alone!CheckEnd(q) = Alone!CheckEnd(k) /\ Alone!FetchStart(q) = Alone!FetchStart(k)
  BY <1>1 DEF Due, Alone!CheckEnd, Alone!FetchStart
<1> QED  BY <1>2, <1>3, <1>4

LEMMA GoesOn ==
    ASSUME NEW j, LookSound(j), UNCHANGED <<now, horizon>>, memory \subseteq memory'
    PROVE  Asked(j)' /\ Goes(j)'
<1>1. Asked(j)'  BY DEF LookSound, Asked
<1>2. Goes(j)'  BY DEF LookSound, Goes
<1> QED  BY <1>1, <1>2

(* One lookup goes on, is made or is done; lookups that joined it stay so.    *)
LEMMA OneGoes ==
    ASSUME ManySafe, NEW c \in SteadyCalls, NEW q, call' = [call EXCEPT ![c] = q],
           UNCHANGED <<now, horizon>>, memory \subseteq memory',
           TimesSound', SharedSound', HistorySound', \A j : LookSound(j) => Resumes(j)',
           q # Alone!Idle =>
               /\ q \in ManyLookups /\ Asked(q)' /\ Resumes(q)' /\ Goes(q)'
               /\ q.at = "joined" => Together(call'[q.leader], q),
           call[c].at \in {"load", "fetch"} =>
               /\ q \in ManyLookups /\ q.at \in {"load", "fetch"} /\ q.when = call[c].when
               /\ Alone!FetchStart(q) = Alone!FetchStart(call[c])
    PROVE  ManySafe'
<1>1. call = [d \in SteadyCalls |-> call[d]]  BY DEF ManySafe
<1>2. call' = [d \in SteadyCalls |-> call'[d]] /\ call'[c] = q
      /\ \A d \in SteadyCalls : d # c => call'[d] = call[d]
  BY <1>1
<1>3. Alone!Idle' = Alone!Idle  BY DEF Alone!Idle
<1>4. ASSUME NEW d \in SteadyCalls, call'[d] # Alone!Idle PROVE LookSound(call[d])'
  <2>1. CASE d = c
    <3>1. LookSound(q)'  BY <1>2, <1>4, <2>1 DEF LookSound, Together
    <3> QED  BY <1>2, <2>1, <3>1 DEF LookSound, Asked, Resumes, Goes, Together, Evening, Due
  <2>2. CASE d # c
    <3> PICK j : j = call[d]  OBVIOUS
    <3>1. LookSound(j) /\ call'[d] = j  BY <1>2, <1>4, <2>2 DEF ManySafe
    <3>2. j \in ManyLookups /\ Asked(j)' /\ Goes(j)' /\ Resumes(j)'  BY <3>1, GoesOn DEF LookSound
    <3>3. j.at = "joined" => Together(call'[j.leader], j)
      <4> SUFFICES ASSUME j.at = "joined" PROVE Together(call'[j.leader], j)  OBVIOUS
      <4>1. j.leader \in SteadyCalls /\ Together(call[j.leader], j)  BY <3>1 DEF LookSound, ManyLookups
      <4>2. CASE j.leader = c
        <5>1. call'[j.leader] = q /\ Together(call[c], j)  BY <1>2, <4>1, <4>2
        <5> QED  BY <5>1 DEF Together
      <4>3. CASE j.leader # c
        <5>1. call'[j.leader] = call[j.leader]  BY <1>2, <4>1, <4>3
        <5> QED  BY <4>1, <5>1 DEF Together
      <4> QED  BY <4>2, <4>3
    <3>4. LookSound(j)'  BY <3>2, <3>3 DEF LookSound, Together
    <3> QED  BY <3>1, <3>4 DEF LookSound, Asked, Resumes, Goes, Together, Evening, Due
  <2> QED  BY <2>1, <2>2
<1> QED  BY <1>2, <1>3, <1>4 DEF ManySafe

LEMMA AllStay ==
    ASSUME ManySafe, call' = call, memory \subseteq memory', TimesSound', SharedSound', HistorySound',
           \A d \in SteadyCalls : \A j : j = call[d] /\ LookSound(j) => Asked(j)' /\ Resumes(j)'
    PROVE  ManySafe'
<1>1. Alone!Idle' = Alone!Idle  BY DEF Alone!Idle
<1>2. ASSUME NEW d \in SteadyCalls, call'[d] # Alone!Idle PROVE LookSound(call[d])'
  <2> PICK j : j = call[d]  OBVIOUS
  <2>1. LookSound(j) /\ call'[d] = j  BY <1>2 DEF ManySafe
  <2>2. j \in ManyLookups /\ Asked(j)' /\ Resumes(j)' /\ (j.at = "joined" => Together(call'[j.leader], j))
    BY <2>1 DEF LookSound
  <2>3. Goes(j)'  BY <2>1 DEF LookSound, Goes
  <2>4. LookSound(j)'  BY <2>2, <2>3 DEF LookSound, Together
  <2> QED  BY <2>1, <2>4 DEF LookSound, Asked, Resumes, Goes, Together, Evening, Due
<1> QED  BY <1>1, <1>2 DEF ManySafe

LEMMA LandGoes ==
    ASSUME ManySafe, NEW c \in SteadyCalls, call[c].at = "fetch", Steadily!Land(c, "answer"),
           UNCHANGED <<now, horizon>>, memory \subseteq memory',
           TimesSound', SharedSound', HistorySound', \A j : LookSound(j) => Resumes(j)',
           \A j : LookSound(j) /\ j.kind = "home" /\ Together(call[c], j) => j.start..Due(j) \subseteq memory'
    PROVE  ManySafe'
<1>1. \A d \in SteadyCalls : call'[d] =
          IF d = c \/ (call[d].at = "joined" /\ call[d].leader = c) THEN [call[d] EXCEPT !.at = "answer"] ELSE call[d]
  BY DEF Steadily!Land
<1>2. call' = [d \in SteadyCalls |-> call'[d]]  BY DEF Steadily!Land
<1>3. Alone!Idle' = Alone!Idle /\ Alone!Idle.at = "idle"  BY DEF Alone!Idle
<1>4. ASSUME NEW d \in SteadyCalls, call'[d] # Alone!Idle PROVE LookSound(call[d])'
  <2> PICK j : j = call[d]  OBVIOUS
  <2>1. CASE d = c \/ (j.at = "joined" /\ j.leader = c)
    <3>1. LookSound(j) /\ call'[d] = [j EXCEPT !.at = "answer"]  BY <1>1, <1>3, <2>1 DEF ManySafe
    <3>2. Together(call[c], j)
      <4>1. CASE d = c  BY <3>1, <4>1 DEF Together, LookSound, Goes
      <4>2. CASE j.at = "joined" /\ j.leader = c  BY <3>1, <4>2 DEF LookSound
      <4> QED  BY <2>1, <4>1, <4>2
    <3>3. j \in ManyLookups /\ Asked(j)' /\ Resumes(j)' /\ (j.kind = "home" => j.start..Due(j) \subseteq memory')
      BY <3>1, <3>2, GoesOn DEF LookSound
    <3> PICK q : q = [j EXCEPT !.at = "answer"]  OBVIOUS
    <3>4. q \in ManyLookups /\ Alike(j, q) /\ q.at = "answer"  BY <3>3 DEF ManyLookups, Alike, Same
    <3>5. Asked(q)' /\ Resumes(q)' /\ q.kind = j.kind /\ q.start = j.start /\ Due(q) = Due(j)
      <4>1. Asked(q)  BY <3>1, <3>4, AlikeIs DEF LookSound
      <4>2. Asked(q)'  BY <4>1 DEF Asked
      <4>3. Resumes(q)' /\ Due(q) = Due(j)  BY <3>3, <3>4, AlikeIs
      <4>4. q.kind = j.kind /\ q.start = j.start  BY <3>4 DEF Alike, Same
      <4> QED  BY <4>2, <4>3, <4>4
    <3>6. Goes(q)'  BY <3>3, <3>4, <3>5 DEF Goes
    <3>7. LookSound(q)'  BY <3>4, <3>5, <3>6 DEF LookSound
    <3>8. call'[d] = q  BY <3>1
    <3> QED  BY <3>7, <3>8 DEF LookSound, Asked, Resumes, Goes, Together, Evening, Due
  <2>2. CASE ~(d = c \/ (j.at = "joined" /\ j.leader = c))
    <3>1. LookSound(j) /\ call'[d] = j  BY <1>1, <1>4, <2>2 DEF ManySafe
    <3>2. j \in ManyLookups /\ Asked(j)' /\ Goes(j)' /\ Resumes(j)'  BY <3>1, GoesOn DEF LookSound
    <3>3. j.at = "joined" => Together(call'[j.leader], j)
      <4> SUFFICES ASSUME j.at = "joined" PROVE Together(call'[j.leader], j)  OBVIOUS
      <4>1. j.leader \in SteadyCalls /\ j.leader # c /\ Together(call[j.leader], j)
        BY <2>2, <3>1 DEF LookSound, ManyLookups
      <4>2. call[j.leader].at # "joined"  BY <4>1 DEF Together
      <4>3. call'[j.leader] = call[j.leader]  BY <1>1, <4>1, <4>2
      <4> QED  BY <4>1, <4>3
    <3>4. LookSound(j)'  BY <3>2, <3>3 DEF LookSound, Together
    <3> QED  BY <3>1, <3>4 DEF LookSound, Asked, Resumes, Goes, Together, Evening, Due
  <2> QED  BY <2>1, <2>2
<1> QED  BY <1>2, <1>3, <1>4 DEF ManySafe

-----------------------------------------------------------------------------
(* Time passes.                                                               *)
LEMMA ManyPublishes == ASSUME ManySafe, Steadily!Publish PROVE ManySafe'
<1>1. TimesSound /\ SharedSound /\ HistorySound  BY DEF ManySafe
<1>2. /\ UNCHANGED <<now, aged, recent, memory, db, stored, synced, call, faults>>
      /\ ~Alone!Morning(now) /\ horizon' = Midnight(now) + 4 /\ horizon < horizon'
  <2>1. Midnight(now) + 4 = 3 * (Steadily!Day(now) + 1) + 1
    <3>1. Steadily!Day(now) = Alone!Day(now) /\ Alone!Day(now) \in Nat
      BY <1>1, TimesSlots, MidnightIs DEF Steadily!Day, Alone!Day
    <3> QED  BY <3>1 DEF Midnight
  <2> QED  BY <2>1, SteadyIs DEF Steadily!Publish
<1>3. horizon \in Nat /\ Midnight(now) \in Nat /\ aged \in Nat /\ aged <= horizon /\ now <= horizon /\ now \in Nat
      /\ horizon' \in Nat /\ Midnight(now)' = Midnight(now) /\ Alone!Morning(now)' = Alone!Morning(now)
  BY <1>1, <1>2, TimesSlots DEF Midnight, Alone!Day, Alone!Morning
<1>4. TimesSound'
  <2>1. aged \in (Midnight(now) + 1)..horizon  BY <1>1 DEF TimesSound
  <2>2. aged \in (Midnight(now) + 1)..horizon'  BY <1>2, <1>3, <2>1
  <2>3. now <= horizon'  BY <1>2, <1>3
  <2> QED  BY <1>1, <1>2, <1>3, <2>2, <2>3 DEF TimesSound
<1>5. 0..horizon \subseteq 0..horizon'  BY <1>2, <1>3
<1>6. SharedSound'  BY <1>1, <1>2, <1>3, <1>5 DEF SharedSound, Unbroken, Batches
<1>7. HistorySound'  BY <1>1, <1>2, <1>3, <1>5 DEF HistorySound, History
<1>8. ASSUME NEW j, LookSound(j) PROVE Asked(j)' /\ Resumes(j)'
  <2>1. Asked(j) /\ Resumes(j) /\ j \in ManyLookups  BY <1>8 DEF LookSound
  <2>2. j.due \in Nat /\ j.due <= horizon'  BY <1>1, <1>2, <1>3, <2>1, LookTimes DEF Asked
  <2>3. Asked(j)'  BY <1>2, <2>1, <2>2 DEF Asked
  <2> QED  BY <1>2, <2>1, <2>3, ResumesStays
<1> QED  BY <1>2, <1>4, <1>6, <1>7, <1>8, AllStay

LEMMA ManyAges == ASSUME ManySafe, Steadily!QuarterHour PROVE ManySafe'
<1>1. TimesSound /\ SharedSound /\ HistorySound  BY DEF ManySafe
<1>2. UNCHANGED <<now, horizon, memory, db, stored, synced, call, faults>> /\ recent' = FALSE /\ aged' = horizon
  BY DEF Steadily!QuarterHour
<1>3. horizon \in Nat /\ Midnight(now) \in Nat /\ Midnight(now) + 1 <= horizon
      /\ Midnight(now)' = Midnight(now) /\ Alone!Morning(now)' = Alone!Morning(now)
  BY <1>1, <1>2, TimesSlots DEF Midnight, Alone!Day, Alone!Morning
<1>4. TimesSound'
  <2>1. horizon \in (Midnight(now) + 1)..horizon  BY <1>3
  <2> QED  BY <1>1, <1>2, <1>3, <2>1 DEF TimesSound
<1>5. SharedSound'  BY <1>1, <1>2, <1>3 DEF SharedSound, Unbroken, Batches
<1>6. HistorySound'  BY <1>1, <1>2, HistoryStays
<1>7. ASSUME NEW j, LookSound(j) PROVE Asked(j)' /\ Resumes(j)'
  BY <1>2, <1>7, ResumesStays DEF LookSound, Asked
<1> QED  BY <1>2, <1>4, <1>5, <1>6, <1>7, AllStay

LEMMA ManyTicks == ASSUME ManySafe, Steadily!Tick PROVE ManySafe'
<1>1. TimesSound /\ SharedSound /\ HistorySound  BY DEF ManySafe
<1>2. /\ UNCHANGED <<horizon, memory, db, stored, call, faults>> /\ recent' = FALSE /\ aged' = horizon
      /\ synced' = {} /\ synced = {"home"}
      /\ now' = now + 1 /\ now + 1 < 3 * AgileDays /\ now + 1 <= horizon
      /\ \A d \in SteadyCalls : call[d] # Alone!Idle => call[d].since = now
  BY SteadyIs DEF Steadily!Tick
<1>3. /\ now \in Nat /\ horizon \in Nat /\ Midnight(now) \in Nat
      /\ Midnight(now) <= now /\ now <= Midnight(now) + 2
      /\ (horizon = Midnight(now) + 1 \/ horizon = Midnight(now) + 4)
      /\ (Alone!Morning(now) <=> now = Midnight(now))
  BY <1>1, TimesSlots
<1>4. Midnight(now)' = Midnight(now + 1) /\ Alone!Morning(now)' = Alone!Morning(now + 1)
  BY <1>2 DEF Midnight, Alone!Day, Alone!Morning
<1>5. /\ Midnight(now)' \in Nat /\ (Alone!Morning(now)' <=> now + 1 = Midnight(now)')
      /\ now = Midnight(now) + 2 => Midnight(now)' = Midnight(now) + 3
      /\ now # Midnight(now) + 2 => Midnight(now)' = Midnight(now)
  <2>1. now + 1 \in Nat  BY <1>3
  <2>2. Midnight(now + 1) \in Nat /\ (Alone!Morning(now + 1) <=> now + 1 = Midnight(now + 1))
    BY <2>1, MidnightIs
  <2> QED  BY <1>3, <1>4, <2>2, MidnightIs
<1>6. TimesSound'
  <2>0. now >= 3 * AgileLookback  BY <1>1 DEF TimesSound
  <2>1. now' \in 0..(3 * AgileDays - 1) /\ now' >= 3 * AgileLookback  BY <1>2, <1>3, <2>0, AloneNames
  <2>2. horizon = Midnight(now)' + 1 \/ (horizon = Midnight(now)' + 4 /\ ~Alone!Morning(now)')
    BY <1>2, <1>3, <1>5
  <2>3. horizon \in (Midnight(now)' + 1)..horizon  BY <1>3, <1>5, <2>2
  <2> QED  BY <1>1, <1>2, <2>1, <2>2, <2>3 DEF TimesSound
<1>7. SharedSound'
  <2>1. Midnight(now) <= Midnight(now)' /\ memory \in SUBSET Int /\ db \in SUBSET Int
    BY <1>1, <1>3, <1>5 DEF SharedSound
  <2>2. Unbroken(memory, Midnight(now)') /\ Unbroken(db, Midnight(now)')
    BY <1>1, <1>3, <1>5, <2>1, UnbrokenLater DEF SharedSound
  <2> QED  BY <1>1, <1>2, <2>2 DEF SharedSound, Unbroken, Batches
<1>8. HistorySound'
  <2>1. Midnight(now) + 1 \in History  BY <1>1, <1>2 DEF HistorySound
  <2>2. Midnight(now) + 1 >= Midnight(now)' - 2  BY <1>3, <1>5
  <2>3. ~Alone!Morning(now)' => Midnight(now)' = Midnight(now)  BY <1>3, <1>5
  <2> QED  BY <1>1, <1>2, <2>1, <2>2, <2>3 DEF HistorySound, History
<1>9. ASSUME NEW d \in SteadyCalls, NEW j, j = call[d], LookSound(j) PROVE Asked(j)' /\ Resumes(j)'
  <2>1. Asked(j) /\ Resumes(j) /\ j \in ManyLookups  BY <1>9 DEF LookSound
  <2>2. j # Alone!Idle  BY <2>1 DEF ManyLookups, Alone!Idle
  <2>3. j.since = now  BY <1>2, <1>9, <2>2
  <2>4. j.since \in {now' - 1, now'} /\ j.when <= now'  BY <1>2, <1>3, <2>1, <2>3 DEF Asked
  <2>5. Asked(j)'  BY <1>2, <2>1, <2>4 DEF Asked
  <2> QED  BY <1>2, <2>1, <2>5, ResumesStays
<1> QED  BY <1>2, <1>6, <1>7, <1>8, <1>9, AllStay

LEMMA ManyRestarts == ASSUME ManySafe, Steadily!Restart PROVE ManySafe'
<1>1. /\ UNCHANGED <<now, horizon, aged, db, stored, synced>> /\ recent' = FALSE /\ memory' = {}
      /\ call' = [c \in SteadyCalls |-> Alone!Idle] /\ faults' \in 0..AgileFaults
  BY ManyFault, SteadyIs DEF Steadily!Restart, ManySafe
<1>2. TimesSound' /\ HistorySound'  BY <1>1, TimesStay, HistoryStays DEF ManySafe
<1>3. SharedSound'  BY <1>1 DEF ManySafe, SharedSound, Unbroken, Batches
<1>4. Alone!Idle' = Alone!Idle /\ call' = [c \in SteadyCalls |-> call'[c]]
      /\ \A c \in SteadyCalls : call'[c] = Alone!Idle
  BY <1>1 DEF Alone!Idle
<1> QED  BY <1>2, <1>3, <1>4 DEF ManySafe

-----------------------------------------------------------------------------
(* A lookup goes on.                                                          *)
LEMMA BroughtShared ==
    ASSUME ManySafe, NEW k, LookSound(k), NEW X, NEW Y, Brings(k, X, Y), memory' = memory \union X, db' = db \union Y,
           UNCHANGED <<now, horizon>>,
           recent' => (IF Alone!Morning(now) THEN Midnight(now) - 3 ELSE Midnight(now))..now \subseteq memory'
    PROVE  SharedSound'
<1>1. X \subseteq 0..horizon /\ Y \subseteq 0..horizon /\ memory \subseteq 0..horizon /\ db \subseteq 0..horizon
  BY BroughtIs DEF ManySafe, SharedSound
<1>2. Unbroken(memory', Midnight(now)) /\ Unbroken(db', Midnight(now))  BY BroughtUnbroken
<1>3. Batches(memory') /\ Batches(db')  BY BroughtBatches
<1>4. Midnight(now)' = Midnight(now) /\ Alone!Morning(now)' = Alone!Morning(now)
  BY DEF Midnight, Alone!Day, Alone!Morning
<1> QED  BY <1>1, <1>2, <1>3, <1>4 DEF SharedSound, Unbroken, Batches

LEMMA ManyLoads == ASSUME ManySafe, NEW c \in SteadyCalls, Steadily!Load(c) PROVE ManySafe'
<1> DEFINE k == call[c]
           r == [k EXCEPT !.at = "fetch"]
<1>1. /\ k.at = "load" /\ UNCHANGED <<now, horizon, aged, recent, db, stored, synced>>
      /\ \/ memory' = memory \union (db \cap Alone!Fetched(k)) /\ faults' = faults
         \/ faults' \in 0..AgileFaults /\ memory' = memory
  BY ManyFault, SteadyIs DEF Steadily!Load, ManySafe
<1>2. call' = [call EXCEPT ![c] = r]  BY DEF Steadily!Load, ManySafe
<1>3. LookSound(k) /\ k \in ManyLookups /\ Asked(k)  BY <1>1, Flies
<1>4. TimesSound' /\ HistorySound'  BY <1>1, TimesStay, HistoryStays DEF ManySafe, TimesSound
<1>5. SharedSound' /\ \A j : LookSound(j) => Resumes(j)'
  <2>1. CASE memory' = memory \union (db \cap Alone!Fetched(k))
    <3> DEFINE X == db \cap Alone!Fetched(k)
    <3>1. Brings(k, X, {}) /\ memory' = memory \union X /\ db' = db \union {}  BY <1>1, <2>1 DEF Brings
    <3>2. recent' => (IF Alone!Morning(now) THEN Midnight(now) - 3 ELSE Midnight(now))..now \subseteq memory'
      BY <1>1, <2>1 DEF ManySafe, SharedSound
    <3> HIDE DEF X, k
    <3>3. SharedSound'  BY <1>1, <1>3, <3>1, <3>2, BroughtShared
    <3>4. \A j : LookSound(j) => Resumes(j)'  BY <1>1, <1>3, <3>1, BroughtResumes
    <3> QED  BY <3>3, <3>4
  <2>2. CASE memory' = memory
    <3>1. SharedSound'  BY <1>1, <2>2, SharedStays DEF ManySafe
    <3>2. \A j : LookSound(j) => Resumes(j)'  BY <1>1, <2>2, ResumesStays DEF LookSound
    <3> QED  BY <3>1, <3>2
  <2> QED  BY <1>1, <2>1, <2>2
<1>6. memory \subseteq memory'  BY <1>1
<1> HIDE DEF k
<1>7. r \in ManyLookups /\ Alike(k, r) /\ r.at = "fetch"  BY <1>3 DEF ManyLookups, Alike, Same
<1> HIDE DEF r
<1> PICK q : q = r  OBVIOUS
<1>8. /\ Asked(q) /\ Resumes(q)' /\ Alone!CheckEnd(q) = Alone!CheckEnd(k) /\ Alone!FetchStart(q) = Alone!FetchStart(k)
      /\ q.when = k.when /\ q.since = k.since /\ q.start = k.start
  BY <1>3, <1>5, <1>7, AlikeIs DEF Alike, Same
<1>9. Asked(q)'  BY <1>1, <1>8 DEF Asked
<1>10. Goes(q)'  BY <1>1, <1>3, <1>7, <1>8 DEF LookSound, Goes
<1> QED  BY <1>1, <1>2, <1>4, <1>5, <1>6, <1>7, <1>8, <1>9, <1>10, OneGoes DEF k

LEMMA ManySpares == ASSUME ManySafe, NEW c \in SteadyCalls, Steadily!Spare(c) PROVE ManySafe'
<1>1. /\ call[c].at = "fetch" /\ (Steadily!Covered(call[c]) \/ Steadily!Cooling(call[c])) /\ Steadily!Land(c, "answer")
      /\ UNCHANGED <<now, horizon, aged, recent, memory, db, stored, synced, faults>>
  BY DEF Steadily!Spare
<1>2. TimesSound' /\ SharedSound' /\ HistorySound'
  BY <1>1, TimesStay, SharedStays, HistoryStays DEF ManySafe, TimesSound
<1>3. \A j : LookSound(j) => Resumes(j)'  BY <1>1, ResumesStays DEF LookSound
<1>4. LookSound(call[c])  BY <1>1, Flies
<1>5. ASSUME NEW j, LookSound(j), j.kind = "home", Together(call[c], j) PROVE j.start..Due(j) \subseteq memory'
  BY <1>1, <1>4, <1>5, SpareLands
<1> QED  BY <1>1, <1>2, <1>3, <1>5, LandGoes

LEMMA ManyFetches == ASSUME ManySafe, NEW c \in SteadyCalls, Steadily!Fetch(c) PROVE ManySafe'
<1> DEFINE k == call[c]
           X == Alone!Fetched(k) \cap 0..horizon
           Y == IF db' = db THEN {} ELSE X
<1>1. /\ k.at = "fetch" /\ memory' = memory \union X /\ faults' \in 0..AgileFaults
      /\ db' = db \union Y /\ recent' = (recent \/ ~Alone!Morning(k.when))
      /\ Steadily!Land(c, "answer") /\ UNCHANGED <<now, horizon, aged, stored, synced>>
  BY ManyFault, SteadyIs DEF Steadily!Fetch, ManySafe, TimesSound
<1>2. LookSound(k) /\ k \in ManyLookups /\ Asked(k)  BY <1>1, Flies
<1>3. Brings(k, X, Y)  BY DEF Brings
<1>4. TimesSound' /\ HistorySound'  BY <1>1, TimesStay, HistoryStays DEF ManySafe, TimesSound
<1>5. ~Alone!Morning(k.when) =>
          (IF Alone!Morning(now) THEN Midnight(now) - 3 ELSE Midnight(now))..now \subseteq X
  <2> SUFFICES ASSUME ~Alone!Morning(k.when)
               PROVE  (IF Alone!Morning(now) THEN Midnight(now) - 3 ELSE Midnight(now))..now \subseteq X
    OBVIOUS
  <2>1. TimesSound  BY DEF ManySafe
  <2>2. k.kind # "home" => k.start = k.when  BY <1>2 DEF Asked
  <2>3. k.kind = "home" => Midnight(k.when) + 1 <= k.start  BY <1>2 DEF Asked
  <2>4. /\ k.start \in Nat /\ Midnight(k.when) \in Nat /\ k.when \in Nat /\ Midnight(k.when) <= k.when
        /\ k.when <= now /\ (Alone!Morning(k.when) <=> k.when = Midnight(k.when))
        /\ Midnight(k.when) = Midnight(now) \/ (Midnight(k.when) + 3 = Midnight(now) /\ now = Midnight(now))
        /\ Alone!FetchStart(k) = IF k.start >= Midnight(k.when) THEN Midnight(k.when) ELSE k.start
        /\ Alone!Fetched(k) = Alone!FetchStart(k)..(Midnight(k.when) + 5)
    BY <1>2, <2>1, LookTimes
  <2>5. /\ now \in Nat /\ horizon \in Nat /\ Midnight(now) \in Nat /\ now <= horizon /\ now <= Midnight(now) + 2
        /\ (Alone!Morning(now) <=> now = Midnight(now))
    BY <2>1, TimesSlots
  <2> HIDE DEF k
  <2>6. Alone!Fetched(k) = Midnight(k.when)..(Midnight(k.when) + 5)  BY <2>2, <2>3, <2>4
  <2>7. CASE Midnight(k.when) = Midnight(now)  BY <2>4, <2>5, <2>6, <2>7
  <2>8. CASE Midnight(k.when) + 3 = Midnight(now) /\ now = Midnight(now)  BY <2>4, <2>5, <2>6, <2>8
  <2> QED  BY <2>4, <2>7, <2>8
<1>6. recent' => (IF Alone!Morning(now) THEN Midnight(now) - 3 ELSE Midnight(now))..now \subseteq memory'
  BY <1>1, <1>5 DEF ManySafe, SharedSound
<1>7. ASSUME NEW j, LookSound(j), j.kind = "home", Together(k, j) PROVE j.start..Due(j) \subseteq memory'
  BY <1>1, <1>2, <1>7, FetchLands
<1>8. memory \subseteq memory'  BY <1>1
<1> HIDE DEF k, X, Y
<1>9. SharedSound'  BY <1>1, <1>2, <1>3, <1>6, BroughtShared
<1>10. \A j : LookSound(j) => Resumes(j)'  BY <1>1, <1>2, <1>3, BroughtResumes
<1> QED  BY <1>1, <1>4, <1>7, <1>8, <1>9, <1>10, LandGoes DEF k

LEMMA ManyNeverFails == \A c : ~Steadily!FetchFails(c)
BY DEF Steadily!FetchFails, Steadily!Fault

(* It ends with what memory has, from where it resumes without a gap.         *)
LEMMA NoGapAfter ==
    ASSUME ManySafe, NEW k, LookSound(k), k.at = "answer", k.kind = "home", NEW t \in (k.start..k.end) \cap memory
    PROVE  k.start..t \subseteq memory
<1>1. TimesSound /\ k \in ManyLookups /\ Asked(k) /\ k.start..Due(k) \subseteq memory
  BY DEF ManySafe, LookSound, Goes
<1>2. /\ k.when \in Nat /\ k.start \in Nat /\ k.end \in Nat /\ k.since \in Nat /\ Midnight(k.when) \in Nat
      /\ Midnight(k.when) = Midnight(now) \/ (Midnight(k.when) + 3 = Midnight(now) /\ k.when + 1 = now
                                                 /\ now = Midnight(now) /\ k.since = k.when)
      /\ k.end = Midnight(k.when) + (IF Alone!Morning(k.when) THEN 1 ELSE 3)
      /\ (~Alone!Morning(k.when) => Midnight(k.when) + 1 <= k.start)
  BY <1>1, LookTimes DEF Asked
<1>3. Unbroken(memory, Midnight(now))  BY DEF ManySafe, SharedSound
<1>4. t \in Nat /\ k.start <= t /\ t <= k.end /\ t \in memory  BY <1>2
<1>5. CASE Alone!Morning(k.when)  BY <1>1, <1>2, <1>4, <1>5 DEF Due
<1>6. CASE ~Alone!Morning(k.when)
  <2>1. CASE Midnight(k.when) = Midnight(now)
    <3>1. Midnight(now)..t \subseteq memory  BY <1>2, <1>3, <1>4, <1>6, <2>1 DEF Unbroken
    <3> QED  BY <1>2, <1>4, <1>6, <2>1, <3>1
  <2>2. CASE Midnight(k.when) + 3 = Midnight(now) /\ k.when + 1 = now /\ now = Midnight(now) /\ k.since = k.when
    <3>1. Due(k) = Midnight(k.when) + 2 /\ t <= Midnight(k.when) + 3  BY <1>2, <1>4, <1>6, <2>2 DEF Due
    <3> QED  BY <1>1, <1>2, <1>4, <3>1
  <2> QED  BY <1>2, <2>1, <2>2
<1> QED  BY <1>5, <1>6

LEMMA ManyAnswers == ASSUME ManySafe, NEW c \in SteadyCalls, Steadily!Answer(c) PROVE ManySafe'
<1> DEFINE k == call[c]
           g == (k.start..k.end) \cap memory
           r1 == [k EXCEPT !.at = "answered"]
           r == [r1 EXCEPT !.got = g]
<1>1. /\ k.at = "answer" /\ UNCHANGED <<now, horizon, aged, recent, memory, db, stored, synced, faults>>
      /\ call' = [call EXCEPT ![c] = [k EXCEPT !.at = "answered", !.got = g]]
  <2>1. call' = [call EXCEPT ![c].at = "answered", ![c].got = g] /\ call = [d \in SteadyCalls |-> call[d]]
    BY SteadyIs DEF Steadily!Answer, Steadily!Range, ManySafe
  <2>2. call' = [call EXCEPT ![c] = [k EXCEPT !.at = "answered", !.got = g]]
    BY <2>1
  <2> QED  BY <2>2 DEF Steadily!Answer
<1>2. LookSound(k) /\ k \in ManyLookups /\ Asked(k) /\ TimesSound  BY <1>1, Flies DEF ManySafe
<1>3. TimesSound' /\ SharedSound' /\ HistorySound'
  BY <1>1, TimesStay, SharedStays, HistoryStays DEF ManySafe, TimesSound
<1>4. \A j : LookSound(j) => Resumes(j)'  BY <1>1, ResumesStays DEF LookSound
<1>5. k.start \in Nat /\ k.end \in Nat /\ k.start <= k.end /\ horizon \in Nat
      /\ memory \subseteq 0..horizon /\ 0..horizon \subseteq Alone!Slots
  BY <1>2, LookTimes, TimesSlots DEF Asked, ManySafe, SharedSound
<1>6. ASSUME k.kind = "home"
      PROVE  /\ \A t \in g : k.start..t \subseteq g
             /\ Alone!Morning(k.when) => Midnight(k.when) + 1 \in g
  <2> HIDE DEF k
  <2>1. ASSUME NEW t \in g PROVE k.start..t \subseteq g
    <3>1. k.start..t \subseteq memory  BY <1>1, <1>2, <1>6, NoGapAfter DEF k
    <3>2. k.start..t \subseteq k.start..k.end  BY <1>5
    <3> QED  BY <3>1, <3>2
  <2>2. ASSUME Alone!Morning(k.when) PROVE Midnight(k.when) + 1 \in g
    <3>1. k.end = Midnight(k.when) + 1  BY <1>2, <1>6, <2>2 DEF Asked
    <3>2. k.start..k.end \subseteq memory  BY <1>1, <1>2, <1>6, <2>2, <3>1 DEF LookSound, Goes, Due, k
    <3> QED  BY <1>5, <3>1, <3>2
  <2> QED  BY <2>1, <2>2
<1>7. g \subseteq Alone!Slots /\ g \subseteq (k.start..k.end) \cap memory  BY <1>5
<1> HIDE DEF g
<1>8. call' = [call EXCEPT ![c] = r]  BY <1>1
<1> HIDE DEF k
<1>9. r1 \in ManyLookups /\ Alike(k, r1) /\ r1.at = "answered"  BY <1>2 DEF ManyLookups, Alike, Same
<1> HIDE DEF r1
<1>10. r \in ManyLookups /\ Alike(k, r) /\ r.at = "answered" /\ r.got = g
  BY <1>7, <1>9 DEF ManyLookups, Alike, Same
<1> HIDE DEF r
<1> PICK q : q = r  OBVIOUS
<1>11. Asked(q) /\ Resumes(q)' /\ q.kind = k.kind /\ q.start = k.start /\ q.end = k.end /\ q.when = k.when
  BY <1>2, <1>4, <1>10, AlikeIs DEF Alike, Same
<1>12. Asked(q)'  BY <1>1, <1>11 DEF Asked
<1>13. Goes(q)'  BY <1>1, <1>6, <1>7, <1>10, <1>11 DEF Goes
<1> QED  BY <1>1, <1>3, <1>4, <1>8, <1>10, <1>11, <1>12, <1>13, OneGoes DEF k

(* What a sync stores continues what the site had.                            *)
Whole(H) == \A t, u \in H : t..u \subseteq H
Continues(G, a) == \A t \in G : a <= t /\ a..t \subseteq G
LEMMA GotContinues ==
    ASSUME NEW H \in SUBSET Int, NEW G \in SUBSET Int, NEW a \in H, Whole(H), Continues(G, a)
    PROVE  Whole(H \union G)
<1> SUFFICES ASSUME NEW t \in H \union G, NEW u \in H \union G, NEW v \in t..u PROVE v \in H \union G
  BY DEF Whole
<1> USE DEF Whole, Continues
<1>1. t \in Int /\ u \in Int /\ v \in Int /\ t <= v /\ v <= u /\ a \in Int  OBVIOUS
<1>2. CASE v <= a
  <2>1. CASE t \in H
    <3>1. v \in t..a  BY <1>1, <1>2
    <3> QED  BY <2>1, <3>1
  <2>2. CASE t \in G
    <3>1. v = a  BY <1>1, <1>2, <2>2
    <3> QED  BY <3>1
  <2> QED  BY <2>1, <2>2
<1>3. CASE ~(v <= a)
  <2>1. v \in a..u  BY <1>1, <1>3
  <2> QED  BY <2>1
<1> QED  BY <1>2, <1>3

LEMMA ManyEnds == ASSUME ManySafe, NEW c \in SteadyCalls, Steadily!Done(c) PROVE ManySafe'
<1> DEFINE k == call[c]
<1>1. /\ k.at \in {"answered", "failed"} /\ UNCHANGED <<now, horizon, aged, recent, memory, db, faults>>
      /\ call' = [call EXCEPT ![c] = Alone!Idle]
  BY SteadyIs DEF Steadily!Done
<1>2. LookSound(k) /\ k \in ManyLookups /\ Asked(k) /\ Resumes(k)  BY <1>1, Flies DEF LookSound
<1>3. TimesSound /\ SharedSound /\ HistorySound  BY DEF ManySafe
<1>4. k.at = "answered"  BY <1>1, <1>2 DEF ManyLookups
<1>5. SharedSound'  BY <1>1, <1>3, SharedStays
<1>6. CASE k.kind # "home"
  <2>1. UNCHANGED <<stored, synced>>  BY <1>6 DEF Steadily!Done
  <2>2. TimesSound' /\ HistorySound'  BY <1>1, <1>3, <2>1, TimesStay, HistoryStays DEF TimesSound
  <2>3. \A j : LookSound(j) => Resumes(j)'  BY <1>1, <2>1, ResumesStays DEF LookSound
  <2> QED  BY <1>1, <1>5, <2>2, <2>3, OneGoes
<1>7. CASE k.kind = "home"
  <2>1. /\ stored' = [stored EXCEPT !["home"] = @ \union k.got]
        /\ synced' = IF k.when = now THEN synced \union {"home"} ELSE synced
    BY <1>4, <1>7 DEF Steadily!Done
  <2>2. History' = History \union k.got /\ stored' = [s \in {"home"} |-> History']
    BY <1>3, <2>1 DEF HistorySound, History
  <2>3. /\ k.got \subseteq (k.start..k.end) \cap memory /\ \A t \in k.got : k.start..t \subseteq k.got
        /\ Alone!Morning(k.when) => Midnight(k.when) + 1 \in k.got
    BY <1>2, <1>4, <1>7 DEF LookSound, Goes
  <2>4. k.start \in History /\ History \subseteq 0..horizon /\ memory \subseteq 0..horizon /\ horizon \in Nat
        /\ k.start \in Nat /\ k.end \in Nat /\ \A t, u \in History : t..u \subseteq History
    BY <1>2, <1>3, <1>7, LookTimes, TimesSlots DEF Resumes, HistorySound, SharedSound
  <2>5. TimesSound'
    <3>1. synced' \subseteq {"home"}  BY <1>3, <2>1 DEF TimesSound
    <3> QED  BY <1>1, <1>3, <3>1 DEF TimesSound, Midnight, Alone!Day, Alone!Morning
  <2> HIDE DEF k
  <2>6. HistorySound'
    <3>1. k.got \subseteq 0..horizon /\ \A t \in k.got : k.start <= t /\ k.start..t \subseteq k.got
      BY <2>3, <2>4
    <3>2. \A t, u \in History \union k.got : t..u \subseteq History \union k.got
      <4> PICK H, G, a : H = History /\ G = k.got /\ a = k.start  OBVIOUS
      <4>1. H \in SUBSET Int /\ G \in SUBSET Int /\ a \in H  BY <2>4, <3>1
      <4>2. Whole(H) /\ Continues(G, a)  BY <2>4, <3>1 DEF Whole, Continues
      <4>3. Whole(H \union G)  BY <4>1, <4>2, GotContinues
      <4> QED  BY <4>3 DEF Whole
    <3>3. ~Alone!Morning(now) \/ "home" \in synced' => Midnight(now) + 1 \in History \union k.got
      <4>1. CASE ~Alone!Morning(now) \/ "home" \in synced  BY <1>3, <4>1 DEF HistorySound
      <4>2. CASE Alone!Morning(now) /\ "home" \notin synced  BY <2>1, <2>3, <4>2
      <4> QED  BY <4>1, <4>2
    <3>4. \E t \in History \union k.got : t >= Midnight(now) - 2  BY <1>3 DEF HistorySound
    <3>5. History \union k.got \subseteq 0..horizon  BY <2>4, <3>1
    <3>6. Midnight(now)' = Midnight(now) /\ Alone!Morning(now)' = Alone!Morning(now)
      BY <1>1 DEF Midnight, Alone!Day, Alone!Morning
    <3> QED  BY <1>1, <2>2, <3>2, <3>3, <3>4, <3>5, <3>6 DEF HistorySound
  <2>7. ASSUME NEW j, LookSound(j) PROVE Resumes(j)'
    <3> SUFFICES ASSUME j.kind = "home" PROVE Resumes(j)'  BY DEF Resumes
    <3>1. Resumes(j) /\ Asked(j) /\ j \in ManyLookups  BY <2>7 DEF LookSound
    <3>2. j.start \in History /\ j.start \in Nat /\ \A t \in History : t > j.start => j.start..t \subseteq memory
      BY <1>3, <3>1, LookTimes DEF Resumes
    <3>3. ASSUME NEW t \in History \union k.got, t > j.start, NEW u \in j.start..t PROVE u \in memory
      <4>1. CASE t \in History  BY <3>2, <3>3, <4>1
      <4>2. CASE t \in k.got
        <5>1. t \in Int /\ u \in Int /\ j.start <= u /\ u <= t  BY <2>3, <2>4, <3>2, <3>3, <4>2
        <5>2. CASE k.start <= u
          <6>1. u \in k.start..t  BY <2>4, <5>1, <5>2
          <6> QED  BY <2>3, <4>2, <6>1
        <5>3. CASE ~(k.start <= u)
          <6>1. k.start > j.start /\ u \in j.start..k.start  BY <2>4, <3>2, <5>1, <5>3
          <6> QED  BY <2>4, <3>2, <6>1
        <5> QED  BY <5>2, <5>3
      <4> QED  BY <4>1, <4>2
    <3>4. Evening(j, memory)' = Evening(j, memory) /\ Evening(j, db)' = Evening(j, db)  BY <1>1 DEF Evening
    <3> QED  BY <1>1, <2>2, <3>1, <3>2, <3>3, <3>4 DEF Resumes
  <2>8. ~(k.at \in {"load", "fetch"})  BY <1>4
  <2> QED  BY <1>1, <1>5, <2>5, <2>6, <2>7, <2>8, OneGoes DEF k
<1> QED  BY <1>6, <1>7

-----------------------------------------------------------------------------
(* A lookup is made: answered from memory, joined to another or sent.         *)
AskDoes(c, k) ==
    \/ /\ k.start > Alone!CheckEnd(k) \/ k.start..Alone!CheckEnd(k) \subseteq memory
       /\ call' = [call EXCEPT ![c] = [k EXCEPT !.at = "answer"]]
    \/ \E d \in SteadyCalls :
          /\ call[d].at \in {"load", "fetch"} /\ Alone!Fetched(call[d]) = Alone!Fetched(k)
          /\ call' = [call EXCEPT ![c] = [k EXCEPT !.at = "joined", !.leader = d, !.since = call[d].since]]
    \/ ~(k.start > Alone!CheckEnd(k)) /\ call' = [call EXCEPT ![c] = k]
LEMMA AskIs ==
    ASSUME NEW c \in SteadyCalls, NEW kind, NEW start, NEW end, Steadily!Ask(c, kind, start, end), NEW k,
           k = [at |-> "load", kind |-> kind, when |-> now, start |-> start, end |-> end,
                due |-> aged, leader |-> c, since |-> now, got |-> {}]
    PROVE  /\ call[c] = Alone!Idle /\ UNCHANGED <<now, horizon, aged, recent, memory, db, stored, synced, faults>>
           /\ AskDoes(c, k)
<1> DEFINE shared == {d \in SteadyCalls : Steadily!Flying(d) /\ Steadily!Fetched(call[d]) = Steadily!Fetched(k)}
           d == CHOOSE d \in shared : TRUE
<1>1. call[c] = Alone!Idle /\ UNCHANGED <<now, horizon, aged, recent, memory, db, stored, synced, faults>>
  BY SteadyIs DEF Steadily!Ask
<1>2. call' = [call EXCEPT ![c] =
           IF start > Steadily!CheckEnd(k) \/ Steadily!Covered(k) THEN [k EXCEPT !.at = "answer"]
           ELSE IF shared # {} THEN [k EXCEPT !.at = "joined", !.leader = d, !.since = call[d].since]
           ELSE k]
  BY DEF Steadily!Ask
<1>3. k.start = start  OBVIOUS
<1> HIDE DEF shared
<1>4. CASE start > Steadily!CheckEnd(k) \/ Steadily!Covered(k)
  <2>1. call' = [call EXCEPT ![c] = [k EXCEPT !.at = "answer"]]  BY <1>2, <1>4
  <2>2. start > Alone!CheckEnd(k) \/ start..Alone!CheckEnd(k) \subseteq memory
    BY <1>3, <1>4, SteadyIs DEF Alone!Covered
  <2> QED  BY <1>1, <1>3, <2>1, <2>2 DEF AskDoes
<1>5. CASE ~(start > Steadily!CheckEnd(k) \/ Steadily!Covered(k))
  <2>1. ~(start > Alone!CheckEnd(k))  BY <1>5, SteadyIs
  <2>2. CASE shared # {}
    <3>1. d \in shared  BY <2>2
    <3>2. call' = [call EXCEPT ![c] = [k EXCEPT !.at = "joined", !.leader = d, !.since = call[d].since]]
      BY <1>2, <1>5, <2>2
    <3> HIDE DEF d
    <3>3. d \in SteadyCalls /\ call[d].at \in {"load", "fetch"} /\ Alone!Fetched(call[d]) = Alone!Fetched(k)
      BY <3>1, SteadyIs DEF shared, Steadily!Flying
    <3> QED  BY <1>1, <3>2, <3>3 DEF AskDoes
  <2>3. CASE shared = {}
    <3>1. call' = [call EXCEPT ![c] = k]  BY <1>2, <1>5, <2>3
    <3> QED  BY <1>1, <1>3, <2>1, <3>1 DEF AskDoes
  <2> QED  BY <2>2, <2>3
<1> QED  BY <1>4, <1>5

LEMMA SameDays ==
    ASSUME NEW a \in Nat, NEW b \in Nat, NEW m \in Nat, NEW n \in Nat, a <= m, b <= n, a..(m + 5) = b..(n + 5)
    PROVE  a = b /\ m = n
<1>1. a \in b..(n + 5) /\ b \in a..(m + 5) /\ m + 5 \in b..(n + 5) /\ n + 5 \in a..(m + 5)  OBVIOUS
<1> QED  BY <1>1

LEMMA ManyAsks ==
    ASSUME ManySafe, NEW c \in SteadyCalls, NEW kind \in {"current", "future", "home"},
           NEW start \in Nat, NEW end \in Nat, Steadily!Ask(c, kind, start, end), start <= end,
           0..(Midnight(now) + 5) \subseteq Alone!Slots, start <= Midnight(now) + 5, end <= Midnight(now) + 5,
           kind # "home" => start = now /\ end \in {now, Midnight(now) + 5},
           kind = "home" =>
               /\ end = Midnight(now) + IF Alone!Morning(now) THEN 1 ELSE 3
               /\ start \in History /\ \A t \in History : t <= start
    PROVE  ManySafe'
<1> PICK k : k = [at |-> "load", kind |-> kind, when |-> now, start |-> start, end |-> end,
                  due |-> aged, leader |-> c, since |-> now, got |-> {}]  OBVIOUS
<1>1. TimesSound /\ SharedSound /\ HistorySound  BY DEF ManySafe
<1>2. /\ k.at = "load" /\ k.kind = kind /\ k.when = now /\ k.start = start /\ k.end = end /\ k.due = aged
      /\ k.leader = c /\ k.since = now
  OBVIOUS
<1>3. /\ now \in Nat /\ horizon \in Nat /\ aged \in Nat /\ aged <= horizon /\ Midnight(now) \in Nat
      /\ Midnight(now) <= now /\ now <= Midnight(now) + 2 /\ (Alone!Morning(now) <=> now = Midnight(now))
      /\ 0..horizon \subseteq Alone!Slots
      /\ Alone!Expected(now) = Midnight(now) + IF Alone!Morning(now) THEN 1 ELSE 4
  BY <1>1, TimesSlots, TimesAre
<1>4. k \in ManyLookups
  <2>1. now \in Alone!Slots /\ start \in Alone!Slots /\ end \in Alone!Slots /\ aged \in Alone!Slots
    BY <1>3
  <2> QED  BY <2>1 DEF ManyLookups
<1>5. call[c] = Alone!Idle /\ UNCHANGED <<now, horizon, aged, recent, memory, db, stored, synced, faults>>
  BY AskIs
<1>6. Asked(k)
  <2>1. k.kind = "home" /\ ~Alone!Morning(now) => Midnight(now) + 1 <= start
    BY <1>1, <1>2, <1>3 DEF HistorySound
  <2> QED  BY <1>2, <1>3, <2>1 DEF Asked
<1>7. Resumes(k)
  <2> SUFFICES ASSUME kind = "home" PROVE Resumes(k)  BY <1>2 DEF Resumes
  <2>1. start \in History /\ \A t \in History : ~(t > start)
    <3>1. History \subseteq 0..horizon  BY <1>1 DEF HistorySound
    <3> QED  BY <1>3, <3>1
  <2>2. ASSUME ~Alone!Morning(now), NEW Z, Unbroken(Z, Midnight(now)), NEW t \in Z, start <= t, t \in Int
        PROVE  start..t \subseteq Z
    <3>1. Midnight(now) + 1 <= start  BY <1>2, <1>6, <2>2 DEF Asked
    <3>2. Midnight(now)..t \subseteq Z  BY <1>3, <2>2, <3>1 DEF Unbroken
    <3> QED  BY <1>3, <3>1, <3>2
  <2>3. memory \subseteq 0..horizon /\ db \subseteq 0..horizon
        /\ Unbroken(memory, Midnight(now)) /\ Unbroken(db, Midnight(now))
    BY <1>1 DEF SharedSound
  <2>4. ASSUME ~Alone!Morning(now), NEW t \in Evening(k, memory) PROVE k.start..t \subseteq memory
    BY <1>2, <1>3, <2>2, <2>3, <2>4 DEF Evening
  <2>5. ASSUME ~Alone!Morning(now), NEW t \in Evening(k, db) PROVE k.start..t \subseteq memory \union db
    BY <1>2, <1>3, <2>2, <2>3, <2>5 DEF Evening
  <2> QED  BY <1>2, <2>1, <2>4, <2>5 DEF Resumes
<1>8. Alone!CheckEnd(k) \in Nat /\ Alone!CheckEnd(k) = IF end < Alone!Expected(now) THEN end ELSE Alone!Expected(now)
  BY <1>2, <1>3 DEF Alone!CheckEnd
<1>9. ASSUME NEW q, call' = [call EXCEPT ![c] = q], q \in ManyLookups, Asked(q), Resumes(q), Goes(q),
             q.at = "joined" => q.leader # c /\ Together(call[q.leader], q)
      PROVE  ManySafe'
  <2>1. TimesSound' /\ SharedSound' /\ HistorySound'
    BY <1>1, <1>5, TimesStay, SharedStays, HistoryStays DEF TimesSound
  <2>2. \A j : LookSound(j) => Resumes(j)'  BY <1>5, ResumesStays DEF LookSound
  <2>3. Asked(q)' /\ Resumes(q)' /\ Goes(q)'  BY <1>5, <1>9, ResumesStays DEF Asked, Goes
  <2>4. q.at = "joined" => Together(call'[q.leader], q)
    <3> SUFFICES ASSUME q.at = "joined" PROVE Together(call'[q.leader], q)  OBVIOUS
    <3>1. call'[q.leader] = call[q.leader]  BY <1>9 DEF ManySafe
    <3> QED  BY <1>9, <3>1
  <2>5. ~(call[c].at \in {"load", "fetch"})  BY <1>5 DEF Alone!Idle
  <2> QED  BY <1>5, <1>9, <2>1, <2>2, <2>3, <2>4, <2>5, OneGoes
<1>10. CASE /\ start > Alone!CheckEnd(k) \/ start..Alone!CheckEnd(k) \subseteq memory
            /\ call' = [call EXCEPT ![c] = [k EXCEPT !.at = "answer"]]
  <2> PICK q : q = [k EXCEPT !.at = "answer"]  OBVIOUS
  <2>1. q \in ManyLookups /\ Alike(k, q) /\ q.at = "answer"  BY <1>4 DEF ManyLookups, Alike, Same
  <2>2. Asked(q) /\ Resumes(q) /\ q.kind = kind /\ q.start = start /\ Due(q) = Due(k)
    BY <1>2, <1>6, <1>7, <2>1, AlikeIs DEF Alike, Same
  <2>3. ASSUME kind = "home" PROVE start..Due(k) \subseteq memory
    <3>1. Due(k) \in Nat /\ Due(k) <= Alone!CheckEnd(k)  BY <1>2, <1>3, <1>8, <2>3 DEF Due
    <3> QED  BY <1>8, <1>10, <3>1
  <2>4. Goes(q)  BY <2>1, <2>2, <2>3 DEF Goes
  <2> QED  BY <1>9, <1>10, <2>1, <2>2, <2>4
<1>11. ASSUME NEW d \in SteadyCalls, call[d].at \in {"load", "fetch"}, Alone!Fetched(call[d]) = Alone!Fetched(k),
              call' = [call EXCEPT ![c] = [k EXCEPT !.at = "joined", !.leader = d, !.since = call[d].since]]
       PROVE  ManySafe'
  <2> PICK j : j = call[d]  OBVIOUS
  <2>1. LookSound(j) /\ j \in ManyLookups /\ Asked(j) /\ j.since = j.when /\ j.at \in {"load", "fetch"} /\ d # c
    BY <1>5, <1>11, Flies DEF LookSound, Goes, Alone!Idle
  <2>2. /\ Alone!FetchStart(j) \in Nat /\ Alone!FetchStart(j) <= Midnight(j.when) /\ Midnight(j.when) \in Nat
        /\ Alone!Fetched(j) = Alone!FetchStart(j)..(Midnight(j.when) + 5) /\ j.when \in Nat
    BY <1>1, <2>1, LookTimes
  <2>3. /\ Alone!FetchStart(k) \in Nat /\ Alone!FetchStart(k) <= Midnight(now)
        /\ Alone!Fetched(k) = Alone!FetchStart(k)..(Midnight(now) + 5)
    BY <1>1, <1>2, <1>4, <1>6, LookTimes
  <2>4. Alone!FetchStart(j) = Alone!FetchStart(k) /\ Midnight(j.when) = Midnight(now)
    BY <1>3, <1>11, <2>2, <2>3, SameDays
  <2> PICK q : q = [k EXCEPT !.at = "joined", !.leader = d, !.since = j.since]  OBVIOUS
  <2>5. q \in ManyLookups /\ Same(k, q) /\ q.at = "joined" /\ q.leader = d /\ q.since = j.since
    BY <1>4, <2>1 DEF ManyLookups, Same
  <2>6. Asked(q)
    <3>1. /\ q.kind = k.kind /\ q.when = now /\ q.start = k.start /\ q.end = k.end /\ q.due = k.due
          /\ q.since = j.when
      BY <1>2, <2>1, <2>5 DEF Same
    <3>2. j.when \in {now - 1, now}  BY <2>1 DEF Asked
    <3>4. now \in Nat /\ j.when \in Nat  BY <1>3, <2>2
    <3>3. now \in {j.when, j.when + 1}  BY <3>2, <3>4
    <3> QED  BY <1>2, <1>3, <1>6, <2>4, <3>1, <3>2, <3>3 DEF Asked
  <2>7. Resumes(q)  BY <1>7, <2>5 DEF Resumes, Same, Evening
  <2>8. Goes(q)  BY <2>5 DEF Goes
  <2>9. Alone!FetchStart(q) = Alone!FetchStart(k)  BY <2>5 DEF Alone!FetchStart, Same
  <2>10. Together(call[q.leader], q)  BY <2>1, <2>4, <2>5, <2>9 DEF Together
  <2> QED  BY <1>9, <1>11, <2>1, <2>5, <2>6, <2>7, <2>8, <2>10
<1>12. CASE ~(start > Alone!CheckEnd(k)) /\ call' = [call EXCEPT ![c] = k]
  <2>1. Goes(k)  BY <1>2, <1>8, <1>12 DEF Goes
  <2> QED  BY <1>2, <1>4, <1>6, <1>7, <1>9, <1>12, <2>1
<1>13. AskDoes(c, k)  BY AskIs
<1> QED  BY <1>2, <1>10, <1>11, <1>12, <1>13 DEF AskDoes

LEMMA SyncResumes ==
    ASSUME ManySafe
    PROVE  /\ Steadily!SyncStart("home") \in History /\ \A t \in History : t <= Steadily!SyncStart("home")
           /\ Steadily!SyncEnd = Midnight(now) + IF Alone!Morning(now) THEN 1 ELSE 3
<1>1. horizon \in Nat /\ Midnight(now) \in Nat /\ now \in Nat  BY TimesSlots DEF ManySafe
<1>2. HistorySound  BY DEF ManySafe
<1>3. PICK t \in History : t >= Midnight(now) - 2  BY <1>2 DEF HistorySound
<1>4. History \subseteq 0..horizon /\ t \in Int  BY <1>1, <1>2, <1>3 DEF HistorySound
<1>5. 3 * (Steadily!Day(now) - AgileLookback) = Midnight(now) - 3 * AgileLookback
  <2>1. Alone!Day(now) \in Nat /\ Steadily!Day(now) = Alone!Day(now)  BY <1>1, MidnightIs DEF Steadily!Day, Alone!Day
  <2> QED  BY <2>1, AloneNames DEF Midnight
<1>6. t > 3 * (Steadily!Day(now) - AgileLookback)  BY <1>1, <1>3, <1>4, <1>5, AloneNames
<1>7. Steadily!SyncStart("home") = CHOOSE u \in History : \A v \in History : v <= u
  BY <1>3, <1>6 DEF Steadily!SyncStart, History
<1>8. \E u \in History : \A v \in History : v <= u  BY <1>1, <1>3, <1>4, HasLast
<1> QED  BY <1>7, <1>8, SteadyIs

LEMMA ManyAsksAny ==
    ASSUME ManySafe, NEW c \in SteadyCalls,
           Steadily!AskCurrent(c) \/ Steadily!AskFuture(c) \/ \E s \in {"home"} : Steadily!AskSync(c, s)
    PROVE  ManySafe'
<1>1. /\ now \in Nat /\ Midnight(now) \in Nat /\ Midnight(now) <= now /\ now <= Midnight(now) + 2
      /\ 0..(Midnight(now) + 5) \subseteq Alone!Slots /\ horizon \in Nat
      /\ (horizon = Midnight(now) + 1 \/ horizon = Midnight(now) + 4)
  BY TimesSlots DEF ManySafe
<1>2. CASE Steadily!AskCurrent(c)
  <2>1. Steadily!Ask(c, "current", now, now)  BY <1>2 DEF Steadily!AskCurrent
  <2> QED  BY <1>1, <2>1, ManyAsks
<1>3. CASE Steadily!AskFuture(c)
  <2>1. Steadily!Ask(c, "future", now, Midnight(now) + 5)  BY <1>3, SteadyIs DEF Steadily!AskFuture
  <2>2. Midnight(now) + 5 \in Nat /\ now <= Midnight(now) + 5 /\ Midnight(now) + 5 <= Midnight(now) + 5
    BY <1>1
  <2> QED  BY <1>1, <2>1, <2>2, ManyAsks
<1>4. CASE \E s \in {"home"} : Steadily!AskSync(c, s)
  <2> DEFINE a == Steadily!SyncStart("home")
             b == Steadily!SyncEnd
  <2>1. a <= b /\ Steadily!Ask(c, "home", a, b)  BY <1>4 DEF Steadily!AskSync
  <2>2. a \in History /\ (\A t \in History : t <= a) /\ b = Midnight(now) + IF Alone!Morning(now) THEN 1 ELSE 3
    BY SyncResumes
  <2>3. History \subseteq 0..horizon  BY DEF ManySafe, HistorySound
  <2> HIDE DEF a, b
  <2>4. a \in Nat /\ b \in Nat /\ a <= Midnight(now) + 5 /\ b <= Midnight(now) + 5  BY <1>1, <2>2, <2>3
  <2> QED  BY <1>1, <2>1, <2>2, <2>4, ManyAsks
<1> QED  BY <1>2, <1>3, <1>4

-----------------------------------------------------------------------------
LEMMA ManyFirst == ASSUME Steadily!Init PROVE ManySafe
<1>1. /\ now \in (3 * AgileLookback)..(3 * AgileLookback + 1) /\ horizon = 3 * AgileLookback + 1 /\ aged = horizon
      /\ recent = FALSE /\ memory = {} /\ db = 0..horizon /\ synced = {} /\ faults = 0
      /\ stored = [s \in {"home"} |-> 0..now] /\ call = [c \in SteadyCalls |-> Alone!Idle]
  BY SteadyIs DEF Steadily!Init
<1>2. now \in Nat /\ horizon \in Nat /\ now <= horizon  BY <1>1, AloneNames
<1>3. Midnight(now) = 3 * AgileLookback
  <2>1. now = Midnight(now) \/ now = Midnight(now) + 1 \/ now = Midnight(now) + 2  BY <1>2, MidnightIs
  <2>2. Midnight(now) = 3 * Alone!Day(now) /\ Alone!Day(now) \in Nat  BY <1>2, MidnightIs DEF Midnight
  <2> QED  BY <1>1, <2>1, <2>2, AloneNames
<1>4. Alone!Morning(now) <=> now = Midnight(now)  BY <1>2, MidnightIs
<1>5. TimesSound
  <2>1. now \in 0..(3 * AgileDays - 1) /\ now >= 3 * AgileLookback  BY <1>1, <1>2, AloneNames
  <2>2. horizon = Midnight(now) + 1 /\ aged \in (Midnight(now) + 1)..horizon /\ faults \in 0..AgileFaults
    BY <1>1, <1>2, <1>3, AloneNames
  <2> QED  BY <1>1, <1>2, <2>1, <2>2 DEF TimesSound
<1>6. SharedSound
  <2>1. Unbroken(0..horizon, Midnight(now)) /\ Unbroken({}, Midnight(now))
    BY <1>2, <1>3, AloneNames, UnbrokenRange DEF Unbroken
  <2>2. Batches({})  BY DEF Batches
  <2>3. Batches(0..horizon)
    <3> SUFFICES ASSUME NEW t \in 0..horizon, Alone!Morning(t) PROVE t + 1 \in 0..horizon  BY DEF Batches
    <3>1. t \in Nat /\ t = 3 * Alone!Day(t) /\ Alone!Day(t) \in Nat  BY MidnightIs DEF Midnight
    <3>2. t # horizon  BY <1>1, <3>1, AloneNames
    <3> QED  BY <1>2, <3>1, <3>2
  <2> QED  BY <1>1, <2>1, <2>2, <2>3 DEF SharedSound
<1>7. HistorySound
  <2>1. History = 0..now  BY <1>1 DEF History
  <2>2. 0..now \subseteq 0..horizon /\ \A t, u \in 0..now : t..u \subseteq 0..now  BY <1>2
  <2>3. now \in 0..now /\ now >= Midnight(now) - 2  BY <1>1, <1>2, <1>3, AloneNames
  <2>4. ~Alone!Morning(now) => Midnight(now) + 1 \in 0..now  BY <1>1, <1>2, <1>3, <1>4, AloneNames
  <2> QED  BY <1>1, <2>1, <2>2, <2>3, <2>4 DEF HistorySound
<1> QED  BY <1>1, <1>5, <1>6, <1>7 DEF ManySafe

LEMMA ManyNext == ManySafe /\ [Steadily!Next]_agile => ManySafe'
<1> SUFFICES ASSUME ManySafe, [Steadily!Next]_agile PROVE ManySafe'  OBVIOUS
<1>1. CASE UNCHANGED agile
  <2>1. UNCHANGED <<now, horizon, aged, recent, memory, db, stored, synced, call, faults>>  BY <1>1 DEF agile
  <2>2. TimesSound' /\ SharedSound' /\ HistorySound'
    BY <2>1, TimesStay, SharedStays, HistoryStays DEF ManySafe, TimesSound
  <2>3. \A j : LookSound(j) => Asked(j)' /\ Resumes(j)'  BY <2>1, ResumesStays DEF LookSound, Asked
  <2> QED  BY <2>1, <2>2, <2>3, AllStay
<1>2. CASE Steadily!Publish \/ Steadily!QuarterHour \/ Steadily!Tick \/ Steadily!Restart
  BY <1>2, ManyPublishes, ManyAges, ManyTicks, ManyRestarts
<1>3. ASSUME NEW c \in SteadyCalls,
             Steadily!AskCurrent(c) \/ Steadily!AskFuture(c) \/ \E s \in {"home"} : Steadily!AskSync(c, s)
      PROVE  ManySafe'
  BY <1>3, ManyAsksAny
<1>4. ASSUME NEW c \in SteadyCalls, Steadily!Load(c) \/ Steadily!Spare(c) \/ Steadily!Fetch(c)
                                      \/ Steadily!FetchFails(c) \/ Steadily!Answer(c) \/ Steadily!Done(c)
      PROVE  ManySafe'
  BY <1>4, ManyLoads, ManySpares, ManyFetches, ManyNeverFails, ManyAnswers, ManyEnds
<1>5. Steadily!Next => \/ Steadily!Publish \/ Steadily!QuarterHour \/ Steadily!Tick \/ Steadily!Restart
                       \/ \E c \in SteadyCalls :
                            \/ Steadily!AskCurrent(c) \/ Steadily!AskFuture(c)
                            \/ \E s \in {"home"} : Steadily!AskSync(c, s)
                            \/ Steadily!Load(c) \/ Steadily!Spare(c) \/ Steadily!Fetch(c)
                            \/ Steadily!FetchFails(c) \/ Steadily!Answer(c) \/ Steadily!Done(c)
  BY DEF Steadily!Next
<1> QED  BY <1>1, <1>2, <1>3, <1>4, <1>5

LEMMA ManyMeans == ManySafe => Steadily!TypeOK /\ Steadily!HistoryHasNoHole
<1> SUFFICES ASSUME ManySafe PROVE Steadily!TypeOK /\ Steadily!HistoryHasNoHole  OBVIOUS
<1>1. Steadily!HistoryHasNoHole  BY DEF Steadily!HistoryHasNoHole, ManySafe, HistorySound, History
<1>2. /\ now \in 0..(3 * AgileDays - 1) /\ horizon \in Alone!Slots /\ aged \in 0..horizon /\ recent \in BOOLEAN
      /\ synced \subseteq {"home"} /\ faults \in 0..AgileFaults
  <2>1. horizon \in Nat /\ aged \in Nat /\ aged <= horizon /\ 0..horizon \subseteq Alone!Slots
    BY TimesSlots DEF ManySafe
  <2>2. horizon \in 0..horizon /\ aged \in 0..horizon  BY <2>1
  <2> QED  BY <2>1, <2>2 DEF ManySafe, TimesSound
<1>3. memory \subseteq 0..horizon /\ db \subseteq 0..horizon /\ \A s \in {"home"} : stored[s] \subseteq 0..horizon
  BY DEF ManySafe, SharedSound, HistorySound, History
<1>4. \A c \in SteadyCalls : call[c] = Alone!Idle \/
        /\ DOMAIN call[c] = {"at", "kind", "when", "start", "end", "due", "leader", "since", "got"}
        /\ {call[c].when, call[c].start, call[c].end, call[c].due, call[c].since} \cup call[c].got \subseteq Alone!Slots
        /\ call[c].leader \in SteadyCalls
  <2>1. \A c \in SteadyCalls : call[c] = Alone!Idle \/ call[c] \in ManyLookups  BY DEF ManySafe, LookSound
  <2>2. \A k \in ManyLookups :
          /\ DOMAIN k = {"at", "kind", "when", "start", "end", "due", "leader", "since", "got"}
          /\ {k.when, k.start, k.end, k.due, k.since} \cup k.got \subseteq Alone!Slots
          /\ k.leader \in SteadyCalls
    BY DEF ManyLookups
  <2> QED  BY <2>1, <2>2
<1> QED  BY <1>1, <1>2, <1>3, <1>4, SteadyIs DEF Steadily!TypeOK

-----------------------------------------------------------------------------
(* The types of the part in which upstream fails as well.                     *)
DownLookups == [at : {"load", "fetch", "answer", "failed", "answered"}, kind : {"current", "future", "home"},
                when : Down!Slots, start : Down!Slots, end : Down!Slots, due : Down!Slots,
                leader : {1}, since : Down!Slots, got : SUBSET Down!Slots]
DownTyped ==
    /\ now \in 3..8 /\ horizon \in 0..10 /\ aged \in 0..horizon /\ recent \in BOOLEAN
    /\ memory \subseteq 0..horizon /\ db \subseteq 0..horizon
    /\ stored = [s \in {"home"} |-> History] /\ History \subseteq 0..horizon
    /\ synced \subseteq {"home"} /\ faults \in 0..2
DownCall(k) == k = Down!Idle \/ (k \in DownLookups /\ k.got \subseteq 0..horizon)
DownSafe == DownTyped /\ call = [c \in {1} |-> call[1]] /\ DownCall(call[1])

LEMMA DownIs ==
    /\ Down!Slots = 0..14 /\ Down!Idle = [at |-> "idle"]
    /\ DownTyped => /\ Down!Day(now) \in 1..2 /\ now \in Down!Slots /\ aged \in Down!Slots
                    /\ 0..horizon \subseteq Down!Slots /\ horizon \in Nat
                    /\ 3 * Down!Day(now) + 5 \in Down!Slots /\ Down!SyncEnd \in Down!Slots
<1>1. Down!Slots = 0..14 /\ Down!Idle = [at |-> "idle"]  BY DEF Down!Slots, Down!Idle
<1>2. ASSUME DownTyped
      PROVE  /\ Down!Day(now) \in 1..2 /\ now \in Down!Slots /\ aged \in Down!Slots
             /\ 0..horizon \subseteq Down!Slots /\ horizon \in Nat
             /\ 3 * Down!Day(now) + 5 \in Down!Slots /\ Down!SyncEnd \in Down!Slots
  <2>1. now \in 3..8 /\ horizon \in 0..10 /\ aged \in 0..horizon  BY <1>2 DEF DownTyped
  <2>2. Down!Day(now) \in 1..2  BY <2>1 DEF Down!Day
  <2>3. Down!SyncEnd \in 0..14  BY <2>2 DEF Down!SyncEnd
  <2> QED  BY <1>1, <2>1, <2>2, <2>3
<1> QED  BY <1>1, <1>2

LEMMA DownGoes ==
    ASSUME DownSafe, NEW q, call' = [call EXCEPT ![1] = q], DownTyped', DownCall(q)'
    PROVE  DownSafe'
<1>1. call' = [c \in {1} |-> q]  BY DEF DownSafe
<1>2. call'[1] = q /\ call' = [c \in {1} |-> call'[1]]  BY <1>1
<1>3. Down!Idle' = Down!Idle  BY DEF Down!Idle
<1>4. DownCall(call[1])'  BY <1>2, <1>3 DEF DownCall
<1> QED  BY <1>2, <1>4 DEF DownSafe

LEMMA DownStays ==
    ASSUME DownTyped, UNCHANGED <<now, horizon, aged, memory, db, stored, synced>>,
           recent' \in BOOLEAN, faults' \in 0..2
    PROVE  DownTyped'
BY DEF DownTyped, History

LEMMA DownAsks ==
    ASSUME DownSafe, NEW kind \in {"current", "future", "home"}, NEW start \in Down!Slots, NEW end \in Down!Slots,
           Down!Ask(1, kind, start, end)
    PROVE  DownSafe'
<1> PICK k : k = [at |-> "load", kind |-> kind, when |-> now, start |-> start, end |-> end,
                  due |-> aged, leader |-> 1, since |-> now, got |-> {}]  OBVIOUS
<1> DEFINE shared == {d \in {1} : Down!Flying(d) /\ Down!Fetched(call[d]) = Down!Fetched(k)}
           r == IF start > Down!CheckEnd(k) \/ Down!Covered(k) THEN [k EXCEPT !.at = "answer"] ELSE k
<1>1. call[1] = Down!Idle /\ UNCHANGED <<now, horizon, aged, recent, memory, db, stored, synced, faults>>
  BY DEF Down!Ask
<1>2. shared = {}  BY <1>1 DEF Down!Flying, Down!Idle
<1>3. call' = [call EXCEPT ![1] = IF start > Down!CheckEnd(k) \/ Down!Covered(k) THEN [k EXCEPT !.at = "answer"]
                                  ELSE IF shared # {} THEN LET d == CHOOSE d \in shared : TRUE
                                                           IN  [k EXCEPT !.at = "joined", !.leader = d, !.since = call[d].since]
                                  ELSE k]
  BY DEF Down!Ask
<1> HIDE DEF shared
<1>4. call' = [call EXCEPT ![1] = r]  BY <1>2, <1>3
<1>5. k \in DownLookups /\ k.got = {}  BY DownIs DEF DownLookups, DownSafe
<1>6. [k EXCEPT !.at = "answer"] \in DownLookups /\ [k EXCEPT !.at = "answer"].got = {}  BY <1>5 DEF DownLookups
<1>7. r \in DownLookups /\ r.got = {}  BY <1>5, <1>6
<1> HIDE DEF r
<1> PICK q : q = r  OBVIOUS
<1>8. DownTyped'  BY <1>1, DownStays DEF DownSafe, DownTyped
<1>9. DownCall(q)'  BY <1>7 DEF DownCall
<1> QED  BY <1>4, <1>8, <1>9, DownGoes

LEMMA DownAsksAny ==
    ASSUME DownSafe, Down!AskCurrent(1) \/ Down!AskFuture(1) \/ \E s \in {"home"} : Down!AskSync(1, s)
    PROVE  DownSafe'
<1>1. DownTyped  BY DEF DownSafe
<1>2. CASE Down!AskCurrent(1)  BY <1>1, <1>2, DownIs, DownAsks DEF Down!AskCurrent
<1>3. CASE Down!AskFuture(1)  BY <1>1, <1>3, DownIs, DownAsks DEF Down!AskFuture
<1>4. CASE \E s \in {"home"} : Down!AskSync(1, s)
  <2> DEFINE a == Down!SyncStart("home")
             limit == 3 * (Down!Day(now) - 1)
  <2>1. Down!Ask(1, "home", a, Down!SyncEnd)  BY <1>4 DEF Down!AskSync
  <2>2. a = IF \E t \in History : t > limit THEN CHOOSE t \in History : \A u \in History : u <= t ELSE limit
    BY DEF Down!SyncStart, History
  <2>3. History \subseteq 0..horizon /\ horizon \in Nat  BY <1>1, DownIs DEF DownTyped
  <2>4. limit \in Down!Slots  BY <1>1, DownIs
  <2>5. CASE \E t \in History : t > limit
    <3>1. History # {}  BY <2>5
    <3>2. \E t \in History : \A u \in History : u <= t  BY <2>3, <3>1, HasLast
    <3>3. a \in History  BY <2>2, <2>5, <3>2
    <3>4. a \in Down!Slots  BY <1>1, <2>3, <3>3, DownIs
    <3> QED  BY <1>1, <2>1, <3>4, DownIs, DownAsks
  <2>6. CASE ~(\E t \in History : t > limit)
    <3>1. a \in Down!Slots  BY <2>2, <2>4, <2>6
    <3> QED  BY <1>1, <2>1, <3>1, DownIs, DownAsks
  <2> QED  BY <2>5, <2>6
<1> QED  BY <1>2, <1>3, <1>4

(* A lookup goes on to at.                                                    *)
LEMMA DownMoves ==
    ASSUME DownSafe, call[1].at # "idle", NEW at \in {"fetch", "answer", "failed"},
           call' = [call EXCEPT ![1] = [call[1] EXCEPT !.at = at]], DownTyped', horizon' = horizon
    PROVE  DownSafe'
<1> PICK k : k = call[1]  OBVIOUS
<1>1. k \in DownLookups /\ k.got \subseteq 0..horizon  BY DownIs DEF DownSafe, DownCall
<1> PICK q : q = [k EXCEPT !.at = at]  OBVIOUS
<1>2. q \in DownLookups /\ q.got = k.got  BY <1>1 DEF DownLookups
<1>3. DownCall(q)'  BY <1>1, <1>2 DEF DownCall
<1> QED  BY <1>3, DownGoes

LEMMA DownLands ==
    ASSUME DownSafe, NEW how, Down!Land(1, how) PROVE call' = [call EXCEPT ![1] = [call[1] EXCEPT !.at = how]]
BY DEF Down!Land, DownSafe

LEMMA DownGoesOn ==
    ASSUME DownSafe, Down!Load(1) \/ Down!Spare(1) \/ Down!Fetch(1) \/ Down!FetchFails(1) PROVE DownSafe'
<1>1. \A f : Down!Fault(f) => faults' \in 0..2  BY DEF Down!Fault, DownSafe, DownTyped
<1>2. DownTyped /\ recent \in BOOLEAN /\ faults \in 0..2  BY DEF DownSafe, DownTyped
<1>3. CASE Down!Load(1)
  <2>1. call[1].at # "idle" /\ call' = [call EXCEPT ![1] = [call[1] EXCEPT !.at = "fetch"]]
    BY <1>3 DEF Down!Load, DownSafe
  <2>2. /\ UNCHANGED <<now, horizon, aged, recent, db, stored, synced>>
        /\ memory' \subseteq memory \union db /\ faults' \in 0..2
    BY <1>1, <1>2, <1>3 DEF Down!Load
  <2>3. DownTyped'  BY <1>2, <2>2 DEF DownTyped, History
  <2> QED  BY <2>1, <2>2, <2>3, DownMoves
<1>4. CASE Down!Spare(1)
  <2>1. call[1].at # "idle" /\ call' = [call EXCEPT ![1] = [call[1] EXCEPT !.at = "answer"]]
    BY <1>4, DownLands DEF Down!Spare
  <2>2. DownTyped' /\ horizon' = horizon  BY <1>2, <1>4, DownStays DEF Down!Spare
  <2> QED  BY <2>1, <2>2, DownMoves
<1>5. CASE Down!Fetch(1)
  <2>1. call[1].at # "idle" /\ call' = [call EXCEPT ![1] = [call[1] EXCEPT !.at = "answer"]]
    BY <1>5, DownLands DEF Down!Fetch
  <2>2. /\ UNCHANGED <<now, horizon, aged, stored, synced>> /\ recent' \in BOOLEAN /\ faults' \in 0..2
        /\ memory' \subseteq memory \union (0..horizon) /\ db' \subseteq db \union (0..horizon)
    BY <1>1, <1>2, <1>5 DEF Down!Fetch
  <2>3. DownTyped'  BY <1>2, <2>2 DEF DownTyped, History
  <2> QED  BY <2>1, <2>2, <2>3, DownMoves
<1>6. CASE Down!FetchFails(1)
  <2> DEFINE how == IF Down!Range(call[1]) \cap memory # {} THEN "answer" ELSE "failed"
  <2>1. how \in {"fetch", "answer", "failed"} /\ Down!Land(1, how)  BY <1>6 DEF Down!FetchFails
  <2>2. DownTyped' /\ horizon' = horizon /\ call[1].at # "idle"
    BY <1>1, <1>2, <1>6, DownStays DEF Down!FetchFails
  <2> HIDE DEF how
  <2>3. call' = [call EXCEPT ![1] = [call[1] EXCEPT !.at = how]]  BY <2>1, DownLands
  <2> QED  BY <2>1, <2>2, <2>3, DownMoves
<1> QED  BY <1>3, <1>4, <1>5, <1>6

LEMMA DownEnds == ASSUME DownSafe, Down!Answer(1) \/ Down!Done(1) PROVE DownSafe'
<1> PICK k : k = call[1]  OBVIOUS
<1>1. DownTyped /\ recent \in BOOLEAN /\ faults \in 0..2  BY DEF DownSafe, DownTyped
<1>2. k \in DownLookups /\ k.got \subseteq 0..horizon
  BY DownIs DEF Down!Answer, Down!Done, DownSafe, DownCall
<1>3. CASE Down!Answer(1)
  <2> DEFINE g == Down!Range(k) \cap memory
             r1 == [k EXCEPT !.at = "answered"]
             r == [r1 EXCEPT !.got = g]
  <2>1. call' = [call EXCEPT ![1] = [k EXCEPT !.at = "answered", !.got = g]]
    <3>1. call' = [call EXCEPT ![1].at = "answered", ![1].got = g] /\ call = [c \in {1} |-> call[1]]
      BY <1>3 DEF Down!Answer, DownSafe
    <3> QED  BY <3>1
  <2>2. DownTyped' /\ horizon' = horizon  BY <1>1, <1>3, DownStays DEF Down!Answer
  <2>3. g \subseteq 0..horizon /\ g \subseteq Down!Slots  BY <1>1, DownIs DEF DownTyped
  <2> HIDE DEF g
  <2>4. call' = [call EXCEPT ![1] = r]  BY <2>1
  <2>5. r1 \in DownLookups  BY <1>2 DEF DownLookups
  <2> HIDE DEF r1
  <2>6. r \in DownLookups /\ r.got = g  BY <2>3, <2>5 DEF DownLookups
  <2> HIDE DEF r
  <2> PICK q : q = r  OBVIOUS
  <2>7. DownCall(q)'  BY <2>2, <2>3, <2>6 DEF DownCall
  <2> QED  BY <2>2, <2>4, <2>7, DownGoes
<1>4. CASE Down!Done(1)
  <2>1. call' = [call EXCEPT ![1] = Down!Idle] /\ UNCHANGED <<now, horizon, aged, recent, memory, db, faults>>
    BY <1>4 DEF Down!Done
  <2>2. \/ UNCHANGED <<stored, synced>>
        \/ stored' = [stored EXCEPT !["home"] = @ \union k.got] /\ synced' \subseteq synced \union {"home"}
    BY <1>4 DEF Down!Done
  <2>3. DownTyped'
    <3>1. CASE UNCHANGED <<stored, synced>>  BY <1>1, <2>1, <3>1, DownStays
    <3>2. CASE stored' = [stored EXCEPT !["home"] = @ \union k.got] /\ synced' \subseteq synced \union {"home"}
      <4>1. History' = History \union k.got /\ stored' = [s \in {"home"} |-> History']
        BY <1>1, <3>2 DEF DownTyped, History
      <4> QED  BY <1>1, <1>2, <2>1, <3>2, <4>1 DEF DownTyped
    <3> QED  BY <2>2, <3>1, <3>2
  <2>4. DownCall(Down!Idle)'  BY DEF DownCall, Down!Idle
  <2>5. Down!Idle' = Down!Idle  BY DEF Down!Idle
  <2> PICK q : q = Down!Idle  OBVIOUS
  <2>6. DownCall(q)'  BY <2>5 DEF DownCall
  <2> QED  BY <2>1, <2>3, <2>6, DownGoes
<1> QED  BY <1>3, <1>4

LEMMA DownPasses == ASSUME DownSafe, Down!Publish \/ Down!QuarterHour \/ Down!Tick \/ Down!Restart PROVE DownSafe'
<1>1. DownTyped  BY DEF DownSafe
<1>2. CASE Down!Restart
  <2>1. DownTyped'
    <3>1. /\ memory' = {} /\ recent' = FALSE /\ faults' = faults + 1 /\ faults < 2
          /\ UNCHANGED <<now, horizon, aged, db, stored, synced>>
      BY <1>2 DEF Down!Restart, Down!Fault
    <3>2. faults' \in 0..2  BY <1>1, <3>1 DEF DownTyped
    <3>3. History' = History  BY <3>1 DEF History
    <3> QED  BY <1>1, <3>1, <3>2, <3>3 DEF DownTyped
  <2>2. call' = [c \in {1} |-> Down!Idle] /\ Down!Idle' = Down!Idle  BY <1>2 DEF Down!Restart, Down!Idle
  <2>3. call' = [c \in {1} |-> call'[1]] /\ call'[1] = Down!Idle  BY <2>2
  <2> QED  BY <2>1, <2>2, <2>3 DEF DownSafe, DownCall
<1>3. CASE Down!Publish \/ Down!QuarterHour \/ Down!Tick
  <2>1. /\ UNCHANGED <<memory, db, stored, faults, call>> /\ horizon' >= horizon /\ horizon' \in 0..10
        /\ now' \in 3..8 /\ aged' \in 0..horizon' /\ recent' \in BOOLEAN /\ synced' \subseteq {"home"}
    <3>1. /\ now \in 3..8 /\ horizon \in 0..10 /\ aged \in 0..horizon /\ recent \in BOOLEAN
          /\ synced \subseteq {"home"} /\ Down!Day(now) \in 1..2
      BY <1>1, DownIs DEF DownTyped
    <3>2. CASE Down!Publish  BY <3>1, <3>2 DEF Down!Publish
    <3>3. CASE Down!QuarterHour
      <4>1. /\ memory' = memory /\ db' = db /\ stored' = stored /\ faults' = faults /\ call' = call
           /\ horizon' = horizon /\ recent' = FALSE /\ aged' = horizon
           /\ now' = now /\ synced' = synced
        BY <3>3 DEF Down!QuarterHour
      <4>2. recent' \in BOOLEAN /\ synced' \subseteq {"home"}  BY <3>1, <4>1
      <4>3. horizon' >= horizon /\ horizon' \in 0..10 /\ now' \in 3..8 /\ aged' \in 0..horizon'
        BY <3>1, <4>1
      <4> QED  BY <4>1, <4>2, <4>3
    <3>4. CASE Down!Tick
      <4>1. /\ memory' = memory /\ db' = db /\ stored' = stored /\ faults' = faults /\ call' = call
           /\ horizon' = horizon /\ recent' = FALSE /\ aged' = horizon
           /\ now' = now + 1 /\ now + 1 < 9 /\ synced' = {}
        BY <3>4 DEF Down!Tick
      <4>2. recent' \in BOOLEAN /\ synced' \subseteq {"home"}  BY <3>1, <4>1
      <4>3. horizon' >= horizon /\ horizon' \in 0..10 /\ now' \in 3..8 /\ aged' \in 0..horizon'
        BY <3>1, <4>1
      <4> QED  BY <4>1, <4>2, <4>3
    <3> QED  BY <1>3, <3>2, <3>3, <3>4
  <2>2. 0..horizon \subseteq 0..horizon'  BY <1>1, <2>1 DEF DownTyped
  <2>3. DownTyped'  BY <1>1, <2>1, <2>2 DEF DownTyped, History
  <2>4. DownCall(call[1])'  BY <2>1, <2>2 DEF DownSafe, DownCall, Down!Idle
  <2> QED  BY <2>1, <2>3, <2>4 DEF DownSafe
<1> QED  BY <1>2, <1>3

LEMMA DownFirst == ASSUME Down!Init PROVE DownSafe
<1>1. /\ now \in 3..4 /\ horizon = 4 /\ aged = 4 /\ recent = FALSE /\ memory = {} /\ db = 0..4
      /\ stored = [s \in {"home"} |-> 0..now] /\ synced = {} /\ faults = 0 /\ call = [c \in {1} |-> Down!Idle]
  BY DEF Down!Init
<1>2. History = 0..now /\ History \subseteq 0..4 /\ stored = [s \in {"home"} |-> History]  BY <1>1 DEF History
<1>4. now \in 3..8 /\ horizon \in 0..10 /\ aged \in 0..horizon /\ faults \in 0..2  BY <1>1
<1>3. DownTyped  BY <1>1, <1>2, <1>4 DEF DownTyped
<1> QED  BY <1>1, <1>3 DEF DownSafe, DownCall

LEMMA DownNext == DownSafe /\ [Down!Next]_agile => DownSafe'
<1> SUFFICES ASSUME DownSafe, [Down!Next]_agile PROVE DownSafe'  OBVIOUS
<1>1. CASE UNCHANGED agile
  BY <1>1 DEF agile, DownSafe, DownTyped, DownCall, History, Down!Idle
<1>2. Down!Next => \/ Down!Publish \/ Down!QuarterHour \/ Down!Tick \/ Down!Restart
                   \/ Down!AskCurrent(1) \/ Down!AskFuture(1) \/ \E s \in {"home"} : Down!AskSync(1, s)
                   \/ Down!Load(1) \/ Down!Spare(1) \/ Down!Fetch(1) \/ Down!FetchFails(1)
                   \/ Down!Answer(1) \/ Down!Done(1)
  BY DEF Down!Next
<1> QED  BY <1>1, <1>2, DownPasses, DownAsksAny, DownGoesOn, DownEnds

LEMMA DownMeans == DownSafe => Down!TypeOK
<1> SUFFICES ASSUME DownSafe PROVE Down!TypeOK  OBVIOUS
<1>1. DownTyped /\ horizon \in Down!Slots
  <2>1. DownTyped /\ horizon \in 0..horizon  BY DEF DownSafe, DownTyped
  <2> QED  BY <2>1, DownIs
<1>2. \A c \in {1} : call[c] = Down!Idle \/
        /\ DOMAIN call[c] = {"at", "kind", "when", "start", "end", "due", "leader", "since", "got"}
        /\ {call[c].when, call[c].start, call[c].end, call[c].due, call[c].since} \cup call[c].got \subseteq Down!Slots
        /\ call[c].leader \in {1}
  <2>1. call[1] = Down!Idle \/ call[1] \in DownLookups  BY DEF DownSafe, DownCall
  <2>2. \A k \in DownLookups :
          /\ DOMAIN k = {"at", "kind", "when", "start", "end", "due", "leader", "since", "got"}
          /\ {k.when, k.start, k.end, k.due, k.since} \cup k.got \subseteq Down!Slots
          /\ k.leader \in {1}
    BY DEF DownLookups
  <2> QED  BY <2>1, <2>2
<1> QED  BY <1>1, <1>2 DEF Down!TypeOK, DownTyped, History

-----------------------------------------------------------------------------
(* What is known of the prices in the parts that are about their histories.   *)
HistoriesSound ==
    /\ part = "steady" => ManySafe
    /\ part = "down" => DownSafe

(* The history of a site that syncs in every slot has no hole, however many   *)
(* lookups overlap, join each other or are stored late, through failures of   *)
(* the database and restarts.                                                 *)
THEOREM PricesHold == PartsSpec => []PricesInv
<1>1. PartsInit => HistoriesSound
  <2> SUFFICES ASSUME PartsInit PROVE HistoriesSound  OBVIOUS
  <2>1. part = "steady" => Steadily!Init  BY DEF PartsInit, OfAgile
  <2>2. part = "down" => Down!Init  BY DEF PartsInit
  <2> QED  BY <2>1, <2>2, ManyFirst, DownFirst DEF HistoriesSound
<1>2. HistoriesSound /\ [PartsNext]_vars => HistoriesSound'
  <2> SUFFICES ASSUME HistoriesSound, [PartsNext]_vars PROVE HistoriesSound'  OBVIOUS
  <2>1. part' = part
    BY DEF PartsNext, vars, ForAgile, ForVpp, ForFlags, ForRules, ForLimits
  <2>2. part = "steady" => [Steadily!Next]_agile
    BY DEF PartsNext, vars, ForAgile, ForVpp, ForFlags, ForRules, ForLimits, agile
  <2>3. part = "down" => [Down!Next]_agile
    BY DEF PartsNext, vars, ForAgile, ForVpp, ForFlags, ForRules, ForLimits, agile
  <2> QED  BY <2>1, <2>2, <2>3, ManyNext, DownNext DEF HistoriesSound
<1>3. HistoriesSound => PricesInv
  BY ManyMeans, DownMeans DEF HistoriesSound, PricesInv, HistoryHasNoHole
<1> QED BY <1>1, <1>2, <1>3, PTL DEF PartsSpec

-----------------------------------------------------------------------------
(* A failing upstream, the database readable, two lookups: one that is about  *)
(* to ask upstream has in memory what the database has of its days.           *)
ServedLookups == [at : {"load", "fetch", "joined", "answer", "failed", "answered"}, kind : {"current", "future", "home"},
                  when : 3..5, start : 0..8, end : 0..8, due : 0..8,
                  leader : {1, 2}, since : 3..5, got : SUBSET (0..8)]
ServedTyped ==
    /\ now \in 3..5 /\ horizon \in 0..7 /\ aged \in 0..horizon /\ recent \in BOOLEAN
    /\ memory \subseteq 0..horizon /\ db \subseteq 0..horizon
    /\ stored = [s \in {"home"} |-> History] /\ History \subseteq 0..horizon
    /\ synced \subseteq {"home"}
ServedCall(k) == k = Served!Idle \/
    /\ k \in ServedLookups /\ k.got \subseteq 0..horizon
    /\ k.at = "fetch" => db \cap Served!Fetched(k) \subseteq memory
ServedSafe ==
    /\ ServedTyped /\ call = [c \in {1, 2} |-> call[c]]
    /\ \A c \in {1, 2} : ServedCall(call[c])

LEMMA ServedIs ==
    /\ Served!Idle = [at |-> "idle"]
    /\ ServedTyped => /\ Served!Day(now) = 1 /\ aged \in 0..7 /\ 0..horizon \subseteq 0..8 /\ horizon \in Nat
                      /\ Served!SyncEnd \in 0..8
    /\ \A k \in ServedLookups : Served!Range(k) \subseteq Served!Fetched(k)
<1>1. Served!Idle = [at |-> "idle"]  BY DEF Served!Idle
<1>2. ASSUME ServedTyped
      PROVE  /\ Served!Day(now) = 1 /\ aged \in 0..7 /\ 0..horizon \subseteq 0..8 /\ horizon \in Nat
             /\ Served!SyncEnd \in 0..8
  <2>1. now \in 3..5 /\ horizon \in 0..7 /\ aged \in 0..horizon  BY <1>2 DEF ServedTyped
  <2>2. Served!Day(now) = 1  BY <2>1 DEF Served!Day
  <2>3. Served!SyncEnd \in 0..8  BY <2>2 DEF Served!SyncEnd
  <2> QED  BY <2>1, <2>2, <2>3
<1>3. ASSUME NEW k \in ServedLookups PROVE Served!Range(k) \subseteq Served!Fetched(k)
  <2>1. k.when \in 3..5 /\ k.start \in 0..8 /\ k.end \in 0..8  BY DEF ServedLookups
  <2>2. Served!Day(k.when) = 1  BY <2>1 DEF Served!Day
  <2>3. Served!FetchStart(k) \in 0..8 /\ Served!FetchStart(k) <= k.start  BY <2>1, <2>2 DEF Served!FetchStart
  <2>4. Served!Fetched(k) = Served!FetchStart(k)..8  BY <2>2 DEF Served!Fetched
  <2> QED  BY <2>1, <2>3, <2>4 DEF Served!Range
<1> QED  BY <1>1, <1>2, <1>3

(* What the database gets, memory has got.                                    *)
Follows == horizon' >= horizon /\ memory \subseteq memory' /\ db' \subseteq db \union memory'
LEMMA ServedStill ==
    ASSUME ServedTyped, ServedTyped', Follows, NEW k, ServedCall(k) PROVE ServedCall(k)'
<1>1. Served!Idle' = Served!Idle  BY DEF Served!Idle
<1>2. 0..horizon \subseteq 0..horizon'  BY DEF ServedTyped, Follows
<1>3. Served!Fetched(k)' = Served!Fetched(k)  BY DEF Served!Fetched, Served!FetchStart, Served!Day
<1> QED  BY <1>1, <1>2, <1>3 DEF ServedCall, Follows

LEMMA ServedGoes ==
    ASSUME ServedSafe, NEW c \in {1, 2}, NEW q, call' = [call EXCEPT ![c] = q], ServedTyped', Follows, ServedCall(q)'
    PROVE  ServedSafe'
<1>1. call = [d \in {1, 2} |-> call[d]]  BY DEF ServedSafe
<1>2. call' = [d \in {1, 2} |-> call'[d]] /\ call'[c] = q /\ \A d \in {1, 2} : d # c => call'[d] = call[d]
  BY <1>1
<1>3. ASSUME NEW d \in {1, 2} PROVE ServedCall(call[d])'
  <2> PICK j : j = call'[d]  OBVIOUS
  <2>1. ServedCall(j)'
    <3>1. CASE d = c  BY <1>2, <3>1
    <3>2. CASE d # c
      <4>1. ServedCall(j)  BY <1>2, <3>2 DEF ServedSafe
      <4> QED  BY <4>1, ServedStill DEF ServedSafe
    <3> QED  BY <3>1, <3>2
  <2> QED  BY <2>1 DEF ServedCall, Served!Fetched, Served!FetchStart, Served!Day
<1> QED  BY <1>2, <1>3 DEF ServedSafe

LEMMA ServedStays ==
    ASSUME ServedTyped, UNCHANGED <<now, horizon, aged, memory, db, stored, synced>>, recent' \in BOOLEAN
    PROVE  ServedTyped' /\ Follows
BY DEF ServedTyped, History, Follows

LEMMA ServedAsks ==
    ASSUME ServedSafe, NEW c \in {1, 2}, NEW kind \in {"current", "future", "home"}, NEW start \in 0..8, NEW end \in 0..8,
           Served!Ask(c, kind, start, end)
    PROVE  ServedSafe' /\ call[c] = Served!Idle /\ \A d \in {1, 2} : d # c => call'[d] = call[d]
<1> PICK k : k = [at |-> "load", kind |-> kind, when |-> now, start |-> start, end |-> end,
                  due |-> aged, leader |-> c, since |-> now, got |-> {}]  OBVIOUS
<1> DEFINE shared == {d \in {1, 2} : Served!Flying(d) /\ Served!Fetched(call[d]) = Served!Fetched(k)}
           e == CHOOSE d \in shared : TRUE
<1>1. call[c] = Served!Idle /\ UNCHANGED <<now, horizon, aged, recent, memory, db, stored, synced, faults>>
  BY DEF Served!Ask
<1>2. call' = [call EXCEPT ![c] = IF start > Served!CheckEnd(k) \/ Served!Covered(k) THEN [k EXCEPT !.at = "answer"]
                                  ELSE IF shared # {} THEN [k EXCEPT !.at = "joined", !.leader = e, !.since = call[e].since]
                                  ELSE k]
  BY DEF Served!Ask
<1>3. ServedTyped' /\ Follows  BY <1>1, ServedStays DEF ServedSafe, ServedTyped
<1>4. k \in ServedLookups /\ k.got = {} /\ k.at = "load"
  <2>1. aged \in 0..8 /\ now \in 3..5  BY ServedIs DEF ServedSafe, ServedTyped
  <2> QED  BY <2>1 DEF ServedLookups
<1>5. ASSUME NEW q \in ServedLookups, q.got = {}, q.at # "fetch", call' = [call EXCEPT ![c] = q] PROVE ServedSafe'
  <2>1. ServedCall(q)'  BY <1>5 DEF ServedCall
  <2> QED  BY <1>3, <1>5, <2>1, ServedGoes
<1>6. \A d \in {1, 2} : d # c => call'[d] = call[d]  BY <1>2 DEF ServedSafe
<1> HIDE DEF shared
<1>7. CASE start > Served!CheckEnd(k) \/ Served!Covered(k)
  <2> PICK q : q = [k EXCEPT !.at = "answer"]  OBVIOUS
  <2>1. q \in ServedLookups /\ q.got = {} /\ q.at = "answer"  BY <1>4 DEF ServedLookups
  <2>2. call' = [call EXCEPT ![c] = q]  BY <1>2, <1>7
  <2> QED  BY <1>1, <1>5, <1>6, <2>1, <2>2
<1>8. CASE ~(start > Served!CheckEnd(k) \/ Served!Covered(k)) /\ shared # {}
  <2>1. e \in shared  BY <1>8
  <2>2. call' = [call EXCEPT ![c] = [k EXCEPT !.at = "joined", !.leader = e, !.since = call[e].since]]
    BY <1>2, <1>8
  <2> HIDE DEF e
  <2>3. e \in {1, 2} /\ call[e].at \in {"load", "fetch"}  BY <2>1 DEF shared, Served!Flying
  <2>4. call[e] \in ServedLookups  BY <2>3, ServedIs DEF ServedSafe, ServedCall
  <2>5. call[e].since \in 3..5  BY <2>4 DEF ServedLookups
  <2> PICK q : q = [k EXCEPT !.at = "joined", !.leader = e, !.since = call[e].since]  OBVIOUS
  <2>6. q \in ServedLookups /\ q.got = {} /\ q.at = "joined"  BY <1>4, <2>3, <2>5 DEF ServedLookups
  <2> QED  BY <1>1, <1>5, <1>6, <2>2, <2>6
<1>9. CASE ~(start > Served!CheckEnd(k) \/ Served!Covered(k)) /\ shared = {}
  <2>1. call' = [call EXCEPT ![c] = k]  BY <1>2, <1>9
  <2> QED  BY <1>1, <1>4, <1>5, <1>6, <2>1
<1> QED  BY <1>7, <1>8, <1>9

LEMMA ServedAsksAny ==
    ASSUME ServedSafe, NEW c \in {1, 2},
           Served!AskCurrent(c) \/ Served!AskFuture(c) \/ \E s \in {"home"} : Served!AskSync(c, s)
    PROVE  ServedSafe' /\ call[c] = Served!Idle /\ \A d \in {1, 2} : d # c => call'[d] = call[d]
<1>1. ServedTyped /\ now \in 0..8 /\ Served!Day(now) = 1 /\ Served!SyncEnd \in 0..8
  BY ServedIs DEF ServedSafe, ServedTyped
<1>2. CASE Served!AskCurrent(c)  BY <1>1, <1>2, ServedAsks DEF Served!AskCurrent
<1>3. CASE Served!AskFuture(c)
  <2>1. Served!Ask(c, "future", now, 8)  BY <1>1, <1>3 DEF Served!AskFuture
  <2> QED  BY <1>1, <2>1, ServedAsks
<1>4. CASE \E s \in {"home"} : Served!AskSync(c, s)
  <2> DEFINE a == Served!SyncStart("home")
  <2>1. Served!Ask(c, "home", a, Served!SyncEnd)  BY <1>4 DEF Served!AskSync
  <2>2. a = IF \E t \in History : t > 0 THEN CHOOSE t \in History : \A u \in History : u <= t ELSE 0
    BY <1>1 DEF Served!SyncStart, History
  <2>3. History \subseteq 0..horizon /\ horizon \in Nat /\ 0..horizon \subseteq 0..8
    BY <1>1, ServedIs DEF ServedTyped
  <2>4. CASE \E t \in History : t > 0
    <3>1. \E t \in History : \A u \in History : u <= t  BY <2>3, <2>4, HasLast
    <3>2. a \in History  BY <2>2, <2>4, <3>1
    <3> HIDE DEF a
    <3>3. a \in 0..8  BY <2>3, <3>2
    <3> QED  BY <1>1, <2>1, <3>3, ServedAsks
  <2>5. CASE ~(\E t \in History : t > 0)
    <3>1. a = 0  BY <2>2, <2>5
    <3> HIDE DEF a
    <3> QED  BY <1>1, <2>1, <3>1, ServedAsks
  <2> QED  BY <2>4, <2>5
<1> QED  BY <1>2, <1>3, <1>4

LEMMA ServedLands ==
    ASSUME ServedSafe, NEW c \in {1, 2}, call[c].at = "fetch", NEW how \in {"answer", "failed"}, Served!Land(c, how),
           ServedTyped', Follows
    PROVE  /\ ServedSafe' /\ call'[c] = [call[c] EXCEPT !.at = how]
           /\ \A d \in {1, 2} : d # c /\ call[d].at = "fetch" => call'[d] = call[d]
<1>1. /\ call' = [d \in {1, 2} |-> call'[d]]
      /\ \A d \in {1, 2} : call'[d] = IF d = c \/ (call[d].at = "joined" /\ call[d].leader = c)
                                     THEN [call[d] EXCEPT !.at = how] ELSE call[d]
  BY DEF Served!Land
<1>2. ASSUME NEW d \in {1, 2} PROVE ServedCall(call[d])'
  <2> PICK k : k = call[d]  OBVIOUS
  <2>1. ServedCall(k)  BY DEF ServedSafe
  <2>2. CASE d = c \/ (k.at = "joined" /\ k.leader = c)
    <3>1. k \in ServedLookups /\ k.got \subseteq 0..horizon  BY <2>1, <2>2, ServedIs DEF ServedCall
    <3> PICK q : q = [k EXCEPT !.at = how]  OBVIOUS
    <3>2. q \in ServedLookups /\ q.got = k.got /\ q.at = how  BY <3>1 DEF ServedLookups
    <3>3. ServedCall(q)  BY <3>1, <3>2 DEF ServedCall
    <3>4. ServedCall(q)' /\ call'[d] = q  BY <1>1, <2>2, <3>3, ServedStill DEF ServedSafe
    <3> QED  BY <3>4 DEF ServedCall, Served!Fetched, Served!FetchStart, Served!Day
  <2>3. CASE ~(d = c \/ (k.at = "joined" /\ k.leader = c))
    <3>1. ServedCall(k)' /\ call'[d] = k  BY <1>1, <2>1, <2>3, ServedStill DEF ServedSafe
    <3> QED  BY <3>1 DEF ServedCall, Served!Fetched, Served!FetchStart, Served!Day
  <2> QED  BY <2>2, <2>3
<1>3. ServedSafe'  BY <1>1, <1>2 DEF ServedSafe
<1> QED  BY <1>1, <1>3

LEMMA ServedLoads ==
    ASSUME ServedSafe, NEW c \in {1, 2}, Served!Load(c)
    PROVE  ServedSafe' /\ call[c].at = "load" /\ \A d \in {1, 2} : d # c => call'[d] = call[d]
<1> PICK k : k = call[c]  OBVIOUS
<1>1. /\ k.at = "load" /\ UNCHANGED <<now, horizon, aged, recent, db, stored, synced>>
      /\ memory' = memory \union (db \cap Served!Fetched(k)) /\ call' = [call EXCEPT ![c] = [k EXCEPT !.at = "fetch"]]
  BY DEF Served!Load, Served!Fault, ServedSafe
<1>2. k \in ServedLookups /\ k.got \subseteq 0..horizon  BY <1>1, ServedIs DEF ServedSafe, ServedCall
<1> PICK q : q = [k EXCEPT !.at = "fetch"]  OBVIOUS
<1>3. q \in ServedLookups /\ q.got = k.got /\ Served!Fetched(q) = Served!Fetched(k)
  BY <1>2 DEF ServedLookups, Served!Fetched, Served!FetchStart, Served!Day
<1>4. ServedTyped' /\ Follows  BY <1>1 DEF ServedSafe, ServedTyped, History, Follows
<1>5. ServedCall(q)'
  <2>1. Served!Fetched(q)' = Served!Fetched(q)  BY DEF Served!Fetched, Served!FetchStart, Served!Day
  <2> QED  BY <1>1, <1>2, <1>3, <2>1 DEF ServedCall
<1> QED  BY <1>1, <1>4, <1>5, ServedGoes DEF ServedSafe

LEMMA ServedFetches ==
    ASSUME ServedSafe, NEW c \in {1, 2}, Served!Spare(c) \/ Served!Fetch(c)
    PROVE  /\ ServedSafe' /\ call'[c].at = "answer"
           /\ \A d \in {1, 2} : d # c /\ call[d].at = "fetch" => call'[d] = call[d]
<1>1. call[c].at = "fetch" /\ Served!Land(c, "answer")  BY DEF Served!Spare, Served!Fetch
<1>2. ServedTyped' /\ Follows
  <2>1. CASE Served!Spare(c)  BY <2>1, ServedStays DEF Served!Spare, ServedSafe, ServedTyped
  <2>2. CASE Served!Fetch(c)  BY <2>2 DEF Served!Fetch, ServedSafe, ServedTyped, History, Follows
  <2> QED  BY <2>1, <2>2
<1>3. ServedSafe' /\ call'[c] = [call[c] EXCEPT !.at = "answer"]
      /\ \A d \in {1, 2} : d # c /\ call[d].at = "fetch" => call'[d] = call[d]
  BY <1>1, <1>2, ServedLands
<1>4. call[c] \in ServedLookups  BY <1>1, ServedIs DEF ServedSafe, ServedCall
<1>5. [call[c] EXCEPT !.at = "answer"].at = "answer"  BY <1>4 DEF ServedLookups
<1> QED  BY <1>3, <1>5

LEMMA ServedFails ==
    ASSUME ServedSafe, NEW c \in {1, 2}, Served!FetchFails(c)
    PROVE  /\ ServedSafe' /\ call[c].at = "fetch"
           /\ call'[c].at = "failed" => Served!Range(call[c]) \cap memory = {} /\ Served!Range(call[c]) \cap db = {}
           /\ \A d \in {1, 2} : d # c /\ call[d].at = "fetch" => call'[d] = call[d]
<1> DEFINE how == IF Served!Range(call[c]) \cap memory # {} THEN "answer" ELSE "failed"
<1>1. /\ call[c].at = "fetch" /\ how \in {"answer", "failed"} /\ Served!Land(c, how)
      /\ UNCHANGED <<now, horizon, aged, recent, memory, db, stored, synced>>
  BY DEF Served!FetchFails
<1>2. call[c] \in ServedLookups /\ db \cap Served!Fetched(call[c]) \subseteq memory
      /\ Served!Range(call[c]) \subseteq Served!Fetched(call[c])
  BY <1>1, ServedIs DEF ServedSafe, ServedCall
<1>3. ServedTyped' /\ Follows  BY <1>1, ServedStays DEF ServedSafe, ServedTyped
<1>4. how = "failed" => Served!Range(call[c]) \cap memory = {} /\ Served!Range(call[c]) \cap db = {}  BY <1>2
<1> HIDE DEF how
<1>5. ServedSafe' /\ call'[c] = [call[c] EXCEPT !.at = how]
      /\ \A d \in {1, 2} : d # c /\ call[d].at = "fetch" => call'[d] = call[d]
  BY <1>1, <1>3, ServedLands
<1>6. call'[c].at = how  BY <1>2, <1>5 DEF ServedLookups
<1> QED  BY <1>1, <1>4, <1>5, <1>6

LEMMA ServedEnds ==
    ASSUME ServedSafe, NEW c \in {1, 2}, Served!Answer(c) \/ Served!Done(c)
    PROVE  ServedSafe' /\ call[c].at # "fetch" /\ \A d \in {1, 2} : d # c => call'[d] = call[d]
<1> PICK k : k = call[c]  OBVIOUS
<1>1. k.at \in {"answer", "answered", "failed"}  BY DEF Served!Answer, Served!Done
<1>2. k \in ServedLookups /\ k.got \subseteq 0..horizon  BY <1>1, ServedIs DEF ServedSafe, ServedCall
<1>3. ServedTyped /\ recent \in BOOLEAN  BY DEF ServedSafe, ServedTyped
<1>4. CASE Served!Answer(c)
  <2> DEFINE g == Served!Range(k) \cap memory
             r1 == [k EXCEPT !.at = "answered"]
             r == [r1 EXCEPT !.got = g]
  <2>1. call' = [call EXCEPT ![c] = [k EXCEPT !.at = "answered", !.got = g]]
    <3>1. call' = [call EXCEPT ![c].at = "answered", ![c].got = g] /\ call = [d \in {1, 2} |-> call[d]]
      BY <1>4 DEF Served!Answer, ServedSafe
    <3> QED  BY <3>1
  <2>2. ServedTyped' /\ Follows /\ horizon' = horizon  BY <1>3, <1>4, ServedStays DEF Served!Answer
  <2>3. g \subseteq 0..horizon /\ g \subseteq 0..8  BY <1>3, ServedIs DEF ServedTyped
  <2> HIDE DEF g
  <2>4. call' = [call EXCEPT ![c] = r]  BY <2>1
  <2>5. r1 \in ServedLookups /\ r1.at = "answered"  BY <1>2 DEF ServedLookups
  <2> HIDE DEF r1
  <2>6. r \in ServedLookups /\ r.got = g /\ r.at = "answered"  BY <2>3, <2>5 DEF ServedLookups
  <2> HIDE DEF r
  <2> PICK q : q = r  OBVIOUS
  <2>7. ServedCall(q)'  BY <2>2, <2>3, <2>6 DEF ServedCall
  <2>8. \A d \in {1, 2} : d # c => call'[d] = call[d]  BY <2>4 DEF ServedSafe
  <2> QED  BY <1>1, <2>2, <2>4, <2>7, <2>8, ServedGoes
<1>5. CASE Served!Done(c)
  <2>1. call' = [call EXCEPT ![c] = Served!Idle] /\ UNCHANGED <<now, horizon, aged, recent, memory, db, faults>>
    BY <1>5 DEF Served!Done
  <2>2. \/ UNCHANGED <<stored, synced>>
        \/ stored' = [stored EXCEPT !["home"] = @ \union k.got] /\ synced' \subseteq synced \union {"home"}
    BY <1>5 DEF Served!Done
  <2>3. ServedTyped'
    <3>1. CASE UNCHANGED <<stored, synced>>  BY <1>3, <2>1, <3>1, ServedStays
    <3>2. CASE stored' = [stored EXCEPT !["home"] = @ \union k.got] /\ synced' \subseteq synced \union {"home"}
      <4>1. History' = History \union k.got /\ stored' = [s \in {"home"} |-> History']
        BY <1>3, <3>2 DEF ServedTyped, History
      <4> QED  BY <1>2, <1>3, <2>1, <3>2, <4>1 DEF ServedTyped
    <3> QED  BY <2>2, <3>1, <3>2
  <2>4. Served!Idle' = Served!Idle /\ Follows  BY <1>3, <2>1 DEF Served!Idle, Follows, ServedTyped
  <2> PICK q : q = Served!Idle  OBVIOUS
  <2>5. ServedCall(q)'  BY <2>4 DEF ServedCall
  <2>6. \A d \in {1, 2} : d # c => call'[d] = call[d]  BY <2>1 DEF ServedSafe
  <2> QED  BY <1>1, <2>1, <2>3, <2>4, <2>5, <2>6, ServedGoes
<1> QED  BY <1>4, <1>5

LEMMA ServedPasses ==
    ASSUME ServedSafe, Served!Publish \/ Served!QuarterHour \/ Served!Tick \/ UNCHANGED agile
    PROVE  ServedSafe' /\ call' = call
<1>1. ServedTyped  BY DEF ServedSafe
<1>2. /\ UNCHANGED <<memory, db, stored, call>> /\ horizon' >= horizon /\ horizon' \in 0..7
      /\ now' \in 3..5 /\ aged' \in 0..horizon' /\ recent' \in BOOLEAN /\ synced' \subseteq {"home"}
  <2>1. /\ now \in 3..5 /\ horizon \in 0..7 /\ aged \in 0..horizon /\ recent \in BOOLEAN
        /\ synced \subseteq {"home"} /\ Served!Day(now) = 1
    BY <1>1, ServedIs DEF ServedTyped
  <2>2. CASE Served!Publish  BY <2>1, <2>2 DEF Served!Publish
  <2>3. CASE Served!QuarterHour
    <3>1. /\ memory' = memory /\ db' = db /\ stored' = stored /\ call' = call
         /\ horizon' = horizon /\ recent' = FALSE /\ aged' = horizon
         /\ now' = now /\ synced' = synced
      BY <2>3 DEF Served!QuarterHour
    <3>2. recent' \in BOOLEAN /\ synced' \subseteq {"home"}  BY <2>1, <3>1
    <3>3. horizon' >= horizon /\ horizon' \in 0..7 /\ now' \in 3..5 /\ aged' \in 0..horizon'
      BY <2>1, <3>1
    <3> QED  BY <3>1, <3>2, <3>3
  <2>4. CASE Served!Tick
    <3>1. /\ memory' = memory /\ db' = db /\ stored' = stored /\ call' = call
         /\ horizon' = horizon /\ recent' = FALSE /\ aged' = horizon
         /\ now' = now + 1 /\ now + 1 < 6 /\ synced' = {}
      BY <2>4 DEF Served!Tick
    <3>2. recent' \in BOOLEAN /\ synced' \subseteq {"home"}  BY <2>1, <3>1
    <3>3. horizon' >= horizon /\ horizon' \in 0..7 /\ now' \in 3..5 /\ aged' \in 0..horizon'
      BY <2>1, <3>1
    <3> QED  BY <3>1, <3>2, <3>3
  <2>5. CASE UNCHANGED agile  BY <2>1, <2>5 DEF agile
  <2> QED  BY <2>2, <2>3, <2>4, <2>5
<1>3. 0..horizon \subseteq 0..horizon'  BY <1>1, <1>2 DEF ServedTyped
<1>4. ServedTyped' /\ Follows  BY <1>1, <1>2, <1>3 DEF ServedTyped, History, Follows
<1>5. ASSUME NEW d \in {1, 2} PROVE ServedCall(call[d])'
  <2> PICK k : k = call[d] /\ k = call'[d]  BY <1>2
  <2>1. ServedCall(k)  BY DEF ServedSafe
  <2>2. ServedCall(k)'  BY <1>1, <1>4, <2>1, ServedStill
  <2> QED  BY <2>2 DEF ServedCall, Served!Fetched, Served!FetchStart, Served!Day
<1> QED  BY <1>2, <1>4, <1>5 DEF ServedSafe

LEMMA ServedRestarts == ASSUME ServedSafe, Served!Restart PROVE ServedSafe' /\ \A c \in {1, 2} : call'[c].at = "idle"
<1>1. ServedTyped'  BY DEF ServedSafe, Served!Restart, ServedTyped, History
<1>2. call' = [c \in {1, 2} |-> Served!Idle] /\ Served!Idle' = Served!Idle  BY DEF Served!Restart, Served!Idle
<1>3. call' = [c \in {1, 2} |-> call'[c]] /\ \A c \in {1, 2} : call'[c] = Served!Idle  BY <1>2
<1> QED  BY <1>1, <1>2, <1>3, ServedIs DEF ServedSafe, ServedCall

LEMMA ServedFirst == ASSUME Served!Init PROVE ServedSafe
<1>1. /\ now \in 3..4 /\ horizon = 4 /\ aged = 4 /\ recent = FALSE /\ memory = {} /\ db = 0..4
      /\ stored = [s \in {"home"} |-> 0..now] /\ synced = {} /\ call = [c \in {1, 2} |-> Served!Idle]
  BY DEF Served!Init
<1>2. History = 0..now /\ History \subseteq 0..4 /\ stored = [s \in {"home"} |-> History]  BY <1>1 DEF History
<1>4. now \in 3..5 /\ horizon \in 0..7 /\ aged \in 0..horizon  BY <1>1
<1>5. recent \in BOOLEAN  BY <1>1
<1>3. ServedTyped  BY <1>1, <1>2, <1>4, <1>5 DEF ServedTyped
<1> QED  BY <1>1, <1>3 DEF ServedSafe, ServedCall

LEMMA ServedNext ==
    ServedSafe /\ [Served!Next]_agile => ServedSafe' /\ Served!EmptyHanded
<1> SUFFICES ASSUME ServedSafe, [Served!Next]_agile PROVE ServedSafe' /\ Served!EmptyHanded  OBVIOUS
<1>1. Served!Idle.at = "idle"  BY ServedIs
<1>2. CASE Served!Publish \/ Served!QuarterHour \/ Served!Tick \/ UNCHANGED agile
  BY <1>2, ServedPasses DEF Served!EmptyHanded
<1>3. CASE Served!Restart  BY <1>3, ServedRestarts DEF Served!EmptyHanded
<1>4. ASSUME NEW c \in {1, 2},
             \/ Served!AskCurrent(c) \/ Served!AskFuture(c) \/ \E s \in {"home"} : Served!AskSync(c, s)
             \/ Served!Load(c) \/ Served!Answer(c) \/ Served!Done(c)
      PROVE  ServedSafe' /\ Served!EmptyHanded
  <2>1. ServedSafe' /\ call[c].at # "fetch" /\ \A d \in {1, 2} : d # c => call'[d] = call[d]
    BY <1>1, <1>4, ServedAsksAny, ServedLoads, ServedEnds
  <2> QED  BY <2>1 DEF Served!EmptyHanded
<1>5. ASSUME NEW c \in {1, 2}, Served!Spare(c) \/ Served!Fetch(c) PROVE ServedSafe' /\ Served!EmptyHanded
  <2>1. /\ ServedSafe' /\ call'[c].at = "answer"
        /\ \A d \in {1, 2} : d # c /\ call[d].at = "fetch" => call'[d] = call[d]
    BY <1>5, ServedFetches
  <2> QED  BY <2>1 DEF Served!EmptyHanded
<1>6. ASSUME NEW c \in {1, 2}, Served!FetchFails(c) PROVE ServedSafe' /\ Served!EmptyHanded
  BY <1>6, ServedFails DEF Served!EmptyHanded
<1>7. Served!Next => \/ Served!Publish \/ Served!QuarterHour \/ Served!Tick \/ Served!Restart
                     \/ \E c \in {1, 2} :
                          \/ Served!AskCurrent(c) \/ Served!AskFuture(c) \/ \E s \in {"home"} : Served!AskSync(c, s)
                          \/ Served!Load(c) \/ Served!Spare(c) \/ Served!Fetch(c) \/ Served!FetchFails(c)
                          \/ Served!Answer(c) \/ Served!Done(c)
  BY DEF Served!Next
<1> QED  BY <1>2, <1>3, <1>4, <1>5, <1>6, <1>7

(* One lookup: what fails upstream has nothing in memory.                     *)
LEMMA DownFails == DownSafe /\ [Down!Next]_agile => Down!EmptyHanded
<1> SUFFICES ASSUME DownSafe, [Down!Next]_agile, call[1].at = "fetch", call'[1].at = "failed"
             PROVE  Down!Range(call[1]) \cap memory = {}
  BY DEF Down!EmptyHanded
<1>1. call[1] \in DownLookups  BY DownIs DEF DownSafe, DownCall
<1>2. ~Down!Land(1, "answer")
  <2> SUFFICES ASSUME Down!Land(1, "answer") PROVE FALSE  OBVIOUS
  <2>1. call' = [call EXCEPT ![1] = [call[1] EXCEPT !.at = "answer"]]  BY DownLands
  <2> QED  BY <1>1, <2>1 DEF DownSafe, DownLookups
<1>3. call' # call /\ call'[1] # Down!Idle  BY DownIs
<1>4. Down!FetchFails(1)
  BY <1>2, <1>3 DEF Down!Next, agile, Down!Publish, Down!QuarterHour, Down!Tick, Down!Restart, Down!AskCurrent,
                    Down!AskFuture, Down!AskSync, Down!Ask, Down!Idle, Down!Load, Down!Spare, Down!Fetch,
                    Down!Answer, Down!Done
<1>5. call' = [call EXCEPT ![1] = [call[1] EXCEPT !.at = IF Down!Range(call[1]) \cap memory # {} THEN "answer" ELSE "failed"]]
  BY <1>4, DownLands DEF Down!FetchFails
<1> QED  BY <1>1, <1>5 DEF DownSafe, DownLookups

-----------------------------------------------------------------------------
(* The page of the VPP rates fails, the database does not: one lookup, that   *)
(* asks for the page only when a day of its range is not stored.              *)
PagesFields == {"at", "first", "last", "midnight", "due", "read", "write", "got"}
PagesCall(k, days) == k = Pages!Idle \/
    /\ k = [f \in PagesFields |-> k[f]] /\ k.at # "idle"
    /\ k.at = "use" => k.read = days \cap Pages!Of(k.first..k.last)
    /\ k.at = "page" => ~(Pages!Of(k.first..k.last) \subseteq days)
PagesSafe == lookup = [c \in {1} |-> lookup[1]] /\ PagesCall(lookup[1], months)

LEMMA PagesPuts ==
    ASSUME PagesSafe, NEW k, Pages!Put(1, k), PagesCall(k, months') PROVE PagesSafe'
<1>1. lookup' = [c \in {1} |-> lookup'[1]] /\ lookup'[1] = k  BY DEF PagesSafe, Pages!Put
<1> QED  BY <1>1 DEF PagesSafe

(* A lookup that goes where it need know nothing.                             *)
PagesFree(q) == q = [f \in PagesFields |-> q[f]] /\ q.at \notin {"idle", "use", "page"}
LEMMA PagesGoes == ASSUME PagesSafe, NEW q, Pages!Put(1, q), PagesFree(q) PROVE PagesSafe'
<1>1. PagesCall(q, months')  BY DEF PagesFree, PagesCall
<1> QED  BY <1>1, PagesPuts

LEMMA PagesAsks ==
    ASSUME PagesSafe, NEW f, NEW l, NEW m, Pages!Ask(1, f, l, m) PROVE PagesSafe'
<1> PICK k : k = [at |-> "read", first |-> f, last |-> l, midnight |-> m, due |-> posted,
                  read |-> {}, write |-> {}, got |-> {}]
  OBVIOUS
<1> PICK a : a = [k EXCEPT !.at = "answered", !.got = Pages!Cached(Pages!Asked(k))]  OBVIOUS
<1>1. Pages!Put(1, a) \/ Pages!Put(1, k)  BY DEF Pages!Ask
<1>2. PagesFree(k)  BY DEF PagesFields, PagesFree
<1>3. PagesFree(a)  BY <1>2 DEF PagesFields, PagesFree
<1>4. CASE Pages!Put(1, a)  BY <1>3, <1>4, PagesGoes
<1>5. CASE Pages!Put(1, k)  BY <1>2, <1>5, PagesGoes
<1> QED  BY <1>1, <1>4, <1>5

LEMMA PagesReads == ASSUME PagesSafe, Pages!Read(1) PROVE PagesSafe'
<1> PICK k : k = lookup[1]  OBVIOUS
<1> PICK q : q = [k EXCEPT !.at = "use", !.read = months \cap Pages!Of(Pages!Within(k))]  OBVIOUS
<1>1. k.at = "read" /\ Pages!Put(1, q) /\ months' = months  BY DEF Pages!Read, Pages!Fault
<1>2. k = [x \in PagesFields |-> k[x]]  BY <1>1 DEF PagesSafe, PagesCall, Pages!Idle
<1>3. /\ q = [x \in PagesFields |-> q[x]] /\ q.at = "use" /\ q.first = k.first /\ q.last = k.last
      /\ q.read = months \cap Pages!Of(Pages!Within(k))
  BY <1>2 DEF PagesFields
<1>4. PagesCall(q, months')  BY <1>1, <1>3 DEF PagesCall, Pages!Within
<1> QED  BY <1>1, <1>4, PagesPuts

LEMMA PagesUses == ASSUME PagesSafe, Pages!Use(1) PROVE PagesSafe'
<1> PICK k : k = lookup[1]  OBVIOUS
<1> PICK q : q = [k EXCEPT !.at = "page", !.read = {}]  OBVIOUS
<1> PICK a : a = [k EXCEPT !.at = "answered", !.got = k.read \cap Pages!Of(Pages!Asked(k)), !.read = {}]  OBVIOUS
<1>1. /\ k.at = "use" /\ months' = months
      /\ IF \A d \in Pages!Within(k) : Pages!Held(k, d) # {}
         THEN Pages!Put(1, a) ELSE Pages!Put(1, q)
  BY DEF Pages!Use
<1>2. k = [x \in PagesFields |-> k[x]] /\ k.read = months \cap Pages!Of(k.first..k.last)
  BY <1>1 DEF PagesSafe, PagesCall, Pages!Idle
<1>3. PagesFree(a)  BY <1>2 DEF PagesFields, PagesFree
<1>4. q = [x \in PagesFields |-> q[x]] /\ q.at = "page" /\ q.first = k.first /\ q.last = k.last
  BY <1>2 DEF PagesFields
<1>5. ASSUME NEW d \in Pages!Within(k), Pages!Held(k, d) = {} PROVE PagesCall(q, months')
  <2>1. d \in k.first..k.last  BY <1>5 DEF Pages!Within
  <2>2. <<d, "day">> \in Pages!Of(k.first..k.last) /\ <<d, "day">> \in Pages!Of({d})  BY <2>1 DEF Pages!Of
  <2>3. <<d, "day">> \notin months  BY <1>2, <1>5, <2>2 DEF Pages!Held
  <2> QED  BY <1>1, <1>4, <2>2, <2>3 DEF PagesCall
<1>6. CASE Pages!Put(1, a)  BY <1>3, <1>6, PagesGoes
<1>7. CASE Pages!Put(1, q) /\ \E d \in Pages!Within(k) : Pages!Held(k, d) = {}
  BY <1>5, <1>7, PagesPuts
<1> QED  BY <1>1, <1>6, <1>7

LEMMA PagesFetches == ASSUME PagesSafe, Pages!Page(1) PROVE PagesSafe'
<1> PICK k : k = lookup[1]  OBVIOUS
<1> PICK q : q = [k EXCEPT !.at = "filter", !.due = posted, !.write = Pages!Of(0..posted)]  OBVIOUS
<1> PICK f : f = [k EXCEPT !.at = "failed"]  OBVIOUS
<1>1. /\ k.at = "page" /\ months' = months
      /\ Pages!Put(1, q) \/ Pages!Put(1, f)
  BY DEF Pages!Page
<1>2. k = [x \in PagesFields |-> k[x]]  BY <1>1 DEF PagesSafe, PagesCall, Pages!Idle
<1>3. PagesFree(q) /\ PagesFree(f)  BY <1>2 DEF PagesFields, PagesFree
<1>4. CASE Pages!Put(1, q)  BY <1>3, <1>4, PagesGoes
<1>5. CASE Pages!Put(1, f)  BY <1>3, <1>5, PagesGoes
<1> QED  BY <1>1, <1>4, <1>5

LEMMA PagesFilters == ASSUME PagesSafe, Pages!Filter(1) PROVE PagesSafe'
<1> PICK k : k = lookup[1]  OBVIOUS
<1> PICK w : w = IF months \cap Pages!Of((today - 1)..today) # {} THEN {h \in k.write : h[1] >= today - 1} ELSE k.write
  OBVIOUS
<1> PICK q : q = [k EXCEPT !.at = "write", !.write = w]  OBVIOUS
<1> PICK f : f = [k EXCEPT !.at = "write"]  OBVIOUS
<1>1. k.at = "filter" /\ (Pages!Put(1, q) \/ Pages!Put(1, f))
  BY DEF Pages!Filter
<1>2. k = [x \in PagesFields |-> k[x]]  BY <1>1 DEF PagesSafe, PagesCall, Pages!Idle
<1>3. PagesFree(q) /\ PagesFree(f)  BY <1>2 DEF PagesFields, PagesFree
<1>4. CASE Pages!Put(1, q)  BY <1>3, <1>4, PagesGoes
<1>5. CASE Pages!Put(1, f)  BY <1>3, <1>5, PagesGoes
<1> QED  BY <1>1, <1>4, <1>5

LEMMA PagesWrites == ASSUME PagesSafe, Pages!Write(1) PROVE PagesSafe'
<1> PICK k : k = lookup[1]  OBVIOUS
<1> PICK e : e = [k EXCEPT !.at = "collect", !.write = {}]  OBVIOUS
<1>1. k.at = "write" /\ ((\E w : Pages!Put(1, [k EXCEPT !.write = w])) \/ Pages!Land(1))
  BY DEF Pages!Write
<1>2. k = [x \in PagesFields |-> k[x]]  BY <1>1 DEF PagesSafe, PagesCall, Pages!Idle
<1>3. ASSUME NEW w, Pages!Put(1, [k EXCEPT !.write = w]) PROVE PagesSafe'
  <2> PICK q : q = [k EXCEPT !.write = w]  OBVIOUS
  <2>1. PagesFree(q)  BY <1>1, <1>2 DEF PagesFields, PagesFree
  <2>2. Pages!Put(1, q)  BY <1>3
  <2> QED  BY <2>1, <2>2, PagesGoes
<1>4. CASE Pages!Land(1)
  <2>1. Pages!Put(1, e)  BY <1>4 DEF Pages!Land, Pages!Put, PagesSafe
  <2>2. PagesFree(e)  BY <1>2 DEF PagesFields, PagesFree
  <2> QED  BY <2>1, <2>2, PagesGoes
<1> QED  BY <1>1, <1>3, <1>4

LEMMA PagesEnds == ASSUME PagesSafe, Pages!Collect(1) \/ Pages!Done(1) PROVE PagesSafe'
<1> PICK k : k = lookup[1]  OBVIOUS
<1>1. CASE Pages!Collect(1)
  <2> PICK q : q = [k EXCEPT !.at = "answered", !.got = Pages!Cached(Pages!Asked(k))]  OBVIOUS
  <2>1. k.at = "collect" /\ Pages!Put(1, q)  BY <1>1 DEF Pages!Collect
  <2>2. k = [x \in PagesFields |-> k[x]]  BY <2>1 DEF PagesSafe, PagesCall, Pages!Idle
  <2>3. PagesFree(q)  BY <2>2 DEF PagesFields, PagesFree
  <2> QED  BY <2>1, <2>3, PagesGoes
<1>2. CASE Pages!Done(1)
  <2>1. k.at # "page" /\ Pages!Put(1, Pages!Idle)  BY <1>2 DEF Pages!Done
  <2>2. PagesCall(Pages!Idle, months')  BY DEF PagesCall
  <2> QED  BY <2>1, <2>2, PagesPuts
<1> QED  BY <1>1, <1>2

LEMMA PagesFirst == ASSUME Pages!Init PROVE PagesSafe
<1>1. lookup = [c \in {1} |-> Pages!Idle]  BY DEF Pages!Init
<1> QED  BY <1>1 DEF PagesSafe, PagesCall

LEMMA PagesNext == PagesSafe /\ [Pages!Next]_vpp => PagesSafe' /\ Pages!Unstored
<1> SUFFICES ASSUME PagesSafe, [Pages!Next]_vpp PROVE PagesSafe' /\ Pages!Unstored  OBVIOUS
<1>1. Pages!Unstored
  <2> PICK k : k = lookup[1]  OBVIOUS
  <2>1. k.at = "page" => ~(Pages!Of(k.first..k.last) \subseteq months)  BY DEF PagesSafe, PagesCall, Pages!Idle
  <2> QED  BY <2>1 DEF Pages!Unstored, Pages!Within
<1>2. CASE Pages!Post \/ Pages!Midnight \/ UNCHANGED vpp
  <2>1. lookup' = lookup /\ months' = months  BY <1>2 DEF Pages!Post, Pages!Midnight, vpp
  <2> PICK k : k = lookup[1]  OBVIOUS
  <2>2. Pages!Put(1, k) /\ PagesCall(k, months')  BY <2>1 DEF PagesSafe, Pages!Put
  <2> QED  BY <1>1, <2>2, PagesPuts
<1>3. CASE Pages!Restart
  <2>1. lookup' = [c \in {1} |-> Pages!Idle]  BY <1>3 DEF Pages!Restart
  <2>2. Pages!Put(1, Pages!Idle)  BY <2>1 DEF PagesSafe, Pages!Put
  <2>3. PagesCall(Pages!Idle, months')  BY DEF PagesCall
  <2> QED  BY <1>1, <2>2, <2>3, PagesPuts
<1>4. CASE Pages!AskCurrent(1) \/ Pages!AskFuture(1) \/ Pages!AskConfirmed(1)
  <2>1. \E f, l, m : Pages!Ask(1, f, l, m)  BY <1>4 DEF Pages!AskCurrent, Pages!AskFuture, Pages!AskConfirmed
  <2> QED  BY <1>1, <2>1, PagesAsks
<1>5. CASE Pages!Read(1) \/ Pages!Use(1) \/ Pages!Page(1)  BY <1>1, <1>5, PagesReads, PagesUses, PagesFetches
<1>6. CASE Pages!Filter(1) \/ Pages!Write(1) \/ Pages!Collect(1) \/ Pages!Done(1)
  BY <1>1, <1>6, PagesFilters, PagesWrites, PagesEnds
<1>7. ~Pages!Join(1)  BY DEF Pages!Join, Pages!Fetching
<1> QED  BY <1>2, <1>3, <1>4, <1>5, <1>6, <1>7 DEF Pages!Next

-----------------------------------------------------------------------------
(* A lookup of Agile prices fails only when memory has nothing of its hours,  *)
(* whatever else upstream denies it; the page of the VPP rates fails no       *)
(* lookup the database could answer whole; and flags are read when due.       *)
StepsSafe ==
    /\ part = "down" => DownSafe
    /\ part = "served" => ServedSafe
    /\ part = "pages" => PagesSafe
    /\ FlagCacheInv
LEMMA PartsStep ==
    ASSUME [PartsNext]_vars
    PROVE  /\ part' = part
           /\ part = "down" => [Down!Next]_agile
           /\ part = "served" => [Served!Next]_agile
           /\ part = "pages" => [Pages!Next]_vpp
BY DEF PartsNext, vars, ForAgile, ForVpp, ForFlags, ForRules, ForLimits

THEOREM CacheStepsHold == PartsSpec => CacheSteps
<1>1. PartsInit => StepsSafe
  BY PartsAssumption, DownFirst, ServedFirst, PagesFirst, FlagCacheInit DEF PartsInit, StepsSafe
<1>2. ASSUME StepsSafe, [PartsNext]_vars
      PROVE  /\ StepsSafe'
             /\ [(part = "down" => Down!EmptyHanded) /\ (part = "served" => Served!EmptyHanded)]_vars
             /\ [part = "pages" => Pages!Unstored]_vars
             /\ [Flags!ReadIsDue]_(Flags!vars)
  <2>1. FlagCacheInv' /\ [Flags!ReadIsDue]_(Flags!vars)
    BY <1>2, PartsAssumption, FlagCacheNext, FlagSteps, ReadIsDueStep DEF StepsSafe
  <2>2. part = "down" => DownSafe' /\ Down!EmptyHanded  BY <1>2, PartsStep, DownNext, DownFails DEF StepsSafe
  <2>3. part = "served" => ServedSafe' /\ Served!EmptyHanded  BY <1>2, PartsStep, ServedNext DEF StepsSafe
  <2>4. part = "pages" => PagesSafe' /\ Pages!Unstored  BY <1>2, PartsStep, PagesNext DEF StepsSafe
  <2> QED  BY <1>2, PartsStep, <2>1, <2>2, <2>3, <2>4 DEF StepsSafe
<1>3. PartsSpec => FailsEmptyHanded  BY <1>1, <1>2, PTL DEF PartsSpec, FailsEmptyHanded
<1>4. PartsSpec => StoredSparesThePage  BY <1>1, <1>2, PTL DEF PartsSpec, StoredSparesThePage
<1>5. PartsSpec => OneReadPerMark  BY <1>1, <1>2, PTL DEF PartsSpec, OneReadPerMark, Flags!OneReadPerMark
<1> QED  BY <1>3, <1>4, <1>5, PTL DEF CacheSteps
=============================================================================
