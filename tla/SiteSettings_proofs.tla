------------------------ MODULE SiteSettings_proofs ------------------------
(***************************************************************************)
(* Proofs about the settings document, for any number of requests, users,   *)
(* preferences, failures and writes; and of its part "alone" in MCSettings. *)
(***************************************************************************)
EXTENDS MCSettings, TLAPS

USE KindsAssumption, ConfigsAssumption, UsersAssumption, PrefsAssumption,
    StartsAssumption, FaultsAssumption, BoundsAssumption

-----------------------------------------------------------------------------
(* What the guards rely on getESSBackoff for.                               *)

(* The wait is a natural number of seconds for every count of failures.     *)
LEMMA BackoffType == \A n \in Nat : getESSBackoff(n) \in Nat
  BY SMT DEF getESSBackoff, ShiftedSeconds, Minute, Hour, Day

(* getESSBackoff never shortens as failures grow: the doubling, its cap at  *)
(* fifteen minutes and the steps that follow meet in order.                 *)
THEOREM BackoffMonotone ==
    \A m, n \in Nat : m <= n => getESSBackoff(m) <= getESSBackoff(n)
  BY SMT DEF getESSBackoff, ShiftedSeconds, Minute, Hour, Day

-----------------------------------------------------------------------------
(* Types of what the actions are built from.                                *)

LEMMA MissingType == Missing \in Docs
  BY DEF Missing, Docs, ConfigSet, NoConfig, NoNotifications, Utilities

LEMMA NoAskType == NoAsk \in Asks
  <1>1. \E u \in Users : TRUE
    OBVIOUS
  <1>2. (CHOOSE u \in Users : TRUE) \in Users
    BY <1>1
  <1> QED
    BY <1>2 DEF NoAsk, Asks, NoConfig, ConfigSet, Utilities, Links

LEMMA IdleType == Idle \in ReqStates
  BY NoAskType DEF Idle, ReqStates, Places, AllKinds

LEMMA VersionType ==
  ASSUME NEW s \in Docs, NEW v \in Nat
  PROVE  [s EXCEPT !.ver = v] \in Docs
  BY DEF Docs

LEMMA MigratedType ==
  ASSUME NEW s \in Docs
  PROVE  Migrated(s) \in Docs
  <1>1. Grouped(s) \in Docs
    BY DEF Grouped, Docs, ConfigSet
  <1>2. [s EXCEPT !.group = "none"] \in Docs
    BY DEF Docs, Utilities
  <1> DEFINE t == IF Eligible(s) THEN Grouped(s) ELSE [s EXCEPT !.group = "none"]
  <1>3. t \in Docs
    BY <1>1, <1>2
  <1> HIDE DEF t
  <1>4. [t EXCEPT !.current = TRUE] \in Docs
    BY <1>3 DEF Docs
  <1> QED
    BY <1>4 DEF Migrated, t

LEMMA FailedType ==
  ASSUME NEW s \in Docs, now \in Nat
  PROVE  Failed(s) \in Docs
  <1> DEFINE t == [s EXCEPT !.fails = @ + 1]
  <1>1. t \in Docs
    BY DEF Docs
  <1> HIDE DEF t
  <1>2. [t EXCEPT !.last = now] \in Docs
    BY <1>1 DEF Docs
  <1> QED
    BY <1>2 DEF Failed, t

LEMMA ClearedType ==
  ASSUME NEW s \in Docs, now \in Nat
  PROVE  Cleared(s) \in Docs
  BY DEF Cleared, Docs

LEMMA FinishType ==
  ASSUME TypeOK, NEW a \in Reqs, Finish(a)
  PROVE  req' \in [Reqs -> ReqStates] /\ sv' \in [Reqs -> Docs]
  BY MissingType, IdleType DEF Finish, TypeOK

LEMMA GotoType ==
  ASSUME TypeOK, NEW a \in Reqs, NEW place \in Places, Goto(a, place)
  PROVE  req' \in [Reqs -> ReqStates]
  BY DEF Goto, TypeOK, ReqStates

LEMMA CommitType ==
  ASSUME TypeOK, NEW a \in Reqs, NEW s \in Docs, NEW ver, Commit(a, s, ver)
  PROVE  doc' \in Docs /\ commits' \in Nat /\ blind' \in BOOLEAN
  <1>1. commits' \in Nat
    BY DEF Commit, TypeOK
  <1>2. doc' \in Docs
    BY <1>1, VersionType DEF Commit
  <1>3. blind' \in BOOLEAN
    BY DEF Commit
  <1> QED
    BY <1>1, <1>2, <1>3

LEMMA SetSettingsType ==
  ASSUME TypeOK, NEW a \in Reqs, NEW s \in Docs, NEW ver,
         NEW confirmed \in BOOLEAN, SetSettings(a, s, ver, confirmed)
  PROVE  /\ doc' \in Docs /\ commits' \in Nat /\ blind' \in BOOLEAN
         /\ listed' \in BOOLEAN
         /\ Kept(a, s, confirmed) \in Docs
  <1>1. CASE Apply(a, s, ver)
    <2>1. doc' \in Docs /\ commits' \in Nat /\ blind' \in BOOLEAN
      BY <1>1, CommitType DEF Apply
    <2>2. listed' \in BOOLEAN
      BY <1>1 DEF Apply
    <2>3. [s EXCEPT !.ver = sv[a].ver] \in Docs
      BY VersionType DEF TypeOK, Docs
    <2> QED
      BY <2>1, <2>2, <2>3 DEF Kept
  <1>2. CASE ~confirmed /\ Refuse(ver)
    <2>1. [s EXCEPT !.ver = sv[a].ver] \in Docs
      BY VersionType DEF TypeOK, Docs
    <2> QED
      BY <1>2, <2>1 DEF Refuse, store, Kept, TypeOK
  <1> QED
    BY <1>1, <1>2 DEF SetSettings

LEMMA WriteAndFinishType ==
  ASSUME TypeOK, NEW a \in Reqs, NEW s \in Docs, WriteAndFinish(a, s)
  PROVE  /\ doc' \in Docs /\ commits' \in Nat /\ blind' \in BOOLEAN
         /\ listed' \in BOOLEAN
         /\ req' \in [Reqs -> ReqStates] /\ sv' \in [Reqs -> Docs]
  <1>1. PICK confirmed \in BOOLEAN : SetSettings(a, s, sv[a].ver, confirmed)
    BY DEF WriteAndFinish
  <1>2. Finish(a)
    BY DEF WriteAndFinish
  <1> QED
    BY <1>1, <1>2, SetSettingsType, FinishType

LEMMA AfterGrantType ==
  ASSUME TypeOK, NEW a \in Reqs
  PROVE  AfterGrant(a) \in Docs
  <1> DEFINE s == IF sv[a].fails > 0
                  THEN [sv[a] EXCEPT !.fails = 0, !.last = now]
                  ELSE sv[a]
  <1>1. sv[a] \in Docs /\ now \in Nat /\ req[a].cred \in Nat
    BY DEF TypeOK, ReqStates
  <1>2. s \in Docs
    BY <1>1 DEF Docs
  <1> HIDE DEF s
  <1>3. [s EXCEPT !.tok = req[a].cred, !.setFails = 0] \in Docs
    BY <1>1, <1>2 DEF Docs
  <1> QED
    BY <1>2, <1>3 DEF AfterGrant, s

LEMMA NewSettingsType ==
  ASSUME TypeOK, NEW a \in Reqs
  PROVE  NewSettings(a) \in Docs
  <1> DEFINE c == Cleared(sv[a])
             v == [c EXCEPT !.tok = req[a].cred]
             b == IF req[a].at = "granted" THEN v ELSE sv[a]
             s == [b EXCEPT !.cfg = req[a].ask.cfg]
  <1>1. sv[a] \in Docs /\ now \in Nat /\ req[a].cred \in Nat /\ req[a].ask.cfg \in ConfigSet
    BY DEF TypeOK, ReqStates, Asks
  <1>2. c \in Docs
    BY <1>1, ClearedType
  <1> HIDE DEF c
  <1>3. v \in Docs
    BY <1>1, <1>2 DEF Docs
  <1> HIDE DEF v
  <1>4. b \in Docs
    BY <1>1, <1>3
  <1> HIDE DEF b
  <1>5. s \in Docs
    BY <1>1, <1>4 DEF Docs
  <1> HIDE DEF s
  <1>6. Grouped(s) \in Docs
    BY <1>5 DEF Grouped, Docs, ConfigSet
  <1> QED
    BY <1>5, <1>6 DEF NewSettings, s, b, v, c

LEMMA ReadType ==
  ASSUME TypeOK, NEW a \in Reqs, NEW kind \in AllKinds, NEW ask \in Asks,
         NEW place \in Places, Read(a, kind, ask, place)
  PROVE  TypeOK'
  <1> DEFINE r == [at |-> place, kind |-> kind, cred |-> doc.tok, ask |-> ask,
                   began |-> IF kind = "stage" THEN now ELSE 0, tries |-> 1]
  <1>1. r \in ReqStates
    BY DEF ReqStates, TypeOK, Docs
  <1> HIDE DEF r
  <1>2. req' \in [Reqs -> ReqStates]
    BY <1>1 DEF Read, TypeOK, r
  <1>3. sv' \in [Reqs -> Docs]
    BY DEF Read, TypeOK
  <1> QED
    BY <1>2, <1>3 DEF Read, TypeOK, store, vendor

LEMMA EntryType == \A kind : Entry(kind) \in Places
  BY DEF Entry, Places

(* The actions that only move a request or end it.                          *)
LEMMA FrameType ==
  ASSUME TypeOK, UNCHANGED <<store, vendor, ending, now, wanted>>,
         req' \in [Reqs -> ReqStates], sv' \in [Reqs -> Docs]
  PROVE  TypeOK'
  BY DEF TypeOK, store, vendor, ending

(* Those that also note something of a deletion.                            *)
LEMMA NotedType ==
  ASSUME TypeOK, UNCHANGED <<store, vendor, now, wanted>>,
         deleted' \in BOOLEAN, stopped' \in BOOLEAN, raced' \in BOOLEAN,
         req' \in [Reqs -> ReqStates], sv' \in [Reqs -> Docs]
  PROVE  TypeOK'
  BY DEF TypeOK, store, vendor

LEMMA EndsType ==
  ASSUME TypeOK, NEW a \in Reqs, Ends(a)
  PROVE  Finish(a) /\ stopped' \in BOOLEAN
  BY DEF Ends, TypeOK

(* The actions that write the document and touch nothing outside it.        *)
LEMMA WriterType ==
  ASSUME TypeOK, UNCHANGED <<vendor, ending, now>>,
         doc' \in Docs, commits' \in Nat, blind' \in BOOLEAN, listed' \in BOOLEAN,
         req' \in [Reqs -> ReqStates], sv' \in [Reqs -> Docs],
         wanted' \in [cfg : ConfigSet, notif : [Users -> Prefs]]
  PROVE  TypeOK'
  BY DEF TypeOK, vendor, ending

LEMMA BeginType ==
  ASSUME TypeOK, NEW a \in Reqs, Begin(a)
  PROVE  TypeOK'
  <1>1. \A kind \in AllKinds, ask \in Asks :
          ReadMigrating(a, kind, ask) => TypeOK'
    BY ReadType, EntryType DEF ReadMigrating, Places
  <1>2. CASE BeginSweep(a)
    BY <1>1, <1>2, NoAskType DEF BeginSweep, AllKinds
  <1>3. CASE BeginManual(a)
    BY <1>1, <1>3, NoAskType DEF BeginManual, AllKinds
  <1>4. CASE BeginSave(a)
    <2>1. PICK cfg \in Configs, link \in Links :
            ReadMigrating(a, "save", [NoAsk EXCEPT !.cfg = cfg, !.link = link])
      BY <1>4 DEF BeginSave
    <2>2. [NoAsk EXCEPT !.cfg = cfg, !.link = link] \in Asks
      BY NoAskType DEF Asks
    <2> QED
      BY <1>1, <2>1, <2>2 DEF AllKinds
  <1>5. CASE BeginStage(a)
    BY <1>1, <1>5, NoAskType DEF BeginStage, AllKinds
  <1>6. CASE BeginRead(a)
    BY <1>6, ReadType, NoAskType DEF BeginRead, AllKinds, Places
  <1>7. CASE BeginPrefs(a)
    <2>1. PICK user \in Users, pref \in Prefs :
            Read(a, "prefs", [NoAsk EXCEPT !.user = user, !.pref = pref], "prefs")
      BY <1>7 DEF BeginPrefs
    <2>2. [NoAsk EXCEPT !.user = user, !.pref = pref] \in Asks
      BY NoAskType DEF Asks
    <2> QED
      BY <2>1, <2>2, ReadType DEF AllKinds, Places
  <1>8. CASE BeginDelete(a)
    BY <1>8, ReadType, NoAskType DEF BeginDelete, AllKinds, Places
  <1> QED
    BY <1>2, <1>3, <1>4, <1>5, <1>6, <1>7, <1>8 DEF Begin

LEMMA MigrateType ==
  ASSUME TypeOK, NEW a \in Reqs, Migrate(a)
  PROVE  TypeOK'
  <1> DEFINE s == Migrated(sv[a])
  <1>1. s \in Docs
    BY MigratedType DEF TypeOK
  <1> HIDE DEF s
  <1>2. PICK confirmed \in BOOLEAN :
          /\ SetSettings(a, s, sv[a].ver, confirmed)
          /\ IF req[a].kind = "read"
             THEN Finish(a)
             ELSE /\ sv' = [sv EXCEPT ![a] = Kept(a, s, confirmed)]
                  /\ Goto(a, Entry(req[a].kind))
    BY DEF Migrate, s
  <1>3. /\ doc' \in Docs /\ commits' \in Nat /\ blind' \in BOOLEAN
        /\ listed' \in BOOLEAN /\ Kept(a, s, confirmed) \in Docs
    BY <1>1, <1>2, SetSettingsType
  <1>4. req' \in [Reqs -> ReqStates] /\ sv' \in [Reqs -> Docs]
    <2>1. CASE req[a].kind = "read"
      BY <1>2, <2>1, FinishType
    <2>2. CASE req[a].kind # "read"
      <3>1. sv' \in [Reqs -> Docs]
        BY <1>2, <1>3, <2>2 DEF TypeOK
      <3>2. Goto(a, Entry(req[a].kind))
        BY <1>2, <2>2
      <3> QED
        BY <3>1, <3>2, GotoType, EntryType
    <2> QED
      BY <2>1, <2>2
  <1> QED
    BY <1>3, <1>4, WriterType DEF Migrate, TypeOK

LEMMA StartType ==
  ASSUME TypeOK, NEW a \in Reqs,
         StartUpdate(a) \/ SkipUpdate(a) \/ StartSave(a) \/ RejectSave(a)
  PROVE  TypeOK'
  <1> DEFINE auth == req' = [req EXCEPT ![a].at = "auth", ![a].began = now]
  <1>1. auth => req' \in [Reqs -> ReqStates]
    <2> SUFFICES ASSUME auth PROVE req' \in [Reqs -> ReqStates]
      OBVIOUS
    <2> DEFINE r == [req[a] EXCEPT !.at = "auth", !.began = now]
    <2>0. req[a] \in ReqStates /\ now \in Nat
      BY DEF TypeOK
    <2>1. r \in ReqStates
      BY <2>0 DEF ReqStates, Places
    <2>2. req' = [req EXCEPT ![a] = r]
      BY DEF TypeOK
    <2> HIDE DEF r
    <2> QED
      BY <2>1, <2>2 DEF TypeOK
  <1>2. CASE StartUpdate(a)
    BY <1>1, <1>2, FrameType DEF StartUpdate, TypeOK
  <1>3. CASE SkipUpdate(a)
    BY <1>3, FrameType, FinishType DEF SkipUpdate
  <1>4. CASE StartSave(a)
    <2>1. req' \in [Reqs -> ReqStates]
      <3>1. "write" \in Places
        BY DEF Places
      <3> QED
        BY <3>1, <1>1, <1>4, GotoType DEF StartSave
    <2> QED
      BY <2>1, <1>4, FrameType DEF StartSave, TypeOK
  <1>5. CASE RejectSave(a)
    BY <1>5, FrameType, FinishType DEF RejectSave
  <1> QED
    BY <1>2, <1>3, <1>4, <1>5

LEMMA AnswerType ==
  ASSUME TypeOK, NEW a \in Reqs, NEW cred \in Nat,
         Granted(a, cred) \/ Denied(a, cred)
  PROVE  req' \in [Reqs -> ReqStates] /\ denials' \in [n : Nat, at : Nat]
  <1> DEFINE r(place) == [req[a] EXCEPT !.at = place, !.cred = cred]
  <1>1. \A place \in Places : r(place) \in ReqStates
    <2> DEFINE q == req[a]
    <2>1. q \in ReqStates
      BY DEF TypeOK
    <2> HIDE DEF q
    <2>2. \A place \in Places : [q EXCEPT !.at = place] \in ReqStates
      BY <2>1 DEF ReqStates
    <2>3. \A p \in ReqStates : [p EXCEPT !.cred = cred] \in ReqStates
      BY DEF ReqStates
    <2> SUFFICES ASSUME NEW place \in Places PROVE r(place) \in ReqStates
      OBVIOUS
    <2> DEFINE moved == [q EXCEPT !.at = place]
    <2>4. moved \in ReqStates /\ r(place) = [moved EXCEPT !.cred = cred]
      BY <2>2 DEF q
    <2> HIDE DEF moved
    <2> QED
      BY <2>3, <2>4
  <1>2. \E place \in Places : req' = [req EXCEPT ![a] = r(place)]
    BY DEF Granted, Denied, Places, TypeOK
  <1> HIDE DEF r
  <1>3. req' \in [Reqs -> ReqStates]
    BY <1>1, <1>2 DEF TypeOK
  <1>4. denials' \in [n : Nat, at : Nat]
    BY DEF Granted, Denied, TypeOK
  <1> QED
    BY <1>3, <1>4

LEMMA AuthenticateType ==
  ASSUME TypeOK, NEW a \in Reqs, Authenticate(a)
  PROVE  TypeOK'
  <1>1. req[a].cred \in Nat /\ issued + 1 \in Nat
    BY DEF TypeOK, ReqStates
  <1>2. \A cred \in Nat : Granted(a, cred) \/ Denied(a, cred) =>
          req' \in [Reqs -> ReqStates] /\ denials' \in [n : Nat, at : Nat]
    BY AnswerType
  <1>3. req' \in [Reqs -> ReqStates] /\ denials' \in [n : Nat, at : Nat]
    BY <1>1, <1>2 DEF Authenticate, Refresh, UseAccessToken, RejectStored,
       ExchangeCode, RejectCode, AuthenticateStage, Verify
  <1>4. live' \subseteq Nat /\ aging' \subseteq Nat /\ issued' \in Nat
    BY <1>1 DEF TypeOK, Authenticate, Refresh, UseAccessToken, RejectStored,
       ExchangeCode, RejectCode, AuthenticateStage
  <1>5. UNCHANGED <<store, ending, now, sv, wanted>>
    BY DEF Authenticate, Refresh, UseAccessToken, RejectStored,
       ExchangeCode, RejectCode, AuthenticateStage
  <1> QED
    BY <1>3, <1>4, <1>5 DEF TypeOK, store, ending

LEMMA RecordType ==
  ASSUME TypeOK, NEW a \in Reqs,
         RecordGrant(a) \/ RecordDenial(a) \/ StageDenial(a) \/ StageGrant(a)
  PROVE  TypeOK'
  <1>1. sv[a] \in Docs /\ now \in Nat
    BY DEF TypeOK
  <1>2. CASE RecordGrant(a)
    <2>1. req' \in [Reqs -> ReqStates]
      BY <1>2, GotoType DEF RecordGrant, Places
    <2>2. CASE AfterGrant(a) = sv[a]
      BY <1>2, <2>1, <2>2, FrameType DEF RecordGrant, TypeOK
    <2>3. CASE AfterGrant(a) # sv[a]
      <3>1. PICK confirmed \in BOOLEAN :
              /\ SetSettings(a, AfterGrant(a), sv[a].ver, confirmed)
              /\ sv' = [sv EXCEPT ![a] = Kept(a, AfterGrant(a), confirmed)]
        BY <1>2, <2>3 DEF RecordGrant
      <3>2. /\ doc' \in Docs /\ commits' \in Nat /\ blind' \in BOOLEAN
            /\ listed' \in BOOLEAN /\ Kept(a, AfterGrant(a), confirmed) \in Docs
        BY <3>1, AfterGrantType, SetSettingsType
      <3>3. sv' \in [Reqs -> Docs]
        BY <3>1, <3>2 DEF TypeOK
      <3> QED
        BY <1>2, <2>1, <3>2, <3>3, WriterType DEF RecordGrant, TypeOK
    <2> QED
      BY <2>2, <2>3
  <1>3. CASE RecordDenial(a)
    BY <1>1, <1>3, FailedType, WriteAndFinishType, WriterType DEF RecordDenial, TypeOK
  <1>4. CASE StageDenial(a)
    BY <1>1, <1>4, FailedType, WriteAndFinishType, WriterType DEF StageDenial, TypeOK
  <1>5. CASE StageGrant(a)
    <2>1. CASE UNCHANGED store /\ Finish(a)
      BY <1>5, <2>1, FrameType, FinishType DEF StageGrant
    <2>2. CASE WriteAndFinish(a, Cleared(sv[a]))
      BY <1>1, <1>5, <2>2, ClearedType, WriteAndFinishType, WriterType
         DEF StageGrant, TypeOK
    <2> QED
      BY <1>5, <2>1, <2>2 DEF StageGrant
  <1> QED
    BY <1>2, <1>3, <1>4, <1>5

LEMMA ModesType ==
  ASSUME TypeOK, NEW a \in Reqs,
         ModesUnauthorized(a) \/ ModesRestored(a) \/ LeaveModes(a)
  PROVE  TypeOK'
  <1>1. sv[a] \in Docs /\ now \in Nat
    BY DEF TypeOK
  <1>2. CASE ModesUnauthorized(a)
    <2> DEFINE t == [sv[a] EXCEPT !.setFails = @ + 1]
    <2>1. t \in Docs
      BY <1>1 DEF Docs
    <2> DEFINE s == [t EXCEPT !.last = now]
    <2> HIDE DEF t
    <2>2. s \in Docs
      BY <1>1, <2>1 DEF Docs
    <2>3. WriteAndFinish(a, s)
      BY <1>2 DEF ModesUnauthorized, s, t
    <2> HIDE DEF s
    <2> QED
      BY <1>2, <2>2, <2>3, WriteAndFinishType, WriterType DEF ModesUnauthorized, TypeOK
  <1>3. CASE ModesRestored(a)
    <2> DEFINE s == [sv[a] EXCEPT !.setFails = 0, !.last = now]
    <2>1. s \in Docs
      BY <1>1 DEF Docs
    <2>2. WriteAndFinish(a, s)
      BY <1>3 DEF ModesRestored
    <2> HIDE DEF s
    <2> QED
      BY <1>3, <2>1, <2>2, WriteAndFinishType, WriterType DEF ModesRestored, TypeOK
  <1>4. CASE LeaveModes(a)
    BY <1>4, FrameType, FinishType DEF LeaveModes
  <1> QED
    BY <1>2, <1>3, <1>4

LEMMA WantedType ==
  ASSUME TypeOK, NEW a \in Reqs
  PROVE  /\ [wanted EXCEPT !.cfg = req[a].ask.cfg]
              \in [cfg : ConfigSet, notif : [Users -> Prefs]]
         /\ [wanted EXCEPT !.notif[req[a].ask.user] = req[a].ask.pref]
              \in [cfg : ConfigSet, notif : [Users -> Prefs]]
  <1>1. /\ req[a].ask.cfg \in ConfigSet
        /\ req[a].ask.user \in Users /\ req[a].ask.pref \in Prefs
    BY DEF TypeOK, ReqStates, Asks
  <1>2. wanted \in [cfg : ConfigSet, notif : [Users -> Prefs]]
    BY DEF TypeOK
  <1> QED
    BY <1>1, <1>2

LEMMA SaveType ==
  ASSUME TypeOK, NEW a \in Reqs, SaveDenial(a) \/ SaveWrite(a)
  PROVE  TypeOK'
  <1>1. CASE SaveDenial(a)
    <2>1. Failed(sv[a]) \in Docs
      BY FailedType DEF TypeOK
    <2>2. PICK confirmed \in BOOLEAN : SetSettings(a, Failed(sv[a]), 0, confirmed)
      BY <1>1 DEF SaveDenial
    <2>3. /\ doc' \in Docs /\ commits' \in Nat /\ blind' \in BOOLEAN
          /\ listed' \in BOOLEAN
      BY <2>1, <2>2, SetSettingsType
    <2> QED
      BY <1>1, <2>3, FinishType, WriterType DEF SaveDenial, TypeOK
  <1>2. CASE SaveWrite(a)
    <2> DEFINE r == [req[a] EXCEPT !.at = "guard", !.kind = "revert", !.ask = NoAsk]
    <2>1. PICK confirmed \in BOOLEAN :
            /\ SetSettings(a, NewSettings(a), 0, confirmed)
            /\ IF confirmed /\ Reverts(a)
               THEN req' = [req EXCEPT ![a] = r] /\ sv' = [sv EXCEPT ![a] = doc']
               ELSE Finish(a)
      BY <1>2 DEF SaveWrite
    <2>2. req[a] \in ReqStates
      BY DEF TypeOK
    <2>3. r \in ReqStates
      BY <2>2, NoAskType DEF ReqStates, Places
    <2> HIDE DEF r
    <2>4. /\ doc' \in Docs /\ commits' \in Nat /\ blind' \in BOOLEAN
          /\ listed' \in BOOLEAN
      BY <2>1, NewSettingsType, SetSettingsType
    <2>5. req' \in [Reqs -> ReqStates] /\ sv' \in [Reqs -> Docs]
      <3>1. CASE confirmed /\ Reverts(a)
        BY <2>1, <2>3, <2>4, <3>1 DEF TypeOK
      <3>2. CASE ~(confirmed /\ Reverts(a))
        BY <2>1, <3>2, FinishType
      <3> QED
        BY <3>1, <3>2
    <2>6. wanted' \in [cfg : ConfigSet, notif : [Users -> Prefs]]
      <3>1. wanted \in [cfg : ConfigSet, notif : [Users -> Prefs]]
        BY DEF TypeOK
      <3>2. wanted' = wanted \/ wanted' = [wanted EXCEPT !.cfg = req[a].ask.cfg]
        BY <1>2 DEF SaveWrite
      <3> QED
        BY <3>1, <3>2, WantedType
    <2>7. UNCHANGED <<vendor, ending, now>>
      BY <1>2 DEF SaveWrite
    <2> QED
      BY <2>4, <2>5, <2>6, <2>7, WriterType
  <1> QED
    BY <1>1, <1>2

LEMMA PrefsDocType ==
  ASSUME TypeOK, NEW a \in Reqs
  PROVE  [sv[a] EXCEPT !.notif[req[a].ask.user] = req[a].ask.pref] \in Docs
  <1>1. req[a].ask.user \in Users /\ req[a].ask.pref \in Prefs
    BY DEF TypeOK, ReqStates, Asks
  <1>2. sv[a] \in Docs
    BY DEF TypeOK
  <1>3. [sv[a].notif EXCEPT ![req[a].ask.user] = req[a].ask.pref] \in [Users -> Prefs]
    BY <1>1, <1>2 DEF Docs
  <1> QED
    BY <1>2, <1>3 DEF Docs

LEMMA PrefsType ==
  ASSUME TypeOK, NEW a \in Reqs, WritePrefs(a) \/ ReadAgain(a)
  PROVE  TypeOK'
  <1>1. CASE WritePrefs(a)
    <2> DEFINE s == [sv[a] EXCEPT !.notif[req[a].ask.user] = req[a].ask.pref]
               r == [req[a] EXCEPT !.at = "again", !.tries = @ + 1]
    <2>1. s \in Docs
      BY PrefsDocType
    <2>2. req[a] \in ReqStates /\ req \in [Reqs -> ReqStates]
      BY DEF TypeOK
    <2>3. r \in ReqStates
      <3> DEFINE t == [req[a] EXCEPT !.at = "again"]
      <3>1. t \in ReqStates
        BY <2>2 DEF ReqStates, Places
      <3>2. t.tries = req[a].tries
        BY <2>2 DEF ReqStates
      <3> HIDE DEF t
      <3>3. [t EXCEPT !.tries = @ + 1] \in ReqStates
        BY <3>1 DEF ReqStates
      <3> QED
        BY <3>3 DEF t
    <2>4. \/ Commit(a, s, sv[a].ver) /\ UNCHANGED listed
          \/ UNCHANGED store
      BY <1>1 DEF WritePrefs, Refuse
    <2>5. \/ Finish(a)
          \/ req' = [req EXCEPT ![a] = r] /\ UNCHANGED sv
      BY <1>1, <2>2 DEF WritePrefs
    <2> HIDE DEF s, r
    <2>6. /\ doc' \in Docs /\ commits' \in Nat /\ blind' \in BOOLEAN
          /\ listed' \in BOOLEAN
      <3>1. CASE Commit(a, s, sv[a].ver) /\ UNCHANGED listed
        BY <2>1, <3>1, CommitType DEF TypeOK
      <3>2. CASE UNCHANGED store
        BY <3>2 DEF store, TypeOK
      <3> QED
        BY <2>4, <3>1, <3>2
    <2>7. req' \in [Reqs -> ReqStates] /\ sv' \in [Reqs -> Docs]
      <3>1. CASE Finish(a)
        BY <3>1, FinishType
      <3>2. CASE req' = [req EXCEPT ![a] = r] /\ UNCHANGED sv
        BY <2>2, <2>3, <3>2 DEF TypeOK
      <3> QED
        BY <2>5, <3>1, <3>2
    <2>8. wanted' \in [cfg : ConfigSet, notif : [Users -> Prefs]]
      <3>1. wanted \in [cfg : ConfigSet, notif : [Users -> Prefs]]
        BY DEF TypeOK
      <3>2. \/ wanted' = wanted
            \/ wanted' = [wanted EXCEPT !.notif[req[a].ask.user] = req[a].ask.pref]
        BY <1>1 DEF WritePrefs
      <3> QED
        BY <3>1, <3>2, WantedType
    <2>9. UNCHANGED <<vendor, ending, now>>
      BY <1>1 DEF WritePrefs
    <2> QED
      BY <2>6, <2>7, <2>8, <2>9, WriterType
  <1>2. CASE ReadAgain(a)
    <2>1. \/ Finish(a)
          \/ Goto(a, "prefs") /\ sv' = [sv EXCEPT ![a] = doc]
      BY <1>2 DEF ReadAgain
    <2>2. req' \in [Reqs -> ReqStates] /\ sv' \in [Reqs -> Docs]
      <3>1. CASE Finish(a)
        BY <3>1, FinishType
      <3>2. CASE Goto(a, "prefs") /\ sv' = [sv EXCEPT ![a] = doc]
        <4>1. "prefs" \in Places
          BY DEF Places
        <4>2. sv' \in [Reqs -> Docs]
          BY <3>2 DEF TypeOK
        <4> QED
          BY <3>2, <4>1, <4>2, GotoType
      <3> QED
        BY <2>1, <3>1, <3>2
    <2> QED
      BY <1>2, <2>2, FrameType DEF ReadAgain
  <1> QED
    BY <1>1, <1>2

LEMMA DeleteType ==
  ASSUME TypeOK, NEW a \in Reqs,
         Unlist(a) \/ Purge(a) \/ DropSite(a) \/ AbandonDelete(a)
  PROVE  TypeOK'
  <1>1. CASE Unlist(a)
    <2>1. "purge" \in Places
      BY DEF Places
    <2>2. req' \in [Reqs -> ReqStates]
      BY <1>1, <2>1, GotoType DEF Unlist
    <2>3. /\ doc' \in Docs /\ commits' \in Nat /\ blind' \in BOOLEAN
          /\ listed' \in BOOLEAN
      <3>1. commits + 1 \in Nat /\ doc \in Docs
        BY DEF TypeOK
      <3>2. [doc EXCEPT !.ver = commits + 1] \in Docs
        BY <3>1, VersionType
      <3> QED
        BY <1>1, <3>1, <3>2 DEF Unlist, store, TypeOK
    <2> QED
      BY <1>1, <2>2, <2>3, WriterType DEF Unlist, TypeOK
  <1>2. CASE Purge(a)
    <2>1. "drop" \in Places
      BY DEF Places
    <2>2. req' \in [Reqs -> ReqStates]
      BY <1>2, <2>1, GotoType DEF Purge
    <2>3. doc' \in Docs
      BY <1>2, MissingType DEF Purge
    <2>4. wanted' \in [cfg : ConfigSet, notif : [Users -> Prefs]]
      BY <1>2, MissingType DEF Purge, Missing, Docs
    <2>5. denials' \in [n : Nat, at : Nat]
      BY <1>2 DEF Purge, TypeOK
    <2> QED
      BY <1>2, <2>2, <2>3, <2>4, <2>5 DEF Purge, TypeOK
  <1>3. CASE DropSite(a)
    BY <1>3, FinishType DEF DropSite, TypeOK, store, vendor
  <1>4. CASE AbandonDelete(a)
    <2>1. Finish(a) /\ stopped' \in BOOLEAN
      BY <1>4, EndsType DEF AbandonDelete
    <2> QED
      BY <1>4, <2>1, NotedType, FinishType DEF AbandonDelete, TypeOK
  <1> QED
    BY <1>1, <1>2, <1>3, <1>4

LEMMA StoredType ==
  ASSUME NEW cfg \in ConfigSet
  PROVE  /\ Stored(cfg) \in Docs
         /\ Grouped(Stored(cfg)) \in Docs
         /\ \A g \in Utilities :
              [Stored(cfg) EXCEPT !.current = FALSE, !.group = g] \in Docs
  <1>1. Stored(cfg) \in Docs
    BY MissingType DEF Stored, Docs
  <1>2. Grouped(Stored(cfg)) \in Docs
    BY <1>1 DEF Grouped, Docs, ConfigSet
  <1>3. \A g \in Utilities :
          [Stored(cfg) EXCEPT !.current = FALSE, !.group = g] \in Docs
    BY <1>1 DEF Docs
  <1> QED
    BY <1>1, <1>2, <1>3

LEMMA InitType == Init => TypeOK
  <1> SUFFICES ASSUME Init PROVE TypeOK
    OBVIOUS
  <1>1. \A cfg \in Configs : cfg \in ConfigSet
    BY DEF ConfigsAssumption
  <1>2. doc \in Docs
    <2>1. CASE doc = Missing
      BY <2>1, MissingType
    <2>2. CASE \E cfg \in Configs : doc = Grouped(Stored(cfg))
      BY <1>1, <2>2, StoredType
    <2>3. CASE \E cfg \in Configs, g \in Utilities :
                 doc = [Stored(cfg) EXCEPT !.current = FALSE, !.group = g]
      <3>1. PICK cfg \in Configs, g \in Utilities :
              doc = [Stored(cfg) EXCEPT !.current = FALSE, !.group = g]
        BY <2>3
      <3>2. cfg \in ConfigSet
        BY <1>1
      <3>3. [Stored(cfg) EXCEPT !.current = FALSE, !.group = g] \in Docs
        BY <3>2, StoredType
      <3> QED
        BY <3>1, <3>3
    <2> QED
      BY <2>1, <2>2, <2>3 DEF Init, InitialDoc
  <1>3. doc.ver \in Nat /\ doc.tok \in Nat
        /\ wanted \in [cfg : ConfigSet, notif : [Users -> Prefs]]
    BY <1>2 DEF Init, Docs
  <1>4. req \in [Reqs -> ReqStates] /\ sv \in [Reqs -> Docs]
    BY IdleType, MissingType DEF Init
  <1>5. live \subseteq Nat /\ aging \subseteq Nat /\ issued \in Nat
    BY <1>3 DEF Init
  <1>6. /\ listed \in BOOLEAN /\ blind \in BOOLEAN
        /\ deleted \in BOOLEAN /\ stopped \in BOOLEAN /\ raced \in BOOLEAN
    BY DEF Init
  <1>7. commits \in Nat /\ now \in Nat /\ denials \in [n : Nat, at : Nat]
    BY <1>3 DEF Init
  <1> QED
    BY <1>2, <1>3, <1>4, <1>5, <1>6, <1>7 DEF TypeOK

LEMMA NextType == TypeOK /\ [Next]_vars => TypeOK'
  <1> SUFFICES ASSUME TypeOK, [Next]_vars PROVE TypeOK'
    OBVIOUS
  <1>1. ASSUME NEW a \in Reqs, Step(a) PROVE TypeOK'
    <2>1. CASE Begin(a)
      BY <2>1, BeginType
    <2>2. CASE Migrate(a)
      BY <2>2, MigrateType
    <2>3. CASE StartUpdate(a) \/ SkipUpdate(a) \/ StartSave(a) \/ RejectSave(a)
      BY <2>3, StartType
    <2>4. CASE Authenticate(a)
      BY <2>4, AuthenticateType
    <2>5. CASE Conclude(a)
      BY <2>5, RecordType, ModesType, SaveType, PrefsType, DeleteType DEF Conclude
    <2>6. CASE Crash(a)
      <3>1. Finish(a) /\ stopped' \in BOOLEAN
        BY <2>6, EndsType DEF Crash
      <3> QED
        BY <2>6, <3>1, NotedType, FinishType DEF Crash, TypeOK
    <2> QED
      BY <1>1, <2>1, <2>2, <2>3, <2>4, <2>5, <2>6 DEF Step
  <1>2. CASE Tick
    BY <1>2 DEF Tick, TypeOK, store, vendor, ending
  <1>3. CASE AgeToken
    BY <1>3 DEF AgeToken, TypeOK, store, ending
  <1>4. CASE UNCHANGED vars
    BY <1>4 DEF vars, TypeOK
  <1> QED
    BY <1>1, <1>2, <1>3, <1>4 DEF Next

(* Type correctness, for any number of requests, users and writes.          *)
THEOREM TypeCorrect == Spec => []TypeOK
  BY InitType, NextType, PTL DEF Spec

-----------------------------------------------------------------------------
(* No write takes an older choice or an older token back, for any number of *)
(* requests: CopiesInv is inductive.  Every step is first reduced to its    *)
(* effect on the document and its effect on the copy of the request that    *)
(* takes it; the invariant is then shown to survive the effects.            *)

(* t is what a handler makes of the copy s when it records an outcome: the  *)
(* users' choices stay and the token does not go back.                      *)
Rewrites(s, t) == t.cfg = s.cfg /\ t.notif = s.notif /\ s.tok <= t.tok

(* A write by request a, of whichever handler.  Either it replaced the      *)
(* version it had read, or blind says that it did not.                      *)
Writes(a) ==
    /\ sv[a].ver = doc.ver \/ blind'
    /\ blind => blind'
    /\ commits' = commits + 1
    /\ doc'.ver = commits + 1
    /\ sv[a].tok <= doc'.tok
    /\ doc'.tok <= issued'
    /\ sv[a].cfg = wanted.cfg /\ sv[a].notif = wanted.notif
            => doc'.cfg = wanted'.cfg /\ doc'.notif = wanted'.notif

(* DeleteSite's first write touches one field of the stored document, its   *)
(* purge removes all of it.                                                 *)
Touches ==
    /\ UNCHANGED <<blind, wanted>>
    /\ commits' = commits + 1
    /\ doc' = [doc EXCEPT !.ver = commits + 1]
Purges ==
    /\ UNCHANGED <<blind, commits>>
    /\ doc' = Missing
    /\ wanted' = [cfg |-> NoConfig, notif |-> NoNotifications]

StoreEffect(a) ==
    \/ UNCHANGED <<doc, commits, blind, wanted>>
    \/ Writes(a)
    \/ Touches
    \/ Purges

(* What a step of request a may do to the copies: only its own changes, and *)
(* becomes nothing, the document, or a rewriting of what it was.            *)
CopyEffect(a) ==
    /\ \A b \in Reqs \ {a} : sv'[b] = sv[b] /\ req'[b] = req[b]
    /\ \/ sv'[a] = Missing
       \/ sv'[a] = doc'
       \/ sv'[a].ver = sv[a].ver /\ Rewrites(sv[a], sv'[a])
    /\ sv'[a].tok <= issued' /\ req'[a].cred <= issued'
    /\ req'[a].at \notin {"prefs", "again"} => sv'[a].tok <= req'[a].cred
    /\ issued <= issued'

-----------------------------------------------------------------------------
(* The invariant survives the effects.                                      *)

LEMMA EffectsKeepInv ==
  ASSUME TypeOK, TypeOK', CopiesInv, NEW a \in Reqs, StoreEffect(a), CopyEffect(a)
  PROVE  CopiesInv' /\ (blind' \/ doc' = Missing \/ doc'.tok >= doc.tok)
  <1> USE DEF CopiesInv
  <1>1. /\ doc \in Docs /\ doc' \in Docs /\ commits \in Nat /\ commits' \in Nat
        /\ issued \in Nat /\ issued' \in Nat
        /\ \A b \in Reqs : sv[b] \in Docs /\ sv'[b] \in Docs
                           /\ req[b] \in ReqStates /\ req'[b] \in ReqStates
    BY DEF TypeOK
  <1>2. /\ doc.ver \in Nat /\ doc'.ver \in Nat /\ doc.tok \in Nat /\ doc'.tok \in Nat
        /\ \A b \in Reqs : /\ sv[b].ver \in Nat /\ sv'[b].ver \in Nat
                           /\ sv[b].tok \in Nat /\ sv'[b].tok \in Nat
                           /\ req[b].cred \in Nat /\ req'[b].cred \in Nat
    BY <1>1 DEF Docs, ReqStates
  <1>3. /\ Missing.ver = 0 /\ Missing.tok = 0
        /\ Missing.cfg = NoConfig /\ Missing.notif = NoNotifications
    BY DEF Missing
  <1>4. \/ doc' = doc /\ commits' = commits
        \/ doc'.ver = commits + 1 /\ commits' = commits + 1
        \/ doc' = Missing /\ commits' = commits
    BY <1>1 DEF StoreEffect, Writes, Touches, Purges, Docs
  <1>5. VersionsOrdered'
    <2>1. doc'.ver <= commits' /\ commits <= commits'
      BY <1>2, <1>3, <1>4, <1>1 DEF VersionsOrdered
    <2>2. ASSUME NEW b \in Reqs PROVE sv'[b].ver <= commits'
      <3>1. CASE b = a
        BY <1>1, <1>2, <1>3, <2>1, <3>1 DEF CopyEffect, VersionsOrdered
      <3>2. CASE b # a
        BY <1>1, <1>2, <2>1, <3>2 DEF CopyEffect, VersionsOrdered
      <3> QED
        BY <3>1, <3>2
    <2> QED
      BY <2>1, <2>2 DEF VersionsOrdered
  <1>6. TokensOrdered'
    <2>1. doc'.tok <= issued'
      <3>1. issued <= issued' /\ doc.tok <= issued
        BY DEF CopyEffect, TokensOrdered
      <3>2. doc'.tok = doc.tok \/ doc'.tok = 0 \/ doc'.tok <= issued'
        BY <1>1, <1>3 DEF StoreEffect, Writes, Touches, Purges, Docs
      <3> QED
        BY <1>1, <1>2, <3>1, <3>2
    <2>2. ASSUME NEW b \in Reqs
          PROVE  /\ req'[b].cred <= issued' /\ sv'[b].tok <= issued'
                 /\ req'[b].at \notin {"prefs", "again"} => sv'[b].tok <= req'[b].cred
      <3>1. CASE b = a
        BY <3>1 DEF CopyEffect
      <3>2. CASE b # a
        BY <1>1, <1>2, <3>2 DEF CopyEffect, TokensOrdered
      <3> QED
        BY <3>1, <3>2
    <2> QED
      BY <2>1, <2>2 DEF TokensOrdered
  <1>7. BlanksAreEmpty'
    <2>1. doc'.ver = 0 => doc' = Missing
      BY <1>1, <1>4 DEF BlanksAreEmpty
    <2>2. ASSUME NEW b \in Reqs PROVE Blank(sv'[b])
      <3>1. CASE b = a
        BY <1>3, <2>1, <3>1 DEF CopyEffect, BlanksAreEmpty, Blank, Rewrites
      <3>2. CASE b # a
        BY <3>2 DEF CopyEffect, BlanksAreEmpty
      <3> QED
        BY <3>1, <3>2
    <2> QED
      BY <2>1, <2>2 DEF BlanksAreEmpty
  <1>8. CopiesAreCurrent'
    <2> SUFFICES ASSUME NEW b \in Reqs, sv'[b].ver = doc'.ver
                 PROVE  /\ sv'[b].cfg = doc'.cfg /\ sv'[b].notif = doc'.notif
                        /\ doc'.tok <= sv'[b].tok
      BY DEF CopiesAreCurrent, Agrees
    <2>1. CASE sv'[b] = doc'
      BY <1>2, <2>1
    <2>2. CASE doc'.ver = 0
      <3>1. doc' = Missing
        BY <1>7, <2>2 DEF BlanksAreEmpty
      <3>2. Blank(sv'[b])
        BY <1>7 DEF BlanksAreEmpty
      <3> QED
        BY <1>2, <1>3, <2>2, <3>1, <3>2 DEF Blank
    <2>3. CASE doc'.ver # 0 /\ sv'[b] # doc'
      <3>1. sv'[b].ver = sv[b].ver /\ Rewrites(sv[b], sv'[b])
        BY <1>2, <1>3, <2>3 DEF CopyEffect, Rewrites
      <3>2. doc' = doc
        <4>1. sv[b].ver <= commits /\ doc'.ver = sv[b].ver
          BY <3>1 DEF VersionsOrdered
        <4>2. doc'.ver # commits + 1
          BY <1>1, <1>2, <4>1
        <4> QED
          BY <1>3, <1>4, <2>3, <4>2
      <3>3. Agrees(sv[b])
        BY <3>1, <3>2 DEF CopiesAreCurrent
      <3> QED
        BY <1>2, <3>1, <3>2, <3>3 DEF Rewrites, Agrees
    <2> QED
      BY <2>1, <2>2, <2>3
  <1>9. Writes(a) /\ ~blind' => Agrees(sv[a])
    BY DEF Writes, CopiesAreCurrent
  <1>10. UserWritesKept'
    <2>1. CASE UNCHANGED <<doc, commits, blind, wanted>>
      BY <2>1 DEF UserWritesKept
    <2>2. CASE Writes(a)
      BY <1>9, <2>2 DEF UserWritesKept, Writes, Agrees
    <2>3. CASE Touches
      BY <1>1, <2>3 DEF UserWritesKept, Touches, Docs
    <2>4. CASE Purges
      BY <1>3, <2>4 DEF UserWritesKept, Purges
    <2> QED
      BY <2>1, <2>2, <2>3, <2>4 DEF StoreEffect
  <1>11. blind' \/ doc' = Missing \/ doc'.tok >= doc.tok
    <2>1. CASE UNCHANGED <<doc, commits, blind, wanted>>
      BY <1>2, <2>1
    <2>2. CASE Writes(a)
      BY <1>2, <1>9, <2>2 DEF Writes, Agrees
    <2>3. CASE Touches
      BY <1>1, <1>2, <2>3 DEF Touches, Docs
    <2>4. CASE Purges
      BY <2>4 DEF Purges
    <2> QED
      BY <2>1, <2>2, <2>3, <2>4 DEF StoreEffect
  <1> QED
    BY <1>5, <1>6, <1>7, <1>8, <1>10, <1>11

-----------------------------------------------------------------------------
(* What handlers record is a rewriting that leaves the token as it was.     *)

Records(s, t) == t \in Docs /\ t.tok = s.tok /\ t.cfg = s.cfg /\ t.notif = s.notif

LEMMA RecordsRewrite ==
  ASSUME NEW s \in Docs, NEW t, Records(s, t)
  PROVE  Rewrites(s, t) /\ t \in Docs
  BY DEF Records, Rewrites, Docs

LEMMA MigratedRecords ==
  ASSUME NEW s \in Docs
  PROVE  Records(s, Migrated(s))
  <1> DEFINE t == IF Eligible(s) THEN Grouped(s) ELSE [s EXCEPT !.group = "none"]
  <1>1. t \in Docs /\ t.tok = s.tok /\ t.cfg = s.cfg /\ t.notif = s.notif
    BY DEF Grouped, Docs, ConfigSet, Utilities
  <1> HIDE DEF t
  <1> DEFINE u == [t EXCEPT !.current = TRUE]
  <1>2. u.tok = t.tok /\ u.cfg = t.cfg /\ u.notif = t.notif
    BY <1>1 DEF Docs
  <1>3. u = Migrated(s)
    BY DEF Migrated, t
  <1> HIDE DEF u
  <1> QED
    BY <1>1, <1>2, <1>3, MigratedType DEF Records

LEMMA CountersRecord ==
  ASSUME NEW s \in Docs, now \in Nat
  PROVE  /\ Records(s, Failed(s))
         /\ Records(s, Cleared(s))
         /\ Records(s, [s EXCEPT !.setFails = @ + 1, !.last = now])
         /\ Records(s, [s EXCEPT !.setFails = 0, !.last = now])
         /\ Records(s, [s EXCEPT !.fails = 0, !.last = now])
  <1>1. Records(s, Failed(s))
    BY FailedType DEF Failed, Records, Docs
  <1>2. Records(s, Cleared(s))
    BY ClearedType DEF Cleared, Records, Docs
  <1>3. Records(s, [s EXCEPT !.setFails = @ + 1, !.last = now])
    <2> DEFINE t == [s EXCEPT !.setFails = @ + 1]
    <2>1. Records(s, t)
      BY DEF Records, Docs
    <2> HIDE DEF t
    <2>2. Records(s, [t EXCEPT !.last = now])
      BY <2>1 DEF Records, Docs
    <2> QED
      BY <2>2 DEF t
  <1>4. /\ Records(s, [s EXCEPT !.setFails = 0, !.last = now])
        /\ Records(s, [s EXCEPT !.fails = 0, !.last = now])
    BY DEF Records, Docs
  <1> QED
    BY <1>1, <1>2, <1>3, <1>4

LEMMA AfterGrantRewrites ==
  ASSUME TypeOK, NEW a \in Reqs, sv[a].tok <= req[a].cred
  PROVE  /\ AfterGrant(a) \in Docs
         /\ Rewrites(sv[a], AfterGrant(a))
         /\ AfterGrant(a).tok = req[a].cred
  <1> DEFINE s == IF sv[a].fails > 0
                  THEN [sv[a] EXCEPT !.fails = 0, !.last = now]
                  ELSE sv[a]
             t == [s EXCEPT !.tok = req[a].cred, !.setFails = 0]
  <1>1. sv[a] \in Docs /\ now \in Nat /\ req[a].cred \in Nat
    BY DEF TypeOK, ReqStates
  <1>2. Records(sv[a], s)
    BY <1>1, CountersRecord DEF Records
  <1>3. AfterGrant(a) = IF req[a].cred # sv[a].tok THEN t ELSE s
    BY DEF AfterGrant
  <1> HIDE DEF s
  <1>4. t.cfg = s.cfg /\ t.notif = s.notif /\ t.tok = req[a].cred
    BY <1>1, <1>2 DEF Records, Docs
  <1> HIDE DEF t
  <1> QED
    BY <1>1, <1>2, <1>3, <1>4, AfterGrantType DEF Records, Rewrites, Docs

-----------------------------------------------------------------------------
(* The effects of the pieces the actions share.                             *)

LEMMA FinishEffect ==
  ASSUME TypeOK, NEW a \in Reqs, Finish(a), issued' \in Nat, issued <= issued'
  PROVE  CopyEffect(a)
  <1>1. sv'[a] = Missing /\ req'[a] = Idle
    BY DEF Finish, TypeOK
  <1>2. \A b \in Reqs \ {a} : sv'[b] = sv[b] /\ req'[b] = req[b]
    BY DEF Finish, TypeOK
  <1>3. Missing.tok = 0 /\ Idle.cred = 0
    BY DEF Missing, Idle
  <1> QED
    BY <1>1, <1>2, <1>3 DEF CopyEffect

(* The versions a handler may require: the one it read, or none at all if   *)
(* it is a save.                                                            *)
Requires(a, ver) == ver = sv[a].ver \/ (ver = 0 /\ req[a].kind = "save")

LEMMA CommitEffect ==
  ASSUME TypeOK, NEW a \in Reqs, NEW s \in Docs, NEW ver, Commit(a, s, ver),
         Requires(a, ver), sv[a].tok <= s.tok, s.tok <= issued',
         sv[a].cfg = wanted.cfg /\ sv[a].notif = wanted.notif
            => s.cfg = wanted'.cfg /\ s.notif = wanted'.notif
  PROVE  Writes(a)
  <1>1. /\ doc'.ver = commits + 1 /\ doc'.tok = s.tok
        /\ doc'.cfg = s.cfg /\ doc'.notif = s.notif
    BY DEF Commit, Docs
  <1>2. sv[a].ver = doc.ver \/ blind'
    BY DEF Commit, Requires, Unguarded
  <1>3. blind => blind'
    BY DEF Commit
  <1>4. commits' = commits + 1
    BY DEF Commit
  <1> QED
    BY <1>1, <1>2, <1>3, <1>4 DEF Writes

LEMMA SetSettingsEffect ==
  ASSUME TypeOK, NEW a \in Reqs, NEW s \in Docs, NEW ver,
         NEW confirmed \in BOOLEAN, SetSettings(a, s, ver, confirmed),
         Requires(a, ver), Rewrites(sv[a], s), s.tok <= issued', wanted' = wanted
  PROVE  /\ StoreEffect(a)
         /\ Kept(a, s, confirmed).tok = s.tok
         /\ \/ Kept(a, s, confirmed) = doc'
            \/ /\ Kept(a, s, confirmed).ver = sv[a].ver
               /\ Rewrites(sv[a], Kept(a, s, confirmed))
  <1> DEFINE k == [s EXCEPT !.ver = sv[a].ver]
  <1>1. k.ver = sv[a].ver /\ k.tok = s.tok /\ Rewrites(sv[a], k)
    BY DEF Rewrites, Docs
  <1>2. Kept(a, s, confirmed) = IF confirmed THEN doc' ELSE k
    BY DEF Kept
  <1> HIDE DEF k
  <1>3. CASE Apply(a, s, ver)
    <2>1. Commit(a, s, ver)
      BY <1>3 DEF Apply
    <2>2. Writes(a)
      BY <2>1, CommitEffect DEF Rewrites
    <2>3. doc'.tok = s.tok
      BY <2>1 DEF Commit, Docs
    <2> QED
      BY <1>1, <1>2, <2>2, <2>3 DEF StoreEffect
  <1>4. CASE ~confirmed /\ Refuse(ver)
    BY <1>1, <1>2, <1>4 DEF Refuse, store, StoreEffect
  <1> QED
    BY <1>3, <1>4 DEF SetSettings

LEMMA WriteAndFinishEffect ==
  ASSUME TypeOK, CopiesInv, NEW a \in Reqs, NEW s, Records(sv[a], s),
         WriteAndFinish(a, s), UNCHANGED <<vendor, wanted>>
  PROVE  StoreEffect(a) /\ CopyEffect(a)
  <1>1. PICK confirmed \in BOOLEAN : SetSettings(a, s, sv[a].ver, confirmed)
    BY DEF WriteAndFinish
  <1>2. issued' = issued /\ issued \in Nat
    BY DEF vendor, TypeOK
  <1>3. s \in Docs /\ Rewrites(sv[a], s) /\ s.tok <= issued'
    BY <1>2, RecordsRewrite DEF Records, CopiesInv, TokensOrdered, TypeOK
  <1>4. StoreEffect(a)
    BY <1>1, <1>3, SetSettingsEffect DEF Requires
  <1>5. CopyEffect(a)
    BY <1>2, FinishEffect DEF WriteAndFinish
  <1> QED
    BY <1>4, <1>5

-----------------------------------------------------------------------------
(* The effects of each action.                                              *)

(* A step that moves a request, with the credentials it holds afterwards.   *)
LEMMA MoveEffect ==
  ASSUME TypeOK, CopiesInv, NEW a \in Reqs, NEW r,
         req' = [req EXCEPT ![a] = r], req[a].at \notin {"prefs", "again"},
         req[a].cred <= r.cred, r.cred \in Nat, r.cred <= issued',
         issued' \in Nat, issued <= issued',
         UNCHANGED <<store, sv, wanted>>
  PROVE  StoreEffect(a) /\ CopyEffect(a)
  <1>1. req'[a] = r /\ \A b \in Reqs \ {a} : req'[b] = req[b]
    BY DEF TypeOK
  <1>2. sv[a].tok \in Nat /\ req[a].cred \in Nat /\ issued \in Nat
    BY DEF TypeOK, Docs, ReqStates
  <1>3. sv[a].tok <= issued
        /\ sv[a].tok <= req[a].cred
    BY DEF CopiesInv, TokensOrdered
  <1>4. Rewrites(sv[a], sv[a])
    BY <1>2 DEF Rewrites
  <1> QED
    BY <1>1, <1>2, <1>3, <1>4 DEF StoreEffect, CopyEffect, store

LEMMA ReadEffect ==
  ASSUME TypeOK, CopiesInv, NEW a \in Reqs, NEW kind, NEW ask, NEW place,
         Read(a, kind, ask, place)
  PROVE  StoreEffect(a) /\ CopyEffect(a)
  <1>1. req'[a].cred = doc.tok /\ \A b \in Reqs \ {a} : req'[b] = req[b]
    BY DEF Read, TypeOK
  <1>2. sv'[a] = doc' /\ \A b \in Reqs \ {a} : sv'[b] = sv[b]
    BY DEF Read, TypeOK, store
  <1>3. UNCHANGED <<doc, commits, blind, wanted, issued>>
    BY DEF Read, store, vendor
  <1>4. doc.tok \in Nat /\ issued \in Nat /\ doc.tok <= issued
    BY DEF TypeOK, Docs, CopiesInv, TokensOrdered
  <1> QED
    BY <1>1, <1>2, <1>3, <1>4 DEF StoreEffect, CopyEffect

LEMMA BeginEffect ==
  ASSUME TypeOK, CopiesInv, NEW a \in Reqs, Begin(a)
  PROVE  StoreEffect(a) /\ CopyEffect(a)
  <1>1. \E kind, ask, place : Read(a, kind, ask, place)
    BY DEF Begin, BeginSweep, BeginManual, BeginSave, BeginStage, BeginRead,
       BeginPrefs, BeginDelete, ReadMigrating
  <1> QED
    BY <1>1, ReadEffect

(* A request ends and nothing else changes.                                 *)
LEMMA EndEffect ==
  ASSUME TypeOK, NEW a \in Reqs, Finish(a), UNCHANGED <<store, wanted, issued>>
  PROVE  StoreEffect(a) /\ CopyEffect(a)
  <1>1. issued' = issued /\ issued \in Nat
    BY DEF TypeOK
  <1>2. CopyEffect(a)
    BY <1>1, FinishEffect
  <1> QED
    BY <1>2 DEF StoreEffect, store

LEMMA MigrateEffect ==
  ASSUME TypeOK, CopiesInv, NEW a \in Reqs, Migrate(a)
  PROVE  StoreEffect(a) /\ CopyEffect(a)
  <1> DEFINE s == Migrated(sv[a])
  <1>1. sv[a] \in Docs /\ issued' = issued /\ issued \in Nat /\ wanted' = wanted
        /\ req[a].cred \in Nat /\ req[a].cred <= issued
        /\ sv[a].tok <= req[a].cred
    BY DEF Migrate, vendor, TypeOK, ReqStates, CopiesInv, TokensOrdered
  <1>2. Records(sv[a], s)
    BY <1>1, MigratedRecords
  <1> HIDE DEF s
  <1>3. s \in Docs /\ Rewrites(sv[a], s) /\ s.tok = sv[a].tok /\ s.tok <= issued'
    BY <1>1, <1>2, RecordsRewrite DEF Records, CopiesInv, TokensOrdered
  <1>4. PICK confirmed \in BOOLEAN :
          /\ SetSettings(a, s, sv[a].ver, confirmed)
          /\ IF req[a].kind = "read"
             THEN Finish(a)
             ELSE /\ sv' = [sv EXCEPT ![a] = Kept(a, s, confirmed)]
                  /\ Goto(a, Entry(req[a].kind))
    BY DEF Migrate, s
  <1> DEFINE k == Kept(a, s, confirmed)
  <1>5. /\ StoreEffect(a)
        /\ k.tok = s.tok
        /\ k = doc' \/ (k.ver = sv[a].ver /\ Rewrites(sv[a], k))
    BY <1>1, <1>3, <1>4, SetSettingsEffect DEF Requires
  <1> HIDE DEF k
  <1>6. CASE req[a].kind = "read"
    BY <1>1, <1>4, <1>5, <1>6, FinishEffect
  <1>7. CASE req[a].kind # "read"
    <2>1. sv'[a] = k /\ \A b \in Reqs \ {a} : sv'[b] = sv[b]
      BY <1>4, <1>7 DEF TypeOK, k
    <2>2. /\ req'[a].cred = req[a].cred
          /\ \A b \in Reqs \ {a} : req'[b] = req[b]
      BY <1>4, <1>7 DEF TypeOK, Goto, ReqStates
    <2> QED
      BY <1>1, <1>3, <1>5, <2>1, <2>2 DEF CopyEffect
  <1> QED
    BY <1>6, <1>7

LEMMA StartEffect ==
  ASSUME TypeOK, CopiesInv, NEW a \in Reqs,
         StartUpdate(a) \/ SkipUpdate(a) \/ StartSave(a) \/ RejectSave(a)
  PROVE  StoreEffect(a) /\ CopyEffect(a)
  <1>1. UNCHANGED <<store, wanted, issued>>
    BY DEF StartUpdate, SkipUpdate, StartSave, RejectSave, vendor
  <1>2. req[a] \in ReqStates /\ issued \in Nat /\ req[a].cred <= issued
    BY DEF TypeOK, CopiesInv, TokensOrdered
  <1>3. \/ Finish(a)
        \/ /\ UNCHANGED sv
           /\ \/ Goto(a, "write")
              \/ req' = [req EXCEPT ![a].at = "auth", ![a].began = now]
    BY DEF StartUpdate, SkipUpdate, StartSave, RejectSave
  <1>7. req[a].at \in {"guard", "save"}
    BY DEF StartUpdate, SkipUpdate, StartSave, RejectSave
  <1>4. CASE Finish(a)
    BY <1>1, <1>4, EndEffect
  <1>5. CASE UNCHANGED sv /\ Goto(a, "write")
    <2> DEFINE r == [req[a] EXCEPT !.at = "write"]
    <2>1. req' = [req EXCEPT ![a] = r]
      BY <1>5 DEF Goto, TypeOK
    <2>2. r.cred = req[a].cred /\ r.cred \in Nat
      BY <1>2 DEF ReqStates
    <2>3. /\ req[a].cred <= r.cred /\ r.cred <= issued'
          /\ issued' \in Nat /\ issued <= issued'
      BY <1>1, <1>2, <2>2
    <2>4. req[a].at \notin {"prefs", "again"}
      BY <1>7
    <2> HIDE DEF r
    <2> QED
      BY <1>1, <1>5, <2>1, <2>2, <2>3, <2>4, MoveEffect
  <1>6. CASE UNCHANGED sv /\ req' = [req EXCEPT ![a].at = "auth", ![a].began = now]
    <2> DEFINE r == [req[a] EXCEPT !.at = "auth", !.began = now]
    <2>1. req' = [req EXCEPT ![a] = r]
      BY <1>6 DEF TypeOK
    <2>2. r.cred = req[a].cred /\ r.cred \in Nat
      BY <1>2 DEF ReqStates
    <2>3. /\ req[a].cred <= r.cred /\ r.cred <= issued'
          /\ issued' \in Nat /\ issued <= issued'
      BY <1>1, <1>2, <2>2
    <2>4. req[a].at \notin {"prefs", "again"}
      BY <1>7
    <2> HIDE DEF r
    <2> QED
      BY <1>1, <1>6, <2>1, <2>2, <2>3, <2>4, MoveEffect
  <1> QED
    BY <1>3, <1>4, <1>5, <1>6

LEMMA AuthenticateEffect ==
  ASSUME TypeOK, CopiesInv, NEW a \in Reqs, Authenticate(a)
  PROVE  StoreEffect(a) /\ CopyEffect(a)
  <1>1. UNCHANGED <<store, sv, wanted>>
    BY DEF Authenticate, Refresh, UseAccessToken, RejectStored,
       ExchangeCode, RejectCode, AuthenticateStage
  <1>2. req[a] \in ReqStates /\ issued \in Nat /\ req[a].cred <= issued
        /\ req[a].cred \in Nat
    BY DEF TypeOK, CopiesInv, TokensOrdered, ReqStates
  <1>3. \E cred \in {req[a].cred, issued + 1} :
          /\ issued' \in {issued, issued + 1}
          /\ cred = issued + 1 => issued' = issued + 1
          /\ Granted(a, cred) \/ Denied(a, cred)
    BY <1>2 DEF Authenticate, Refresh, UseAccessToken, RejectStored,
       ExchangeCode, RejectCode, AuthenticateStage, Verify
  <1>4. PICK cred \in {req[a].cred, issued + 1} :
          /\ issued' \in {issued, issued + 1}
          /\ cred = issued + 1 => issued' = issued + 1
          /\ Granted(a, cred) \/ Denied(a, cred)
    BY <1>3
  <1>5. /\ cred \in Nat /\ req[a].cred <= cred /\ cred <= issued'
        /\ issued' \in Nat /\ issued <= issued'
    BY <1>2, <1>4
  <1>6. PICK place \in Places : req' = [req EXCEPT ![a].at = place, ![a].cred = cred]
    BY <1>4 DEF Granted, Denied, Places
  <1> DEFINE r == [req[a] EXCEPT !.at = place, !.cred = cred]
  <1>7. req' = [req EXCEPT ![a] = r]
    BY <1>6 DEF TypeOK
  <1>8. r.cred = cred
    BY <1>2 DEF ReqStates
  <1> HIDE DEF r
  <1>9. req[a].at = "auth"
    BY DEF Authenticate, Refresh, UseAccessToken, RejectStored,
       ExchangeCode, RejectCode, AuthenticateStage, UsesStored
  <1> QED
    BY <1>1, <1>5, <1>7, <1>8, <1>9, MoveEffect

LEMMA RecordEffect ==
  ASSUME TypeOK, CopiesInv, NEW a \in Reqs,
         RecordGrant(a) \/ RecordDenial(a) \/ StageDenial(a) \/ StageGrant(a)
  PROVE  StoreEffect(a) /\ CopyEffect(a)
  <1>1. sv[a] \in Docs /\ now \in Nat /\ issued \in Nat /\ req[a].cred \in Nat
        /\ req[a].cred <= issued
    BY DEF TypeOK, ReqStates, CopiesInv, TokensOrdered
  <1>2. UNCHANGED <<vendor, wanted, issued>>
    BY DEF RecordGrant, RecordDenial, StageDenial, StageGrant, vendor
  <1>3. CASE RecordGrant(a)
    <2>1. sv[a].tok <= req[a].cred
      BY <1>3 DEF RecordGrant, CopiesInv, TokensOrdered
    <2>2. /\ req'[a].cred = req[a].cred
          /\ \A b \in Reqs \ {a} : req'[b] = req[b]
      BY <1>3 DEF RecordGrant, Goto, TypeOK, ReqStates
    <2> DEFINE s == AfterGrant(a)
    <2>3. s \in Docs /\ Rewrites(sv[a], s) /\ s.tok = req[a].cred
      BY <2>1, AfterGrantRewrites
    <2> HIDE DEF s
    <2>4. CASE s = sv[a]
      <3>1. UNCHANGED <<store, sv>>
        BY <1>3, <2>4 DEF RecordGrant, s
      <3> QED
        BY <1>1, <1>2, <2>2, <2>3, <2>4, <3>1 DEF StoreEffect, CopyEffect, store
    <2>5. CASE s # sv[a]
      <3>1. PICK confirmed \in BOOLEAN :
              /\ SetSettings(a, s, sv[a].ver, confirmed)
              /\ sv' = [sv EXCEPT ![a] = Kept(a, s, confirmed)]
        BY <1>3, <2>5 DEF RecordGrant, s
      <3> DEFINE k == Kept(a, s, confirmed)
      <3>2. s.tok <= issued'
        BY <1>1, <1>2, <2>3
      <3>3. /\ StoreEffect(a)
            /\ k.tok = s.tok
            /\ k = doc' \/ (k.ver = sv[a].ver /\ Rewrites(sv[a], k))
        BY <1>2, <2>3, <3>1, <3>2, SetSettingsEffect DEF Requires
      <3>4. sv'[a] = k /\ \A b \in Reqs \ {a} : sv'[b] = sv[b]
        BY <3>1 DEF TypeOK
      <3> HIDE DEF k
      <3> QED
        BY <1>1, <1>2, <2>2, <2>3, <3>2, <3>3, <3>4 DEF CopyEffect
    <2> QED
      BY <2>4, <2>5
  <1>4. CASE RecordDenial(a)
    BY <1>1, <1>2, <1>4, CountersRecord, WriteAndFinishEffect DEF RecordDenial
  <1>5. CASE StageDenial(a)
    BY <1>1, <1>2, <1>5, CountersRecord, WriteAndFinishEffect DEF StageDenial
  <1>6. CASE StageGrant(a)
    <2>1. CASE UNCHANGED store /\ Finish(a)
      BY <1>2, <2>1, EndEffect
    <2>2. CASE WriteAndFinish(a, Cleared(sv[a]))
      BY <1>1, <1>2, <2>2, CountersRecord, WriteAndFinishEffect
    <2> QED
      BY <1>6, <2>1, <2>2 DEF StageGrant
  <1> QED
    BY <1>3, <1>4, <1>5, <1>6

LEMMA ModesEffect ==
  ASSUME TypeOK, CopiesInv, NEW a \in Reqs,
         ModesUnauthorized(a) \/ ModesRestored(a) \/ LeaveModes(a)
  PROVE  StoreEffect(a) /\ CopyEffect(a)
  <1>1. sv[a] \in Docs /\ now \in Nat
    BY DEF TypeOK
  <1>2. UNCHANGED <<vendor, wanted, issued>>
    BY DEF ModesUnauthorized, ModesRestored, LeaveModes, vendor
  <1>3. CASE ModesUnauthorized(a)
    BY <1>1, <1>2, <1>3, CountersRecord, WriteAndFinishEffect DEF ModesUnauthorized
  <1>4. CASE ModesRestored(a)
    BY <1>1, <1>2, <1>4, CountersRecord, WriteAndFinishEffect DEF ModesRestored
  <1>5. CASE LeaveModes(a)
    BY <1>2, <1>5, EndEffect DEF LeaveModes
  <1> QED
    BY <1>3, <1>4, <1>5

(* A save's settings are those it read but for what the body asks for.      *)
LEMMA NewSettingsContent ==
  ASSUME TypeOK, NEW a \in Reqs, sv[a].tok <= req[a].cred
  PROVE  /\ NewSettings(a).cfg = req[a].ask.cfg
         /\ NewSettings(a).notif = sv[a].notif
         /\ sv[a].tok <= NewSettings(a).tok
         /\ NewSettings(a).tok <= req[a].cred
  <1> DEFINE c == Cleared(sv[a])
             v == [c EXCEPT !.tok = req[a].cred]
             b == IF req[a].at = "granted" THEN v ELSE sv[a]
             s == [b EXCEPT !.cfg = req[a].ask.cfg]
  <1>1. sv[a] \in Docs /\ now \in Nat /\ req[a].cred \in Nat /\ req[a].ask.cfg \in ConfigSet
    BY DEF TypeOK, ReqStates, Asks
  <1>2. Records(sv[a], c)
    BY <1>1, CountersRecord
  <1> HIDE DEF c
  <1>3. v \in Docs /\ v.notif = sv[a].notif /\ v.tok = req[a].cred
    BY <1>1, <1>2 DEF Records, Docs
  <1> HIDE DEF v
  <1>4. /\ b \in Docs /\ b.notif = sv[a].notif
        /\ b.tok = req[a].cred \/ b.tok = sv[a].tok
    BY <1>1, <1>3
  <1> HIDE DEF b
  <1>5. s \in Docs /\ s.notif = b.notif /\ s.tok = b.tok /\ s.cfg = req[a].ask.cfg
    BY <1>1, <1>4 DEF Docs
  <1> HIDE DEF s
  <1>6. /\ Grouped(s).notif = s.notif /\ Grouped(s).tok = s.tok
        /\ Grouped(s).cfg = s.cfg
    BY <1>5 DEF Grouped, Docs
  <1>7. NewSettings(a) = IF Eligible(s) THEN Grouped(s) ELSE s
    BY DEF NewSettings, s, b, v, c
  <1>8. sv[a].tok \in Nat
    BY <1>1 DEF Docs
  <1> QED
    BY <1>1, <1>4, <1>5, <1>6, <1>7, <1>8

LEMMA SaveEffect ==
  ASSUME TypeOK, CopiesInv, NEW a \in Reqs, SaveDenial(a) \/ SaveWrite(a)
  PROVE  StoreEffect(a) /\ CopyEffect(a)
  <1>1. sv[a] \in Docs /\ now \in Nat /\ issued \in Nat /\ req[a].cred \in Nat
        /\ req[a].cred <= issued /\ sv[a].tok <= issued
    BY DEF TypeOK, ReqStates, CopiesInv, TokensOrdered
  <1>2. issued' = issued
    BY DEF SaveDenial, SaveWrite, vendor
  <1>3. CASE SaveDenial(a)
    <2>1. PICK confirmed \in BOOLEAN : SetSettings(a, Failed(sv[a]), 0, confirmed)
      BY <1>3 DEF SaveDenial
    <2>2. Records(sv[a], Failed(sv[a]))
      BY <1>1, CountersRecord
    <2>3. /\ Failed(sv[a]) \in Docs /\ Rewrites(sv[a], Failed(sv[a]))
          /\ Failed(sv[a]).tok <= issued'
      BY <1>1, <1>2, <2>2, RecordsRewrite DEF Records
    <2>4. Requires(a, 0) /\ wanted' = wanted /\ Finish(a)
      BY <1>3 DEF SaveDenial, Requires
    <2>5. StoreEffect(a)
      BY <2>1, <2>3, <2>4, SetSettingsEffect
    <2> QED
      BY <1>1, <1>2, <2>4, <2>5, FinishEffect
  <1>4. CASE SaveWrite(a)
    <2> DEFINE s == NewSettings(a)
               r == [req[a] EXCEPT !.at = "guard", !.kind = "revert", !.ask = NoAsk]
    <2>1. PICK confirmed \in BOOLEAN :
            /\ SetSettings(a, s, 0, confirmed)
            /\ IF confirmed /\ Reverts(a)
               THEN req' = [req EXCEPT ![a] = r] /\ sv' = [sv EXCEPT ![a] = doc']
               ELSE Finish(a)
      BY <1>4 DEF SaveWrite
    <2>2. sv[a].tok <= req[a].cred
      BY <1>4 DEF SaveWrite, CopiesInv, TokensOrdered
    <2>3. /\ s \in Docs /\ s.cfg = req[a].ask.cfg /\ s.notif = sv[a].notif
          /\ sv[a].tok <= s.tok /\ s.tok <= req[a].cred
      BY <2>2, NewSettingsType, NewSettingsContent
    <2>4. r.cred = req[a].cred
      BY DEF TypeOK, ReqStates
    <2> HIDE DEF s, r
    <2>5. s.tok <= issued'
      BY <1>1, <1>2, <2>3 DEF Docs
    <2>6. CASE Commit(a, s, 0)
      <3>1. commits' # commits
        BY <2>6 DEF Commit, TypeOK
      <3>2. wanted' = [wanted EXCEPT !.cfg = req[a].ask.cfg]
        BY <1>4, <3>1 DEF SaveWrite
      <3>3. wanted'.cfg = s.cfg /\ wanted'.notif = wanted.notif
        BY <2>3, <3>2 DEF TypeOK
      <3>4. Requires(a, 0)
        BY <1>4 DEF SaveWrite, Requires
      <3>5. Writes(a)
        BY <2>3, <2>5, <2>6, <3>3, <3>4, CommitEffect
      <3>6. doc'.tok = s.tok
        BY <2>3, <2>6 DEF Commit, Docs
      <3>7. CASE Finish(a)
        BY <1>1, <1>2, <3>5, <3>7, FinishEffect DEF StoreEffect
      <3>8. CASE req' = [req EXCEPT ![a] = r] /\ sv' = [sv EXCEPT ![a] = doc']
        <4>1. /\ sv'[a] = doc' /\ req'[a] = r
              /\ \A b \in Reqs \ {a} : sv'[b] = sv[b] /\ req'[b] = req[b]
          BY <3>8 DEF TypeOK
        <4> QED
          BY <1>1, <1>2, <2>3, <2>4, <2>5, <3>5, <3>6, <4>1 DEF StoreEffect, CopyEffect
      <3> QED
        BY <2>1, <3>7, <3>8
    <2>7. CASE ~confirmed /\ Refuse(0)
      <3>1. UNCHANGED store /\ Finish(a)
        BY <2>1, <2>7 DEF Refuse
      <3>2. wanted' = wanted
        BY <1>4, <3>1 DEF SaveWrite, store
      <3> QED
        BY <1>2, <3>1, <3>2, EndEffect
    <2> QED
      BY <2>1, <2>6, <2>7 DEF SetSettings, Apply
  <1> QED
    BY <1>3, <1>4

LEMMA PrefsEffect ==
  ASSUME TypeOK, CopiesInv, NEW a \in Reqs, WritePrefs(a) \/ ReadAgain(a)
  PROVE  StoreEffect(a) /\ CopyEffect(a)
  <1>1. sv[a] \in Docs /\ issued \in Nat /\ req[a].cred \in Nat
        /\ req[a].cred <= issued /\ sv[a].tok <= issued /\ doc.tok <= issued
        /\ sv[a].tok \in Nat
    BY DEF TypeOK, ReqStates, Docs, CopiesInv, TokensOrdered
  <1>2. issued' = issued
    BY DEF WritePrefs, ReadAgain, vendor
  <1>3. CASE WritePrefs(a)
    <2> DEFINE s == [sv[a] EXCEPT !.notif[req[a].ask.user] = req[a].ask.pref]
               r == [req[a] EXCEPT !.at = "again", !.tries = @ + 1]
    <2>1. s \in Docs
      BY PrefsDocType
    <2>2. req[a].ask.user \in Users /\ req[a].ask.pref \in Prefs
      BY DEF TypeOK, ReqStates, Asks
    <2>3. /\ s.tok = sv[a].tok /\ s.cfg = sv[a].cfg
          /\ s.notif = [sv[a].notif EXCEPT ![req[a].ask.user] = req[a].ask.pref]
      BY <1>1 DEF Docs
    <2>4. CopyEffect(a)
      <3>1. Finish(a) \/ (req' = [req EXCEPT ![a] = r] /\ UNCHANGED sv)
        BY <1>3 DEF WritePrefs, TypeOK
      <3>2. r.at = "again" /\ r.cred = req[a].cred
        BY DEF TypeOK, ReqStates
      <3> HIDE DEF r
      <3>3. CASE Finish(a)
        BY <1>1, <1>2, <3>3, FinishEffect
      <3>4. CASE req' = [req EXCEPT ![a] = r] /\ UNCHANGED sv
        <4>1. req'[a] = r /\ \A b \in Reqs \ {a} : req'[b] = req[b]
          BY <3>4 DEF TypeOK
        <4> QED
          BY <1>1, <1>2, <3>2, <3>4, <4>1 DEF CopyEffect, Rewrites
      <3> QED
        BY <3>1, <3>3, <3>4
    <2>5. Commit(a, s, sv[a].ver) \/ UNCHANGED store
      BY <1>3 DEF WritePrefs, Refuse
    <2> HIDE DEF s
    <2>6. CASE Commit(a, s, sv[a].ver)
      <3>1. commits' # commits
        BY <2>6 DEF Commit, TypeOK
      <3>2. wanted' = [wanted EXCEPT !.notif[req[a].ask.user] = req[a].ask.pref]
        BY <1>3, <3>1 DEF WritePrefs
      <3>3. wanted \in [cfg : ConfigSet, notif : [Users -> Prefs]]
        BY DEF TypeOK
      <3>4. /\ wanted'.cfg = wanted.cfg
            /\ wanted'.notif = [wanted.notif EXCEPT ![req[a].ask.user] = req[a].ask.pref]
        BY <2>2, <3>2, <3>3
      <3>5. sv[a].tok <= s.tok /\ s.tok <= issued'
        BY <1>1, <1>2, <2>3
      <3>6. Writes(a)
        BY <2>1, <2>3, <2>6, <3>4, <3>5, CommitEffect DEF Requires
      <3> QED
        BY <2>4, <3>6 DEF StoreEffect
    <2>7. CASE UNCHANGED store
      <3>1. wanted' = wanted
        BY <1>3, <2>7 DEF WritePrefs, store
      <3> QED
        BY <2>4, <2>7, <3>1 DEF StoreEffect, store
    <2> QED
      BY <2>5, <2>6, <2>7
  <1>4. CASE ReadAgain(a)
    <2>1. UNCHANGED <<store, wanted, issued>>
      BY <1>4 DEF ReadAgain, vendor
    <2>2. CASE Finish(a)
      BY <2>1, <2>2, EndEffect
    <2>3. CASE Goto(a, "prefs") /\ sv' = [sv EXCEPT ![a] = doc]
      <3>1. /\ req'[a].cred = req[a].cred /\ req'[a].at = "prefs"
            /\ \A b \in Reqs \ {a} : req'[b] = req[b]
        BY <2>3 DEF Goto, TypeOK, ReqStates
      <3>2. sv'[a] = doc' /\ \A b \in Reqs \ {a} : sv'[b] = sv[b]
        BY <2>1, <2>3 DEF TypeOK, store
      <3>3. doc'.tok = doc.tok
        BY <2>1 DEF store
      <3> QED
        BY <1>1, <1>2, <2>1, <3>1, <3>2, <3>3 DEF StoreEffect, CopyEffect, store
    <2> QED
      BY <1>4, <2>2, <2>3 DEF ReadAgain
  <1> QED
    BY <1>3, <1>4

LEMMA DeleteEffect ==
  ASSUME TypeOK, CopiesInv, NEW a \in Reqs,
         Unlist(a) \/ Purge(a) \/ DropSite(a) \/ AbandonDelete(a)
  PROVE  StoreEffect(a) /\ CopyEffect(a)
  <1>1. issued' = issued
    BY DEF Unlist, Purge, DropSite, AbandonDelete, vendor
  <1>2. CASE Unlist(a) \/ Purge(a)
    <2>1. StoreEffect(a)
      BY <1>2 DEF Unlist, Purge, StoreEffect, Touches, Purges, store
    <2>2. sv' = sv /\ (Goto(a, "purge") \/ Goto(a, "drop")) /\ req[a].at \in {"unlist", "purge"}
      BY <1>2 DEF Unlist, Purge
    <2>3. /\ req'[a].cred = req[a].cred
          /\ \A b \in Reqs \ {a} : req'[b] = req[b]
      BY <2>2 DEF Goto, TypeOK, ReqStates
    <2>4. /\ issued \in Nat /\ sv[a].tok \in Nat /\ req[a].cred <= issued
          /\ sv[a].tok <= issued /\ sv[a].tok <= req[a].cred
      BY <2>2 DEF TypeOK, Docs, CopiesInv, TokensOrdered
    <2> QED
      BY <1>1, <2>1, <2>2, <2>3, <2>4 DEF CopyEffect, Rewrites
  <1>3. CASE DropSite(a)
    BY <1>1, <1>3, EndEffect DEF DropSite
  <1>4. CASE AbandonDelete(a)
    BY <1>1, <1>4, EndEffect DEF AbandonDelete, Ends
  <1> QED
    BY <1>2, <1>3, <1>4

-----------------------------------------------------------------------------
(* The invariant and what follows from it.                                  *)

LEMMA StepEffect ==
  ASSUME TypeOK, CopiesInv, NEW a \in Reqs, Step(a)
  PROVE  StoreEffect(a) /\ CopyEffect(a)
  <1>1. CASE Begin(a)
    BY <1>1, BeginEffect
  <1>2. CASE Migrate(a)
    BY <1>2, MigrateEffect
  <1>3. CASE StartUpdate(a) \/ SkipUpdate(a) \/ StartSave(a) \/ RejectSave(a)
    BY <1>3, StartEffect
  <1>4. CASE Authenticate(a)
    BY <1>4, AuthenticateEffect
  <1>5. CASE Conclude(a)
    BY <1>5, RecordEffect, ModesEffect, SaveEffect, PrefsEffect, DeleteEffect DEF Conclude
  <1>6. CASE Crash(a)
    BY <1>6, EndEffect DEF Crash, Ends, vendor
  <1> QED
    BY <1>1, <1>2, <1>3, <1>4, <1>5, <1>6 DEF Step

LEMMA CopiesInit == Init => CopiesInv
  <1> SUFFICES ASSUME Init PROVE CopiesInv
    OBVIOUS
  <1>1. doc \in Docs
    BY InitType DEF TypeOK
  <1>2. doc = Missing \/ doc.ver = 1
    BY DEF Init, InitialDoc, Grouped, Stored, Missing
  <1>3. /\ Missing.ver = 0 /\ Missing.tok = 0 /\ Idle.cred = 0
        /\ Missing.cfg = NoConfig /\ Missing.notif = NoNotifications
    BY DEF Missing, Idle
  <1>4. \A a \in Reqs : sv[a] = Missing /\ req[a] = Idle
    BY DEF Init
  <1>5. doc.ver \in Nat /\ doc.tok \in Nat /\ commits = doc.ver /\ issued = doc.tok
    BY <1>1 DEF Init, Docs
  <1>6. VersionsOrdered
    BY <1>3, <1>4, <1>5 DEF VersionsOrdered
  <1>7. TokensOrdered
    BY <1>3, <1>4, <1>5 DEF TokensOrdered
  <1>8. BlanksAreEmpty
    BY <1>2, <1>3, <1>4 DEF BlanksAreEmpty, Blank
  <1>9. CopiesAreCurrent
    BY <1>2, <1>3, <1>4 DEF CopiesAreCurrent, Agrees
  <1>10. UserWritesKept
    BY DEF Init, UserWritesKept
  <1> QED
    BY <1>6, <1>7, <1>8, <1>9, <1>10 DEF CopiesInv

LEMMA CopiesStep ==
  ASSUME TypeOK, CopiesInv, [Next]_vars
  PROVE  CopiesInv' /\ (doc' # doc => blind' \/ doc' = Missing \/ doc'.tok >= doc.tok)
  <1>1. TypeOK'
    BY NextType
  <1>2. ASSUME NEW a \in Reqs, Step(a)
        PROVE  CopiesInv' /\ (blind' \/ doc' = Missing \/ doc'.tok >= doc.tok)
    BY <1>1, <1>2, StepEffect, EffectsKeepInv
  <1>3. CASE Tick \/ AgeToken \/ UNCHANGED vars
    <2>1. UNCHANGED <<doc, commits, blind, issued, req, sv, wanted>>
      BY <1>3 DEF Tick, AgeToken, vars, store, vendor
    <2> QED
      BY <2>1 DEF CopiesInv, VersionsOrdered, TokensOrdered, BlanksAreEmpty,
         CopiesAreCurrent, UserWritesKept, Blank, Agrees
  <1> QED
    BY <1>2, <1>3 DEF Next

(* Whatever lies between a request's read and its write, the copy it holds  *)
(* is the document as long as the version is the document's.                *)
THEOREM CopiesHold == Spec => []CopiesInv
  <1>1. TypeOK /\ CopiesInv /\ [Next]_vars => CopiesInv'
    BY CopiesStep
  <1> QED
    BY <1>1, CopiesInit, TypeCorrect, PTL DEF Spec

(* The document holds the users' latest applied choices until a write that  *)
(* the code leaves without a precondition replaces a version it never read. *)
THEOREM UserWritesAreKept == Spec => []UserWritesKept
  <1>1. CopiesInv => UserWritesKept
    BY DEF CopiesInv
  <1> QED
    BY <1>1, CopiesHold, PTL

(* Until then the stored refresh token never gives way to an earlier one.   *)
THEOREM TokensAdvance == Spec => TokenNeverRegresses
  <1>1. TypeOK /\ CopiesInv /\ [Next]_vars
          => [blind' \/ doc' = Missing \/ doc'.tok >= doc.tok]_vars
    <2> SUFFICES ASSUME TypeOK, CopiesInv, [Next]_vars
                 PROVE  blind' \/ doc' = Missing \/ doc'.tok >= doc.tok
      OBVIOUS
    <2>1. doc.tok \in Nat
      BY DEF TypeOK, Docs
    <2> QED
      BY <2>1, CopiesStep
  <1> QED
    BY <1>1, CopiesHold, TypeCorrect, PTL DEF Spec, TokenNeverRegresses

-----------------------------------------------------------------------------
(* What the scheduler finds.  The same way: each step is reduced to what it *)
(* does to the document and to the copy of its request, and the invariant   *)
(* survives that.                                                           *)

(* A copy or the document, if current and eligible, is in its pool.         *)
Pooled(s) == s.current /\ Eligible(s) => s.group = s.cfg.utility

(* What the request knows of itself: until it signs in it carries the token *)
(* of its copy, an update never brings credentials to a copy without any,   *)
(* and a change of preferences read a document that exists.                 *)
Local(q, c) ==
    /\ q.at \in {"migrate", "guard", "save", "write", "auth"} => c.tok = q.cred
    /\ q.at = "migrate" => q.kind \notin {"prefs", "delete"}
    /\ q.kind \in Updates => q.ask.link = "none"
    /\ q.at = "granted" /\ q.kind \in Updates /\ c.tok = 0 => q.cred = 0
    /\ q.at \in {"prefs", "again"} => c.ver # 0
    /\ c.ver = 0 => c.group = "none"
    /\ Pooled(c)

(* A deletion has purged the site and ended, or is about to.                *)
Gone == deleted \/ \E a \in Reqs : req[a].at = "drop"

PoolsInv ==
    /\ 0 \notin live
    /\ Pooled(doc)
    /\ \A a \in Reqs :
        /\ Local(req[a], sv[a])
        /\ req[a].at \in {"prefs", "again"} /\ sv[a].ver = doc.ver => sv[a].group = doc.group
    /\ stopped \/ Deleting \/ (listed <=> doc.group # "none")
    /\ Gone /\ ~raced =>
        /\ ~listed /\ doc.group = "none" /\ doc.cfg = NoConfig
        /\ \A a \in Reqs : req[a].kind # "save" /\ (sv[a].ver = doc.ver => sv[a].group = "none")

(* t comes of s without a user's say: the choices stay, and a site that is  *)
(* set up for nothing is put in no pool.                                    *)
Stays(s, t) ==
    /\ t.cfg = s.cfg
    /\ s.group = "none" /\ s.cfg = NoConfig => t.group = "none"

Stores(a) ==
    \E s \in Docs :
        /\ doc' = [s EXCEPT !.ver = commits + 1]
        /\ Pooled(s)
        /\ req[a].kind # "save" => sv[a].ver \in {0, doc.ver} /\ Stays(sv[a], s)
        /\ \/ listed' <=> s.group # "none"
           \/ (listed' <=> listed) /\ s.group = doc.group
Unlists(a) ==
    /\ doc' = [doc EXCEPT !.ver = commits + 1]
    /\ ~listed' /\ req'[a].at = "purge"
Removes(a) ==
    /\ doc' = Missing /\ ~listed'
    /\ sv'[a] = sv[a] /\ (~raced' => \A b \in Reqs : req'[b].kind # "save")
DocMove(a) ==
    \/ UNCHANGED <<doc, listed>>
    \/ Stores(a)
    \/ Unlists(a)
    \/ Removes(a)

CopyMove(a) ==
    \/ sv'[a] = Missing
    \/ sv'[a] = doc'
    \/ sv'[a].ver = sv[a].ver /\ Stays(sv[a], sv'[a])

(* How far the request goes.                                                *)
PlaceMove(a) ==
    /\ req'[a].at \in {"prefs", "again"} =>
        \/ sv'[a] = doc'
        \/ sv'[a] = sv[a] /\ req[a].at \in {"prefs", "again"}
    /\ req'[a].kind = "save" => req[a].kind = "save" \/ raced' \/ ~Gone
    /\ req'[a].at = "drop" => Removes(a)
    /\ deleted' => deleted \/ req[a].at = "drop"
    /\ req[a].at = "purge" => Removes(a) \/ stopped'

ScheduleEffect(a) ==
    /\ \A b \in Reqs \ {a} : sv'[b] = sv[b] /\ req'[b] = req[b]
    /\ (stopped => stopped') /\ (raced => raced')
    /\ 0 \notin live'
    /\ DocMove(a) /\ CopyMove(a) /\ PlaceMove(a)
    /\ Local(req'[a], sv'[a])

LEMMA EffectsKeepSchedule ==
  ASSUME TypeOK, TypeOK', CopiesInv, PoolsInv, NEW a \in Reqs, ScheduleEffect(a)
  PROVE  PoolsInv'
  <1> USE DEF PoolsInv
  <1>1. /\ doc \in Docs /\ doc' \in Docs /\ commits \in Nat
        /\ \A b \in Reqs : sv[b] \in Docs /\ sv'[b] \in Docs
    BY DEF TypeOK
  <1>2. /\ doc.ver \in Nat /\ doc'.ver \in Nat /\ doc.ver <= commits
        /\ \A b \in Reqs : sv[b].ver \in Nat /\ sv'[b].ver \in Nat /\ sv[b].ver <= commits
    BY <1>1 DEF Docs, CopiesInv, VersionsOrdered
  <1>3. /\ Missing.ver = 0 /\ Missing.group = "none" /\ Missing.cfg = NoConfig
        /\ ~NoConfig.ess /\ Pooled(Missing)
    BY DEF Missing, NoConfig, Pooled, Eligible
  <1>4. \A s \in Docs : LET t == [s EXCEPT !.ver = commits + 1] IN
            /\ t.ver = commits + 1 /\ t.group = s.group /\ t.cfg = s.cfg
            /\ Pooled(s) => Pooled(t)
    BY DEF Docs, Pooled, Eligible
  <1>5. 0 \notin live'
    BY DEF ScheduleEffect
  <1>6. Pooled(doc')
    BY <1>1, <1>3, <1>4 DEF ScheduleEffect, DocMove, Stores, Unlists, Removes
  <1>7. \A b \in Reqs : Local(req'[b], sv'[b])
    <2>1. \A b \in Reqs \ {a} : Local(req'[b], sv'[b])
      BY DEF ScheduleEffect
    <2> QED
      BY <2>1 DEF ScheduleEffect
  <1>8. doc' = doc \/ doc' = Missing \/ doc'.ver = commits + 1
    BY <1>1, <1>4 DEF ScheduleEffect, DocMove, Stores, Unlists, Removes
  (* Nobody else has the version of a new document.                         *)
  <1>9. \A b \in Reqs : sv[b].ver = doc'.ver => doc' = doc \/ doc' = Missing
    BY <1>1, <1>2, <1>8
  <1>10. ASSUME NEW b \in Reqs, req'[b].at \in {"prefs", "again"}, sv'[b].ver = doc'.ver
         PROVE  sv'[b].group = doc'.group
    <2>1. CASE sv'[b] = doc'
      BY <2>1
    <2>2. CASE sv'[b] = sv[b] /\ req[b].at \in {"prefs", "again"}
      <3>1. sv[b].ver # 0
        BY <2>2 DEF Local
      <3> QED
        BY <1>3, <1>9, <1>10, <2>2, <3>1
    <2> QED
      BY <1>10, <2>1, <2>2 DEF ScheduleEffect, PlaceMove
  <1>11. stopped' \/ Deleting' \/ (listed' <=> doc'.group # "none")
    <2>1. CASE Removes(a)
      BY <1>3, <2>1 DEF Removes
    <2>2. CASE Unlists(a)
      BY <2>2 DEF Unlists, Deleting
    <2> SUFFICES ASSUME ~Removes(a), ~Unlists(a), ~stopped', ~Deleting'
                 PROVE  listed' <=> doc'.group # "none"
      BY <2>1, <2>2
    <2>3. ~stopped /\ req[a].at # "purge"
      BY DEF ScheduleEffect, PlaceMove
    <2>4. ~Deleting
      BY <2>3 DEF ScheduleEffect, Deleting
    <2>5. CASE UNCHANGED <<doc, listed>>
      BY <2>3, <2>4, <2>5
    <2>6. CASE Stores(a)
      BY <1>4, <2>3, <2>4, <2>6 DEF Stores
    <2> QED
      BY <2>5, <2>6 DEF ScheduleEffect, DocMove
  <1>12. ASSUME Gone', ~raced'
         PROVE  /\ ~listed' /\ doc'.group = "none" /\ doc'.cfg = NoConfig
                /\ \A b \in Reqs : /\ req'[b].kind # "save"
                                   /\ sv'[b].ver = doc'.ver => sv'[b].group = "none"
    <2>1. CASE Removes(a)
      <3>1. \A b \in Reqs : sv'[b].ver = doc'.ver => sv'[b].group = "none"
        BY <1>3, <1>7, <2>1 DEF Removes, Local
      <3> QED
        BY <1>3, <1>12, <2>1, <3>1 DEF Removes
    <2>2. CASE ~Removes(a)
      <3>1. Gone /\ ~raced
        BY <1>12, <2>2 DEF Gone, ScheduleEffect, PlaceMove
      <3>2. \A b \in Reqs : req'[b].kind # "save"
        BY <1>12, <3>1 DEF ScheduleEffect, PlaceMove
      <3>3. sv[a].ver \in {0, doc.ver} => sv[a].group = "none" /\ sv[a].cfg = NoConfig
        BY <3>1 DEF Local, CopiesInv, BlanksAreEmpty, Blank, CopiesAreCurrent, Agrees
      <3>4. ~listed' /\ doc'.group = "none" /\ doc'.cfg = NoConfig
        <4>1. CASE UNCHANGED <<doc, listed>>
          BY <3>1, <4>1
        <4>2. CASE Stores(a)
          BY <1>4, <3>1, <3>3, <4>2 DEF Stores, Stays
        <4>3. CASE Unlists(a)
          BY <1>1, <1>4, <3>1, <4>3 DEF Unlists
        <4> QED
          BY <2>2, <4>1, <4>2, <4>3 DEF ScheduleEffect, DocMove
      <3>5. ASSUME NEW b \in Reqs, sv'[b].ver = doc'.ver PROVE sv'[b].group = "none"
        <4>1. CASE sv'[b] = doc' \/ sv'[b] = Missing
          BY <1>3, <3>4, <4>1
        <4>2. CASE sv'[b].ver = 0
          BY <1>7, <4>2 DEF Local
        <4>3. CASE sv'[b].ver = sv[b].ver /\ sv'[b].ver # 0 /\ Stays(sv[b], sv'[b])
          <5>1. doc' = doc
            BY <1>3, <1>9, <3>5, <4>3
          <5>2. sv[b].group = "none"
            BY <3>1, <3>5, <4>3, <5>1
          <5>3. sv[b].cfg = NoConfig
            BY <3>1, <3>5, <4>3, <5>1 DEF CopiesInv, CopiesAreCurrent, Agrees
          <5> QED
            BY <4>3, <5>2, <5>3 DEF Stays
        <4>4. Stays(sv[b], sv[b])
          BY DEF Stays
        <4> QED
          BY <4>1, <4>2, <4>3, <4>4 DEF ScheduleEffect, CopyMove
      <3> QED
        BY <3>2, <3>4, <3>5
    <2> QED
      BY <2>1, <2>2
  <1> QED
    BY <1>5, <1>6, <1>7, <1>10, <1>11, <1>12

-----------------------------------------------------------------------------
(* The effects of the pieces the actions share.                             *)

(* t differs from s in nothing the scheduler looks at.                      *)
Alike(s, t) ==
    t \in Docs /\ t.cfg = s.cfg /\ t.tok = s.tok /\ t.group = s.group /\ t.current = s.current

LEMMA AlikeStays ==
  ASSUME NEW s, NEW t, Alike(s, t), Pooled(s)
  PROVE  Pooled(t) /\ Stays(s, t)
  BY DEF Alike, Pooled, Stays, Eligible

LEMMA CountersAlike ==
  ASSUME NEW s \in Docs, now \in Nat
  PROVE  /\ Alike(s, Failed(s))
         /\ Alike(s, Cleared(s))
         /\ Alike(s, [s EXCEPT !.setFails = @ + 1, !.last = now])
         /\ Alike(s, [s EXCEPT !.setFails = 0, !.last = now])
         /\ Alike(s, [s EXCEPT !.fails = 0, !.last = now])
  <1>1. Alike(s, Failed(s))
    BY FailedType DEF Failed, Alike, Docs
  <1>2. Alike(s, Cleared(s))
    BY ClearedType DEF Cleared, Alike, Docs
  <1>3. Alike(s, [s EXCEPT !.setFails = @ + 1, !.last = now])
    <2> DEFINE t == [s EXCEPT !.setFails = @ + 1]
    <2>1. Alike(s, t)
      BY DEF Alike, Docs
    <2> HIDE DEF t
    <2>2. Alike(s, [t EXCEPT !.last = now])
      BY <2>1 DEF Alike, Docs
    <2> QED
      BY <2>2 DEF t
  <1>4. /\ Alike(s, [s EXCEPT !.setFails = 0, !.last = now])
        /\ Alike(s, [s EXCEPT !.fails = 0, !.last = now])
    BY DEF Alike, Docs
  <1> QED
    BY <1>1, <1>2, <1>3, <1>4

(* The migration regroups a site that is set up, and no other.              *)
LEMMA MigratedPooled ==
  ASSUME NEW s \in Docs
  PROVE  Pooled(Migrated(s)) /\ Stays(s, Migrated(s)) /\ Migrated(s).tok = s.tok
  <1> DEFINE t == IF Eligible(s) THEN Grouped(s) ELSE [s EXCEPT !.group = "none"]
  <1>1. /\ t \in Docs /\ t.tok = s.tok /\ t.cfg = s.cfg
        /\ t.group = IF Eligible(s) THEN s.cfg.utility ELSE "none"
    BY DEF Grouped, Docs, ConfigSet, Utilities
  <1> HIDE DEF t
  <1> DEFINE u == [t EXCEPT !.current = TRUE]
  <1>2. u.tok = t.tok /\ u.cfg = t.cfg /\ u.group = t.group
    BY <1>1 DEF Docs
  <1>3. u = Migrated(s)
    BY DEF Migrated, t
  <1> HIDE DEF u
  <1>4. Eligible(u) <=> Eligible(s)
    BY <1>1, <1>2 DEF Eligible
  <1>5. s.cfg = NoConfig => ~Eligible(s)
    BY DEF Eligible, NoConfig
  <1> QED
    BY <1>1, <1>2, <1>3, <1>4, <1>5 DEF Pooled, Stays

LEMMA FinishSchedule ==
  ASSUME TypeOK, NEW a \in Reqs, Finish(a)
  PROVE  /\ sv'[a] = Missing /\ req'[a] = Idle
         /\ \A b \in Reqs \ {a} : sv'[b] = sv[b] /\ req'[b] = req[b]
         /\ Local(req'[a], sv'[a]) /\ CopyMove(a)
         /\ req'[a].at = "idle" /\ req'[a].kind = "read"
  <1>1. sv'[a] = Missing /\ req'[a] = Idle
    BY DEF Finish, TypeOK
  <1>2. \A b \in Reqs \ {a} : sv'[b] = sv[b] /\ req'[b] = req[b]
    BY DEF Finish, TypeOK
  <1>3. Idle.at = "idle" /\ Idle.kind = "read"
    BY DEF Idle
  <1>4. Local(Idle, Missing)
    BY DEF Local, Idle, Missing, Updates, Pooled, Eligible, NoConfig
  <1> QED
    BY <1>1, <1>2, <1>3, <1>4 DEF CopyMove

LEMMA StoresEffect ==
  ASSUME TypeOK, NEW a \in Reqs, NEW s \in Docs, NEW ver, Apply(a, s, ver),
         Requires(a, ver), Pooled(s), req[a].kind # "save" => Stays(sv[a], s)
  PROVE  Stores(a)
  <1>1. /\ ver \in {0, doc.ver} /\ doc' = [s EXCEPT !.ver = commits + 1]
        /\ listed' <=> s.group # "none"
    BY DEF Apply, Commit
  <1>2. req[a].kind # "save" => sv[a].ver \in {0, doc.ver}
    BY <1>1 DEF Requires
  <1> QED
    BY <1>1, <1>2 DEF Stores

LEMMA SetSettingsSchedule ==
  ASSUME TypeOK, NEW a \in Reqs, NEW s \in Docs, NEW ver,
         NEW confirmed \in BOOLEAN, SetSettings(a, s, ver, confirmed),
         Requires(a, ver), Pooled(s), req[a].kind # "save" => Stays(sv[a], s)
  PROVE  /\ DocMove(a)
         /\ confirmed => doc' = [s EXCEPT !.ver = commits + 1]
         /\ Kept(a, s, confirmed).tok = s.tok /\ Pooled(Kept(a, s, confirmed))
         /\ Kept(a, s, confirmed).group = s.group
         /\ \/ Kept(a, s, confirmed) = doc'
            \/ /\ Kept(a, s, confirmed).ver = sv[a].ver
               /\ Stays(sv[a], s) => Stays(sv[a], Kept(a, s, confirmed))
  <1> DEFINE k == [s EXCEPT !.ver = sv[a].ver]
             d == [s EXCEPT !.ver = commits + 1]
  <1>1. /\ k.ver = sv[a].ver /\ k.tok = s.tok /\ k.group = s.group
        /\ Pooled(k) /\ (Stays(sv[a], s) => Stays(sv[a], k))
        /\ d.tok = s.tok /\ d.group = s.group /\ Pooled(d)
    BY DEF Stays, Pooled, Eligible, Docs
  <1>2. Kept(a, s, confirmed) = IF confirmed THEN doc' ELSE k
    BY DEF Kept
  <1>3. confirmed => Apply(a, s, ver)
    BY DEF SetSettings
  <1>4. Apply(a, s, ver) => doc' = d
    BY DEF Apply, Commit
  <1> HIDE DEF k, d
  <1>5. DocMove(a)
    <2>1. CASE Apply(a, s, ver)
      BY <2>1, StoresEffect DEF DocMove
    <2>2. CASE Refuse(ver)
      BY <2>2 DEF Refuse, store, DocMove
    <2> QED
      BY <2>1, <2>2 DEF SetSettings
  <1> QED
    BY <1>1, <1>2, <1>3, <1>4, <1>5 DEF d

(* A handler records an outcome and ends.                                   *)
LEMMA WriteAndFinishSchedule ==
  ASSUME TypeOK, PoolsInv, NEW a \in Reqs, NEW s, Alike(sv[a], s),
         WriteAndFinish(a, s), UNCHANGED <<vendor, ending>>, req[a].at # "purge"
  PROVE  ScheduleEffect(a)
  <1>1. PICK confirmed \in BOOLEAN : SetSettings(a, s, sv[a].ver, confirmed)
    BY DEF WriteAndFinish
  <1>2. s \in Docs /\ Pooled(s) /\ Stays(sv[a], s)
    BY AlikeStays DEF Alike, PoolsInv, Local
  <1>3. DocMove(a)
    BY <1>1, <1>2, SetSettingsSchedule DEF Requires
  <1>4. 0 \notin live' /\ (stopped => stopped') /\ (raced => raced') /\ deleted' = deleted
    BY DEF PoolsInv, vendor, ending
  <1>5. Finish(a)
    BY DEF WriteAndFinish
  <1> QED
    BY <1>3, <1>4, <1>5, FinishSchedule DEF ScheduleEffect, PlaceMove

(* A request ends, and nothing else changes but what is noted.              *)
LEMMA EndSchedule ==
  ASSUME TypeOK, PoolsInv, NEW a \in Reqs, Finish(a), UNCHANGED <<store, live>>,
         stopped => stopped', raced => raced',
         deleted' => deleted \/ req[a].at = "drop", req[a].at = "purge" => stopped'
  PROVE  ScheduleEffect(a)
  <1>1. DocMove(a)
    BY DEF DocMove, store
  <1> QED
    BY <1>1, FinishSchedule DEF ScheduleEffect, PlaceMove, PoolsInv

(* A step that moves a request.                                             *)
LEMMA MoveSchedule ==
  ASSUME TypeOK, PoolsInv, NEW a \in Reqs, NEW r,
         req' = [req EXCEPT ![a] = r], UNCHANGED <<store, ending, sv>>, 0 \notin live',
         Local(r, sv[a]), r.kind = req[a].kind, req[a].at # "purge",
         r.at \notin {"prefs", "again", "purge", "drop"} \/ (r.at = "again" /\ req[a].at = "prefs")
  PROVE  ScheduleEffect(a)
  <1>1. req'[a] = r /\ \A b \in Reqs \ {a} : req'[b] = req[b]
    BY DEF TypeOK
  <1>2. DocMove(a)
    BY DEF DocMove, store
  <1>3. CopyMove(a)
    BY DEF CopyMove, Stays
  <1> QED
    BY <1>1, <1>2, <1>3 DEF ScheduleEffect, PlaceMove, ending
-----------------------------------------------------------------------------
(* The effects of each action.                                              *)

LEMMA ReadSchedule ==
  ASSUME TypeOK, PoolsInv, NEW a \in Reqs, NEW kind, NEW ask, NEW place,
         Read(a, kind, ask, place), kind \in Updates => ask.link = "none",
         kind = "save" => ~deleted,
         place \notin {"again", "purge", "drop", "granted"},
         place = "prefs" => doc.ver # 0,
         place = "migrate" => kind \notin {"prefs", "delete"},
         doc.ver = 0 => doc = Missing
  PROVE  ScheduleEffect(a)
  <1>1. /\ req'[a].cred = doc.tok /\ req'[a].kind = kind /\ req'[a].ask = ask
        /\ req'[a].at = place /\ req[a].at = "idle"
        /\ \A b \in Reqs \ {a} : req'[b] = req[b]
    BY DEF Read, TypeOK
  <1>2. sv'[a] = doc /\ doc' = doc /\ \A b \in Reqs \ {a} : sv'[b] = sv[b]
    BY DEF Read, TypeOK, store
  <1>3. UNCHANGED <<doc, listed, live, deleted, stopped>>
    BY DEF Read, store, vendor
  <1>4. raced' <=> raced \/ (kind = "save" /\ \E d \in Reqs : req[d].at = "drop")
    BY DEF Read
  <1>5. Missing.group = "none"
    BY DEF Missing
  <1>6. Local(req'[a], sv'[a])
    BY <1>1, <1>2, <1>5 DEF Local, PoolsInv
  <1>7. PlaceMove(a)
    BY <1>1, <1>2, <1>3, <1>4 DEF PlaceMove, Gone
  <1> QED
    BY <1>1, <1>2, <1>3, <1>4, <1>6, <1>7 DEF ScheduleEffect, DocMove, CopyMove, PoolsInv

LEMMA EntryPlaces ==
  \A kind : /\ Entry(kind) \in {"guard", "save", "auth", "prefs", "unlist"}
            /\ kind \notin {"prefs", "delete"} => Entry(kind) \notin {"prefs"}
BY DEF Entry

LEMMA BeginSchedule ==
  ASSUME TypeOK, CopiesInv, PoolsInv, NEW a \in Reqs, Begin(a)
  PROVE  ScheduleEffect(a)
  <1>1. doc.ver = 0 => doc = Missing
    BY DEF CopiesInv, BlanksAreEmpty
  <1>2. NoAsk.link = "none"
    BY DEF NoAsk
  <1>3. \A kind, ask :
          /\ ReadMigrating(a, kind, ask)
          /\ kind \in Updates => ask.link = "none"
          /\ kind = "save" => ~deleted
          /\ kind \notin {"prefs", "delete"}
          => ScheduleEffect(a)
    BY <1>1, EntryPlaces, ReadSchedule DEF ReadMigrating
  <1>4. CASE BeginSweep(a)
    BY <1>2, <1>3, <1>4 DEF BeginSweep
  <1>5. CASE BeginManual(a)
    BY <1>2, <1>3, <1>5 DEF BeginManual
  <1>6. CASE BeginSave(a)
    BY <1>3, <1>6 DEF BeginSave, Updates
  <1>7. CASE BeginStage(a)
    BY <1>2, <1>3, <1>7 DEF BeginStage
  <1>8. CASE BeginRead(a)
    BY <1>1, <1>8, ReadSchedule DEF BeginRead, Updates
  <1>9. CASE BeginPrefs(a)
    BY <1>1, <1>9, ReadSchedule DEF BeginPrefs, Updates
  <1>10. CASE BeginDelete(a)
    BY <1>1, <1>10, ReadSchedule DEF BeginDelete, Updates
  <1> QED
    BY <1>4, <1>5, <1>6, <1>7, <1>8, <1>9, <1>10 DEF Begin

LEMMA MigrateSchedule ==
  ASSUME TypeOK, CopiesInv, PoolsInv, NEW a \in Reqs, Migrate(a)
  PROVE  ScheduleEffect(a)
  <1> DEFINE s == Migrated(sv[a])
             q == req[a]
             n == [req[a] EXCEPT !.at = Entry(req[a].kind)]
  <1>1. sv[a] \in Docs /\ q \in ReqStates /\ q.at = "migrate"
    BY DEF Migrate, TypeOK
  <1>2. s \in Docs /\ Pooled(s) /\ Stays(sv[a], s) /\ s.tok = sv[a].tok
    BY <1>1, MigratedType, MigratedPooled
  <1>3. sv[a].tok = q.cred /\ q.kind \notin {"prefs", "delete"}
        /\ (q.kind \in Updates => q.ask.link = "none")
        /\ (sv[a].ver = 0 => sv[a].group = "none")
    BY <1>1 DEF PoolsInv, Local
  <1> HIDE DEF s
  <1>4. PICK confirmed \in BOOLEAN :
          /\ SetSettings(a, s, sv[a].ver, confirmed)
          /\ IF req[a].kind = "read"
             THEN Finish(a)
             ELSE /\ sv' = [sv EXCEPT ![a] = Kept(a, s, confirmed)]
                  /\ Goto(a, Entry(req[a].kind))
    BY DEF Migrate, s
  <1> DEFINE k == Kept(a, s, confirmed)
  <1>5. /\ DocMove(a) /\ k.tok = s.tok /\ Pooled(k) /\ k.group = s.group
        /\ k = doc' \/ (k.ver = sv[a].ver /\ Stays(sv[a], k))
        /\ confirmed => doc' = [s EXCEPT !.ver = commits + 1]
    BY <1>2, <1>4, SetSettingsSchedule DEF Requires
  <1>6. UNCHANGED <<live, deleted, stopped, raced>> /\ 0 \notin live'
    BY DEF Migrate, vendor, ending, PoolsInv
  <1>7. CASE req[a].kind = "read"
    BY <1>1, <1>4, <1>5, <1>6, <1>7, FinishSchedule DEF ScheduleEffect, PlaceMove
  <1>8. CASE req[a].kind # "read"
    <2>1. sv'[a] = k /\ \A b \in Reqs \ {a} : sv'[b] = sv[b]
      BY <1>4, <1>8 DEF TypeOK
    <2>2. req'[a] = n /\ \A b \in Reqs \ {a} : req'[b] = req[b]
      BY <1>4, <1>8 DEF TypeOK, Goto
    <2>3. /\ n.cred = q.cred /\ n.kind = q.kind /\ n.ask = q.ask
          /\ n.at \in {"guard", "save", "auth", "unlist"}
      <3>1. Entry(q.kind) \in {"guard", "save", "auth", "unlist"}
        BY <1>3, EntryPlaces
      <3> QED
        BY <1>1, <3>1 DEF ReqStates
    <2>4. k.ver = 0 => k.group = "none"
      <3>1. ~confirmed => k.ver = sv[a].ver
        BY <1>2 DEF Kept, Docs
      <3>2. confirmed => k.ver = commits + 1 /\ commits \in Nat
        BY <1>2, <1>5 DEF Kept, Docs, TypeOK
      <3>3. sv[a].ver = 0 => sv[a].group = "none" /\ sv[a].cfg = NoConfig
        BY <1>3 DEF CopiesInv, BlanksAreEmpty, Blank
      <3>4. sv[a].ver = 0 => s.group = "none"
        BY <1>2, <3>3 DEF Stays
      <3> QED
        BY <1>5, <3>1, <3>2, <3>4
    <2> HIDE DEF k, n
    <2>5. Local(n, k)
      BY <1>2, <1>3, <1>5, <2>3, <2>4 DEF Local
    <2>6. CopyMove(a)
      BY <1>5, <2>1 DEF CopyMove
    <2>7. PlaceMove(a)
      BY <1>1, <1>6, <2>2, <2>3 DEF PlaceMove
    <2> QED
      BY <1>5, <1>6, <2>1, <2>2, <2>5, <2>6, <2>7 DEF ScheduleEffect
  <1> QED
    BY <1>7, <1>8

LEMMA StartSchedule ==
  ASSUME TypeOK, CopiesInv, PoolsInv, NEW a \in Reqs,
         StartUpdate(a) \/ SkipUpdate(a) \/ StartSave(a) \/ RejectSave(a)
  PROVE  ScheduleEffect(a)
  <1>1. UNCHANGED <<store, live, ending>> /\ 0 \notin live'
    BY DEF StartUpdate, SkipUpdate, StartSave, RejectSave, vendor, PoolsInv
  <1>2. req[a] \in ReqStates /\ req[a].at \in {"guard", "save"}
    BY DEF StartUpdate, SkipUpdate, StartSave, RejectSave, TypeOK
  <1>3. \/ Finish(a)
        \/ /\ UNCHANGED sv
           /\ \/ Goto(a, "write")
              \/ req' = [req EXCEPT ![a].at = "auth", ![a].began = now]
    BY DEF StartUpdate, SkipUpdate, StartSave, RejectSave
  <1>4. CASE Finish(a)
    BY <1>1, <1>2, <1>4, EndSchedule DEF ending
  <1>5. CASE UNCHANGED sv /\ ~Finish(a)
    <2> DEFINE w == [req[a] EXCEPT !.at = "write"]
               u == [req[a] EXCEPT !.at = "auth", !.began = now]
    <2>1. req' = [req EXCEPT ![a] = w] \/ req' = [req EXCEPT ![a] = u]
      BY <1>3, <1>5 DEF Goto, TypeOK
    <2>2. /\ w.at = "write" /\ w.kind = req[a].kind /\ w.cred = req[a].cred /\ w.ask = req[a].ask
          /\ u.at = "auth" /\ u.kind = req[a].kind /\ u.cred = req[a].cred /\ u.ask = req[a].ask
      BY <1>2 DEF ReqStates
    <2> HIDE DEF w, u
    <2>3. Local(w, sv[a]) /\ Local(u, sv[a])
      BY <1>2, <2>2 DEF Local, PoolsInv
    <2> QED
      BY <1>1, <1>2, <1>5, <2>1, <2>2, <2>3, MoveSchedule
  <1> QED
    BY <1>3, <1>4, <1>5

LEMMA AuthenticateSchedule ==
  ASSUME TypeOK, CopiesInv, PoolsInv, NEW a \in Reqs, Authenticate(a)
  PROVE  ScheduleEffect(a)
  <1>1. UNCHANGED <<store, sv, ending>>
    BY DEF Authenticate, Refresh, UseAccessToken, RejectStored,
       ExchangeCode, RejectCode, AuthenticateStage
  <1>2. req[a] \in ReqStates /\ issued \in Nat /\ req[a].at = "auth"
    BY DEF TypeOK, Authenticate, Refresh, UseAccessToken, RejectStored,
       ExchangeCode, RejectCode, AuthenticateStage, UsesStored
  <1>3. 0 \notin live'
    <2>1. live' \subseteq live \union {issued + 1}
      BY DEF Authenticate, Refresh, UseAccessToken, RejectStored,
         ExchangeCode, RejectCode, AuthenticateStage
    <2> QED
      BY <1>2, <2>1 DEF PoolsInv
  (* Who brings no credentials and has none is not granted any.             *)
  <1>4. PICK cred :
          /\ Granted(a, cred) \/ Denied(a, cred)
          /\ Granted(a, cred) /\ req[a].kind \in Updates /\ req[a].cred = 0 => cred = 0
    <2>1. req[a].kind \in Updates => req[a].ask.link = "none"
      BY DEF PoolsInv, Local
    <2>2. CASE Refresh(a)
      BY <2>2 DEF Refresh, Verify, PoolsInv
    <2>3. CASE UseAccessToken(a)
      BY <2>3 DEF UseAccessToken, Verify
    <2>4. CASE RejectStored(a)
      BY <2>4 DEF RejectStored
    <2>5. CASE ExchangeCode(a)
      BY <2>1, <2>5 DEF ExchangeCode, Verify
    <2>6. CASE RejectCode(a)
      BY <2>6 DEF RejectCode
    <2>7. CASE AuthenticateStage(a)
      BY <2>7 DEF AuthenticateStage, Updates
    <2> QED
      BY <2>2, <2>3, <2>4, <2>5, <2>6, <2>7 DEF Authenticate
  <1> DEFINE g == [req[a] EXCEPT !.at = "granted", !.cred = cred]
             d == [req[a] EXCEPT !.at = "denied", !.cred = cred]
  <1>5. /\ Granted(a, cred) => req' = [req EXCEPT ![a] = g]
        /\ Denied(a, cred) => req' = [req EXCEPT ![a] = d]
    BY DEF Granted, Denied, TypeOK
  <1>6. /\ g.at = "granted" /\ g.kind = req[a].kind /\ g.cred = cred /\ g.ask = req[a].ask
        /\ d.at = "denied" /\ d.kind = req[a].kind /\ d.cred = cred /\ d.ask = req[a].ask
    BY <1>2 DEF ReqStates
  <1> HIDE DEF g, d
  <1>7. Local(d, sv[a])
    BY <1>2, <1>6 DEF Local, PoolsInv
  <1>8. Granted(a, cred) => Local(g, sv[a])
    BY <1>2, <1>4, <1>6 DEF Local, PoolsInv
  <1>9. CASE Granted(a, cred)
    BY <1>1, <1>2, <1>3, <1>5, <1>6, <1>8, <1>9, MoveSchedule
  <1>10. CASE Denied(a, cred)
    BY <1>1, <1>2, <1>3, <1>5, <1>6, <1>7, <1>10, MoveSchedule
  <1> QED
    BY <1>4, <1>9, <1>10

(* The token that is stored is of a site that had one: its pool stays.      *)
LEMMA AfterGrantPooled ==
  ASSUME TypeOK, NEW a \in Reqs, Pooled(sv[a]), sv[a].tok = 0 => req[a].cred = 0
  PROVE  LET s == AfterGrant(a) IN Pooled(s) /\ Stays(sv[a], s) /\ s.group = sv[a].group
  <1> DEFINE c == IF sv[a].fails > 0
                  THEN [sv[a] EXCEPT !.fails = 0, !.last = now]
                  ELSE sv[a]
             t == [c EXCEPT !.tok = req[a].cred]
             u == [t EXCEPT !.setFails = 0]
  <1>1. sv[a] \in Docs /\ now \in Nat /\ req[a].cred \in Nat
    BY DEF TypeOK, ReqStates
  <1>2. Alike(sv[a], c)
    BY <1>1, CountersAlike DEF Alike
  <1>3. AfterGrant(a) = IF req[a].cred # sv[a].tok
                        THEN [c EXCEPT !.tok = req[a].cred, !.setFails = 0] ELSE c
    BY DEF AfterGrant
  <1> HIDE DEF c
  <1>4. [c EXCEPT !.tok = req[a].cred, !.setFails = 0] = u
    BY <1>2 DEF Alike, Docs
  <1>5. /\ t.cfg = c.cfg /\ t.group = c.group /\ t.current = c.current /\ t.tok = req[a].cred
        /\ u.cfg = t.cfg /\ u.group = t.group /\ u.current = t.current /\ u.tok = t.tok
    BY <1>1, <1>2 DEF Alike, Docs
  <1> HIDE DEF t, u
  <1>6. Pooled(u) /\ Stays(sv[a], u) /\ u.group = sv[a].group
    BY <1>2, <1>5 DEF Pooled, Stays, Eligible, Alike
  <1>7. Pooled(c) /\ Stays(sv[a], c) /\ c.group = sv[a].group
    BY <1>2, AlikeStays DEF Alike
  <1> QED
    BY <1>3, <1>4, <1>6, <1>7

LEMMA RecordSchedule ==
  ASSUME TypeOK, CopiesInv, PoolsInv, NEW a \in Reqs,
         RecordGrant(a) \/ RecordDenial(a) \/ StageDenial(a) \/ StageGrant(a)
  PROVE  ScheduleEffect(a)
  <1>1. /\ sv[a] \in Docs /\ now \in Nat /\ req[a] \in ReqStates
        /\ req[a].at \in {"granted", "denied"} /\ Pooled(sv[a])
    BY DEF TypeOK, RecordGrant, RecordDenial, StageDenial, StageGrant, PoolsInv, Local
  <1>2. UNCHANGED <<vendor, ending, live>> /\ 0 \notin live'
    BY DEF RecordGrant, RecordDenial, StageDenial, StageGrant, vendor, PoolsInv
  <1>3. CASE RecordGrant(a)
    <2> DEFINE s == AfterGrant(a)
               r == [req[a] EXCEPT !.at = "modes"]
    <2>1. /\ req[a].kind \in Updates /\ (sv[a].tok = 0 => req[a].cred = 0)
          /\ req[a].ask.link = "none" /\ (sv[a].ver = 0 => sv[a].group = "none")
      BY <1>3 DEF RecordGrant, PoolsInv, Local
    <2>2. s \in Docs /\ Pooled(s) /\ Stays(sv[a], s) /\ s.group = sv[a].group
      BY <1>1, <2>1, AfterGrantPooled, AfterGrantType
    <2>3. req' = [req EXCEPT ![a] = r]
      BY <1>3 DEF RecordGrant, Goto, TypeOK
    <2>4. /\ r.at = "modes" /\ r.kind = req[a].kind /\ r.cred = req[a].cred
          /\ r.ask = req[a].ask
      BY <1>1 DEF ReqStates
    <2> HIDE DEF s, r
    <2>5. CASE s = sv[a]
      <3>1. UNCHANGED <<store, sv>>
        BY <1>3, <2>5 DEF RecordGrant, s
      <3>2. Local(r, sv[a])
        BY <1>1, <2>1, <2>4 DEF Local
      <3> QED
        BY <1>1, <1>2, <2>3, <2>4, <3>1, <3>2, MoveSchedule
    <2>6. CASE s # sv[a]
      <3>1. PICK confirmed \in BOOLEAN :
              /\ SetSettings(a, s, sv[a].ver, confirmed)
              /\ sv' = [sv EXCEPT ![a] = Kept(a, s, confirmed)]
        BY <1>3, <2>6 DEF RecordGrant, s
      <3> DEFINE k == Kept(a, s, confirmed)
      <3>2. /\ DocMove(a) /\ Pooled(k) /\ k.group = s.group
            /\ k = doc' \/ (k.ver = sv[a].ver /\ Stays(sv[a], k))
            /\ confirmed => doc' = [s EXCEPT !.ver = commits + 1]
        BY <2>2, <3>1, SetSettingsSchedule DEF Requires
      <3>3. sv'[a] = k /\ req'[a] = r
            /\ \A b \in Reqs \ {a} : sv'[b] = sv[b] /\ req'[b] = req[b]
        BY <2>3, <3>1 DEF TypeOK
      <3>4. k.ver = 0 => k.group = "none"
        <4>1. ~confirmed => k.ver = sv[a].ver
          BY <2>2 DEF Kept, Docs
        <4>2. confirmed => k.ver = commits + 1 /\ commits \in Nat
          BY <2>2, <3>2 DEF Kept, Docs, TypeOK
        <4> QED
          BY <2>1, <2>2, <3>2, <4>1, <4>2
      <3> HIDE DEF k
      <3>5. Local(r, k)
        BY <2>1, <2>4, <3>2, <3>4 DEF Local
      <3>6. CopyMove(a)
        BY <3>2, <3>3 DEF CopyMove
      <3>7. PlaceMove(a)
        BY <1>1, <1>2, <2>1, <2>4, <3>3 DEF PlaceMove, ending
      <3> QED
        BY <1>2, <3>2, <3>3, <3>5, <3>6, <3>7 DEF ScheduleEffect, ending
    <2> QED
      BY <2>5, <2>6
  <1>4. CASE RecordDenial(a)
    BY <1>1, <1>2, <1>4, CountersAlike, WriteAndFinishSchedule DEF RecordDenial
  <1>5. CASE StageDenial(a)
    BY <1>1, <1>2, <1>5, CountersAlike, WriteAndFinishSchedule DEF StageDenial
  <1>6. CASE StageGrant(a)
    <2>1. CASE UNCHANGED store /\ Finish(a)
      BY <1>1, <1>2, <2>1, EndSchedule DEF ending
    <2>2. CASE WriteAndFinish(a, Cleared(sv[a]))
      BY <1>1, <1>2, <2>2, CountersAlike, WriteAndFinishSchedule
    <2> QED
      BY <1>6, <2>1, <2>2 DEF StageGrant
  <1> QED
    BY <1>3, <1>4, <1>5, <1>6

LEMMA ModesSchedule ==
  ASSUME TypeOK, CopiesInv, PoolsInv, NEW a \in Reqs,
         ModesUnauthorized(a) \/ ModesRestored(a) \/ LeaveModes(a)
  PROVE  ScheduleEffect(a)
  <1>1. sv[a] \in Docs /\ now \in Nat /\ req[a].at = "modes"
    BY DEF TypeOK, ModesUnauthorized, ModesRestored, LeaveModes, MayCommand
  <1>2. UNCHANGED <<vendor, ending, live>>
    BY DEF ModesUnauthorized, ModesRestored, LeaveModes, vendor
  <1>3. CASE ModesUnauthorized(a)
    BY <1>1, <1>2, <1>3, CountersAlike, WriteAndFinishSchedule DEF ModesUnauthorized
  <1>4. CASE ModesRestored(a)
    BY <1>1, <1>2, <1>4, CountersAlike, WriteAndFinishSchedule DEF ModesRestored
  <1>5. CASE LeaveModes(a)
    BY <1>1, <1>2, <1>5, EndSchedule DEF LeaveModes, ending
  <1> QED
    BY <1>3, <1>4, <1>5

(* A save puts a site that is set up in the pool of its utility.            *)
LEMMA NewSettingsPooled ==
  ASSUME TypeOK, NEW a \in Reqs
  PROVE  Pooled(NewSettings(a))
  <1> DEFINE c == Cleared(sv[a])
             v == [c EXCEPT !.tok = req[a].cred]
             b == IF req[a].at = "granted" THEN v ELSE sv[a]
             s == [b EXCEPT !.cfg = req[a].ask.cfg]
  <1>1. sv[a] \in Docs /\ now \in Nat /\ req[a].cred \in Nat /\ req[a].ask.cfg \in ConfigSet
    BY DEF TypeOK, ReqStates, Asks
  <1>2. c \in Docs
    BY <1>1, ClearedType
  <1> HIDE DEF c
  <1>3. v \in Docs
    BY <1>1, <1>2 DEF Docs
  <1> HIDE DEF v
  <1>4. b \in Docs
    BY <1>1, <1>3
  <1> HIDE DEF b
  <1>5. s \in Docs
    BY <1>1, <1>4 DEF Docs
  <1>6. NewSettings(a) = IF Eligible(s) THEN Grouped(s) ELSE s
    BY DEF NewSettings, s, b, v, c
  <1> HIDE DEF s
  <1>7. Grouped(s).group = s.cfg.utility /\ Grouped(s).cfg = s.cfg
    BY <1>5 DEF Grouped, Docs
  <1> QED
    BY <1>6, <1>7 DEF Pooled

LEMMA NewSettingsToken ==
  ASSUME TypeOK, NEW a \in Reqs
  PROVE  NewSettings(a).tok = IF req[a].at = "granted" THEN req[a].cred ELSE sv[a].tok
  <1> DEFINE c == Cleared(sv[a])
             v == [c EXCEPT !.tok = req[a].cred]
             b == IF req[a].at = "granted" THEN v ELSE sv[a]
             s == [b EXCEPT !.cfg = req[a].ask.cfg]
  <1>1. sv[a] \in Docs /\ now \in Nat /\ req[a].cred \in Nat /\ req[a].ask.cfg \in ConfigSet
    BY DEF TypeOK, ReqStates, Asks
  <1>2. c \in Docs
    BY <1>1, ClearedType
  <1> HIDE DEF c
  <1>3. v \in Docs /\ v.tok = req[a].cred
    BY <1>1, <1>2 DEF Docs
  <1> HIDE DEF v
  <1>4. b \in Docs /\ b.tok = IF req[a].at = "granted" THEN req[a].cred ELSE sv[a].tok
    BY <1>1, <1>3
  <1> HIDE DEF b
  <1>5. s \in Docs /\ s.tok = b.tok
    BY <1>1, <1>4 DEF Docs
  <1>6. NewSettings(a) = IF Eligible(s) THEN Grouped(s) ELSE s
    BY DEF NewSettings, s, b, v, c
  <1> HIDE DEF s
  <1>7. Grouped(s).tok = s.tok
    BY <1>5 DEF Grouped, Docs
  <1> QED
    BY <1>4, <1>5, <1>6, <1>7

LEMMA SaveSchedule ==
  ASSUME TypeOK, CopiesInv, PoolsInv, NEW a \in Reqs, SaveDenial(a) \/ SaveWrite(a)
  PROVE  ScheduleEffect(a)
  <1>1. /\ sv[a] \in Docs /\ now \in Nat /\ req[a] \in ReqStates
        /\ req[a].kind = "save" /\ req[a].at \in {"denied", "write", "granted"}
        /\ Pooled(sv[a]) /\ commits \in Nat
    BY DEF TypeOK, SaveDenial, SaveWrite, PoolsInv, Local
  <1>2. UNCHANGED <<live, deleted, stopped, raced>> /\ 0 \notin live'
    BY DEF SaveDenial, SaveWrite, vendor, ending, PoolsInv
  <1>3. CASE SaveDenial(a)
    <2>1. PICK confirmed \in BOOLEAN : SetSettings(a, Failed(sv[a]), 0, confirmed)
      BY <1>3 DEF SaveDenial
    <2>2. Failed(sv[a]) \in Docs /\ Pooled(Failed(sv[a]))
      BY <1>1, CountersAlike, AlikeStays DEF Alike
    <2>3. DocMove(a)
      BY <1>1, <2>1, <2>2, SetSettingsSchedule DEF Requires
    <2>4. Finish(a)
      BY <1>3 DEF SaveDenial
    <2> QED
      BY <1>1, <1>2, <2>3, <2>4, FinishSchedule DEF ScheduleEffect, PlaceMove
  <1>4. CASE SaveWrite(a)
    <2> DEFINE s == NewSettings(a)
               r == [req[a] EXCEPT !.at = "guard", !.kind = "revert", !.ask = NoAsk]
    <2>1. PICK confirmed \in BOOLEAN :
            /\ SetSettings(a, s, 0, confirmed)
            /\ IF confirmed /\ Reverts(a)
               THEN req' = [req EXCEPT ![a] = r] /\ sv' = [sv EXCEPT ![a] = doc']
               ELSE Finish(a)
      BY <1>4 DEF SaveWrite
    <2>2. s \in Docs /\ Pooled(s)
      BY NewSettingsPooled, NewSettingsType
    <2>3. /\ DocMove(a)
          /\ confirmed => doc' = [s EXCEPT !.ver = commits + 1]
      BY <1>1, <2>1, <2>2, SetSettingsSchedule DEF Requires
    <2>4. CASE Finish(a)
      BY <1>1, <1>2, <2>3, <2>4, FinishSchedule DEF ScheduleEffect, PlaceMove
    <2>5. CASE confirmed /\ ~Finish(a)
      <3>1. s.tok = req[a].cred
        <4>1. req[a].at = "granted" \/ sv[a].tok = req[a].cred
          BY <1>1, <1>4 DEF SaveWrite, PoolsInv, Local
        <4>2. s.tok = IF req[a].at = "granted" THEN req[a].cred ELSE sv[a].tok
          BY NewSettingsToken DEF s
        <4> QED
          BY <4>1, <4>2
      <3>2. r.at = "guard" /\ r.kind = "revert" /\ r.ask = NoAsk /\ r.cred = req[a].cred
        BY <1>1 DEF ReqStates
      <3>3. NoAsk.link = "none"
        BY DEF NoAsk
      <3> HIDE DEF s, r
      <3>4. doc'.ver = commits + 1 /\ doc'.tok = s.tok /\ Pooled(doc')
        BY <2>2, <2>3, <2>5 DEF Docs, Pooled, Eligible
      <3>5. /\ sv'[a] = doc' /\ req'[a] = r
            /\ \A b \in Reqs \ {a} : sv'[b] = sv[b] /\ req'[b] = req[b]
        BY <2>1, <2>5 DEF TypeOK
      <3>6. doc'.ver # 0
        BY <1>1, <3>4
      <3>7. Local(r, doc')
        BY <3>1, <3>2, <3>3, <3>4, <3>6 DEF Local
      <3>8. PlaceMove(a)
        BY <1>1, <1>2, <3>2, <3>5 DEF PlaceMove
      <3> QED
        BY <1>2, <2>3, <3>5, <3>7, <3>8 DEF ScheduleEffect, CopyMove
    <2> QED
      BY <2>1, <2>4, <2>5
  <1> QED
    BY <1>3, <1>4

LEMMA PrefsSchedule ==
  ASSUME TypeOK, CopiesInv, PoolsInv, NEW a \in Reqs, WritePrefs(a) \/ ReadAgain(a)
  PROVE  ScheduleEffect(a)
  <1>1. /\ sv[a] \in Docs /\ req[a] \in ReqStates /\ req[a].at \in {"prefs", "again"}
        /\ Pooled(sv[a]) /\ sv[a].ver # 0 /\ (req[a].kind \in Updates => req[a].ask.link = "none")
        /\ (sv[a].ver = doc.ver => sv[a].group = doc.group)
    BY DEF TypeOK, WritePrefs, ReadAgain, PoolsInv, Local
  <1>2. UNCHANGED <<live, ending>> /\ 0 \notin live'
    BY DEF WritePrefs, ReadAgain, vendor, PoolsInv
  <1>3. CASE WritePrefs(a)
    <2> DEFINE s == [sv[a] EXCEPT !.notif[req[a].ask.user] = req[a].ask.pref]
               r == [req[a] EXCEPT !.at = "again", !.tries = @ + 1]
    <2>1. Alike(sv[a], s)
      <3>1. s \in Docs
        BY PrefsDocType
      <3> QED
        BY <1>1, <3>1 DEF Alike, Docs
    <2>2. (Commit(a, s, sv[a].ver) /\ UNCHANGED listed) \/ UNCHANGED store
      BY <1>3 DEF WritePrefs, Refuse
    <2>3. Finish(a) \/ (req' = [req EXCEPT ![a] = r] /\ UNCHANGED sv)
      BY <1>3 DEF WritePrefs, TypeOK
    <2>4. /\ r.at = "again" /\ r.kind = req[a].kind /\ r.cred = req[a].cred
          /\ r.ask = req[a].ask
      BY <1>1 DEF ReqStates
    <2> HIDE DEF s, r
    <2>5. Pooled(s) /\ Stays(sv[a], s) /\ s \in Docs /\ s.group = sv[a].group
      BY <1>1, <2>1, AlikeStays DEF Alike
    <2>6. DocMove(a)
      <3>1. CASE Commit(a, s, sv[a].ver) /\ UNCHANGED listed
        <4>1. sv[a].ver = doc.ver /\ doc' = [s EXCEPT !.ver = commits + 1]
          BY <1>1, <3>1 DEF Commit
        <4> QED
          BY <1>1, <2>5, <3>1, <4>1 DEF DocMove, Stores
      <3>2. CASE UNCHANGED store
        BY <3>2 DEF DocMove, store
      <3> QED
        BY <2>2, <3>1, <3>2
    <2>7. CASE Finish(a)
      BY <1>1, <1>2, <2>6, <2>7, FinishSchedule DEF ScheduleEffect, PlaceMove, ending
    <2>8. CASE req' = [req EXCEPT ![a] = r] /\ UNCHANGED sv
      <3>1. req'[a] = r /\ \A b \in Reqs \ {a} : req'[b] = req[b]
        BY <2>8 DEF TypeOK
      <3>2. Local(r, sv[a])
        BY <1>1, <2>4 DEF Local
      <3>3. CopyMove(a)
        BY <2>8 DEF CopyMove, Stays
      <3>4. PlaceMove(a)
        BY <1>1, <1>2, <2>4, <2>8, <3>1 DEF PlaceMove, ending
      <3> QED
        BY <1>2, <2>6, <2>8, <3>1, <3>2, <3>3, <3>4 DEF ScheduleEffect, ending
    <2> QED
      BY <2>3, <2>7, <2>8
  <1>4. CASE ReadAgain(a)
    <2>1. UNCHANGED <<store, live, ending>>
      BY <1>4 DEF ReadAgain, vendor
    <2>2. CASE Finish(a)
      BY <1>1, <2>1, <2>2, EndSchedule DEF ending
    <2>3. CASE Goto(a, "prefs") /\ sv' = [sv EXCEPT ![a] = doc] /\ ~Finish(a)
      <3>1. /\ req'[a].at = "prefs" /\ req'[a].kind = req[a].kind
            /\ req'[a].ask = req[a].ask
            /\ \A b \in Reqs \ {a} : req'[b] = req[b]
        BY <1>1, <2>3 DEF Goto, TypeOK, ReqStates
      <3>2. doc' = doc /\ sv'[a] = doc' /\ \A b \in Reqs \ {a} : sv'[b] = sv[b]
        BY <2>1, <2>3 DEF TypeOK, store
      <3>3. doc.ver # 0
        BY <1>4, <2>3 DEF ReadAgain
      <3>4. Local(req'[a], sv'[a])
        BY <1>1, <3>1, <3>2, <3>3 DEF Local, PoolsInv
      <3>5. PlaceMove(a)
        BY <1>1, <1>2, <3>1, <3>2 DEF PlaceMove, ending
      <3> QED
        BY <1>2, <2>1, <3>1, <3>2, <3>4, <3>5 DEF ScheduleEffect, DocMove, CopyMove, store, ending
    <2> QED
      BY <1>4, <2>2, <2>3 DEF ReadAgain
  <1> QED
    BY <1>3, <1>4

LEMMA DeleteSchedule ==
  ASSUME TypeOK, CopiesInv, PoolsInv, NEW a \in Reqs,
         Unlist(a) \/ Purge(a) \/ DropSite(a) \/ AbandonDelete(a)
  PROVE  ScheduleEffect(a)
  <1>1. req[a] \in ReqStates /\ 0 \notin live'
    BY DEF TypeOK, Unlist, Purge, DropSite, AbandonDelete, vendor, PoolsInv
  <1>2. CASE Unlist(a)
    <2> DEFINE r == [req[a] EXCEPT !.at = "purge"]
    <2>1. req' = [req EXCEPT ![a] = r] /\ UNCHANGED <<sv, ending>> /\ req[a].at = "unlist"
      BY <1>2 DEF Unlist, Goto, TypeOK
    <2>2. r.at = "purge" /\ r.kind = req[a].kind /\ r.ask = req[a].ask
      BY <1>1 DEF ReqStates
    <2> HIDE DEF r
    <2>3. req'[a] = r /\ \A b \in Reqs \ {a} : req'[b] = req[b]
      BY <2>1 DEF TypeOK
    <2>4. DocMove(a)
      BY <1>2, <2>2, <2>3 DEF Unlist, DocMove, Unlists, store
    <2>5. Local(r, sv[a])
      BY <2>1, <2>2 DEF Local, PoolsInv
    <2>6. CopyMove(a) /\ PlaceMove(a)
      BY <2>1, <2>2, <2>3 DEF CopyMove, Stays, PlaceMove, ending
    <2> QED
      BY <1>1, <2>1, <2>3, <2>4, <2>5, <2>6 DEF ScheduleEffect, ending
  <1>3. CASE Purge(a)
    <2> DEFINE r == [req[a] EXCEPT !.at = "drop"]
    <2>1. req' = [req EXCEPT ![a] = r] /\ UNCHANGED <<sv, deleted, stopped>> /\ req[a].at = "purge"
      BY <1>3 DEF Purge, Goto, TypeOK
    <2>2. r.at = "drop" /\ r.kind = req[a].kind /\ r.ask = req[a].ask
      BY <1>1 DEF ReqStates
    <2> HIDE DEF r
    <2>3. req'[a] = r /\ \A b \in Reqs \ {a} : req'[b] = req[b]
      BY <2>1 DEF TypeOK
    <2>4. raced' <=> raced \/ \E b \in Reqs : req[b].kind = "save"
      BY <1>3 DEF Purge
    <2>5. Removes(a)
      <3>1. ~raced' => \A b \in Reqs : req'[b].kind # "save"
        BY <2>2, <2>3, <2>4
      <3> QED
        BY <1>3, <2>1, <3>1 DEF Purge, Removes
    <2>6. Local(r, sv[a])
      BY <2>1, <2>2 DEF Local, PoolsInv
    <2>7. CopyMove(a) /\ PlaceMove(a)
      BY <2>1, <2>2, <2>3, <2>5 DEF CopyMove, Stays, PlaceMove
    <2> QED
      BY <1>1, <2>1, <2>3, <2>4, <2>5, <2>6, <2>7 DEF ScheduleEffect, DocMove
  <1>4. CASE DropSite(a)
    BY <1>4, EndSchedule DEF DropSite, vendor
  <1>5. CASE AbandonDelete(a)
    BY <1>5, EndSchedule DEF AbandonDelete, Ends, vendor
  <1> QED
    BY <1>2, <1>3, <1>4, <1>5

LEMMA StepSchedule ==
  ASSUME TypeOK, CopiesInv, PoolsInv, NEW a \in Reqs, Step(a)
  PROVE  ScheduleEffect(a)
  <1>1. CASE Begin(a)
    BY <1>1, BeginSchedule
  <1>2. CASE Migrate(a)
    BY <1>2, MigrateSchedule
  <1>3. CASE StartUpdate(a) \/ SkipUpdate(a) \/ StartSave(a) \/ RejectSave(a)
    BY <1>3, StartSchedule
  <1>4. CASE Authenticate(a)
    BY <1>4, AuthenticateSchedule
  <1>5. CASE Conclude(a)
    BY <1>5, RecordSchedule, ModesSchedule, SaveSchedule, PrefsSchedule, DeleteSchedule
    DEF Conclude
  <1>6. CASE Crash(a)
    BY <1>6, EndSchedule DEF Crash, Ends, vendor
  <1> QED
    BY <1>1, <1>2, <1>3, <1>4, <1>5, <1>6 DEF Step

LEMMA ScheduleInit == ASSUME Init PROVE PoolsInv
  <1>1. \A a \in Reqs : sv[a] = Missing /\ req[a] = Idle
    BY DEF Init
  <1>2. Missing.group = "none" /\ Idle.at = "idle" /\ Local(Idle, Missing)
    BY DEF Local, Idle, Missing, Updates, Pooled, Eligible, NoConfig
  <1>3. Pooled(doc)
    <2>1. \A cfg \in Configs : Stored(cfg) \in Docs /\ Stored(cfg).cfg = cfg
      <3>1. \A cfg \in Configs : cfg \in ConfigSet
        BY ConfigsAssumption
      <3> QED
        BY <3>1, StoredType DEF Stored, Missing
    <2>2. CASE doc = Missing
      BY <2>2 DEF Missing, Pooled
    <2>3. CASE \E cfg \in Configs : doc = Grouped(Stored(cfg))
      BY <2>1, <2>3 DEF Grouped, Pooled, Docs
    <2>4. CASE \E cfg \in Configs, g \in Utilities :
                 doc = [Stored(cfg) EXCEPT !.current = FALSE, !.group = g]
      <3>1. PICK cfg \in Configs, g \in Utilities :
              doc = [Stored(cfg) EXCEPT !.current = FALSE, !.group = g]
        BY <2>4
      <3>2. doc.current = FALSE
        BY <2>1, <3>1 DEF Docs
      <3> QED
        BY <3>2 DEF Pooled
    <2> QED
      BY <2>2, <2>3, <2>4 DEF Init, InitialDoc
  <1>4. 0 \notin live
    <2>1. doc.tok \in Nat
      BY InitType DEF TypeOK, Docs
    <2> QED
      BY <2>1 DEF Init
  <1>5. listed <=> doc.group # "none"
    BY DEF Init
  <1>6. ~Gone
    BY <1>1, <1>2 DEF Init, Gone
  <1> QED
    BY <1>1, <1>2, <1>3, <1>4, <1>5, <1>6 DEF PoolsInv

LEMMA ScheduleStep ==
  ASSUME TypeOK, CopiesInv, PoolsInv, [Next]_vars
  PROVE  PoolsInv'
  <1>1. TypeOK'
    BY NextType
  <1>2. ASSUME NEW a \in Reqs, Step(a) PROVE PoolsInv'
    BY <1>1, <1>2, StepSchedule, EffectsKeepSchedule
  <1>3. CASE Tick \/ AgeToken \/ UNCHANGED vars
    <2>1. UNCHANGED <<doc, listed, live, req, sv, ending>>
      BY <1>3 DEF Tick, AgeToken, vars, store, vendor, ending
    <2> QED
      BY <2>1 DEF PoolsInv, Deleting, Gone, ending
  <1> QED
    BY <1>2, <1>3 DEF Next

(* A site that is set up is found by the scheduler, in the pool of its      *)
(* utility, and a site that is gone is not, whatever requests overlap: only *)
(* a deletion that stops after its first write parts what the query sees    *)
(* from the document, and only a save that meets the purge brings it back.  *)
THEOREM SitesAreScheduled == Spec => []SchedulingInv
  <1>1. TypeOK /\ PoolsInv => SchedulingInv
    <2> SUFFICES ASSUME TypeOK, PoolsInv PROVE SchedulingInv
      OBVIOUS
    <2>1. stopped \/ EligibleIsScheduled
      BY DEF PoolsInv, EligibleIsScheduled, Pooled, Eligible
    <2>2. raced \/ DeletedNeverScheduled
      BY DEF PoolsInv, DeletedNeverScheduled, Gone
    <2> QED
      BY <2>1, <2>2 DEF SchedulingInv
  <1>2. TypeOK /\ CopiesInv /\ PoolsInv /\ [Next]_vars => PoolsInv'
    BY ScheduleStep
  <1>3. Init => PoolsInv
    BY ScheduleInit
  <1> QED
    BY <1>1, <1>2, <1>3, CopiesHold, TypeCorrect, PTL DEF Spec

-----------------------------------------------------------------------------
(* Requests that do not overlap and fail at nothing.                        *)

(* The handlers of requests that fail at nothing are those of SiteSettings.   *)
LEMMA AloneOperators ==
    /\ Alone!Idle = Idle /\ Alone!NoAsk = NoAsk /\ Alone!Missing = Missing
    /\ \A n, s : Alone!Limited(n, s) <=> Limited(n, s)
    /\ \A a, s, c : Alone!Kept(a, s, c) = Kept(a, s, c)
    /\ \A s : Alone!Grouped(s) = Grouped(s) /\ (Alone!Eligible(s) <=> Eligible(s))
    /\ \A s : Alone!Migrated(s) = Migrated(s) /\ Alone!Failed(s) = Failed(s) /\ Alone!Cleared(s) = Cleared(s)
    /\ \A k : Alone!Entry(k) = Entry(k)
    /\ \A a : Alone!Finish(a) <=> Finish(a)
    /\ \A a, p : Alone!Goto(a, p) <=> Goto(a, p)
<1>1. Alone!Idle = Idle /\ Alone!NoAsk = NoAsk /\ Alone!Missing = Missing
  BY DEF Alone!Idle, Idle, Alone!NoAsk, NoAsk, Alone!NoConfig, NoConfig, Alone!Missing, Missing,
         Alone!NoNotifications, NoNotifications
<1>2. \A n, s : Alone!Limited(n, s) <=> Limited(n, s)
  <2>1. \A n : Alone!getESSBackoff(n) = getESSBackoff(n)
    BY DEF Alone!getESSBackoff, getESSBackoff, Alone!ShiftedSeconds, ShiftedSeconds,
           Alone!Minute, Minute, Alone!Hour, Hour, Alone!Day, Day
  <2> QED  BY <2>1 DEF Alone!Limited, Limited, Alone!TickSeconds, TickSeconds
<1>3. \A a, s, c : Alone!Kept(a, s, c) = Kept(a, s, c)  BY DEF Alone!Kept, Kept
<1>4. \A s : Alone!Grouped(s) = Grouped(s) /\ (Alone!Eligible(s) <=> Eligible(s))
  BY DEF Alone!Grouped, Grouped, Alone!Eligible, Eligible
<1>5. \A s : Alone!Migrated(s) = Migrated(s)
  BY <1>4 DEF Alone!Migrated, Migrated
<1>6. \A s : Alone!Failed(s) = Failed(s) /\ Alone!Cleared(s) = Cleared(s)
  BY DEF Alone!Failed, Failed, Alone!Cleared, Cleared
<1>7. \A k : Alone!Entry(k) = Entry(k)  BY DEF Alone!Entry, Entry, Alone!Updates, Updates
<1>8. (\A a : Alone!Finish(a) <=> Finish(a)) /\ (\A a, p : Alone!Goto(a, p) <=> Goto(a, p))
  BY <1>1 DEF Alone!Finish, Finish, Alone!Goto, Goto
<1> QED  BY <1>1, <1>2, <1>3, <1>4, <1>5, <1>6, <1>7, <1>8

(* A write under the version of the document, or under none, is stored.       *)
LEMMA AloneWrites ==
    ASSUME NEW a \in Reqs, NEW s, NEW ver, NEW c \in BOOLEAN, Alone!SetSettings(a, s, ver, c)
    PROVE  /\ SetSettings(a, s, ver, c)
           /\ ver \in {0, doc.ver} => c /\ doc' = [s EXCEPT !.ver = commits + 1]
<1>1. Alone!Apply(a, s, ver) <=> Apply(a, s, ver)
  BY DEF Alone!Apply, Apply, Alone!Commit, Commit, Alone!Unguarded, Unguarded
<1>2. Alone!Refuse(ver) => Refuse(ver) /\ ver \notin {0, doc.ver}
  BY DEF Alone!Refuse, Refuse, Alone!store, store
<1> QED  BY <1>1, <1>2 DEF Alone!SetSettings, SetSettings, Apply, Commit

LEMMA AloneBegins ==
    ASSUME NEW a \in Reqs, Alone!Begin(a)
    PROVE  \/ BeginSweep(a) \/ BeginManual(a) \/ BeginSave(a) \/ BeginStage(a)
           \/ BeginRead(a) \/ BeginPrefs(a)
<1>1. ASSUME NEW k, NEW q, NEW p, Alone!Read(a, k, q, p) PROVE Read(a, k, q, p) /\ k # "delete"
  BY <1>1 DEF Alone!Read, Read, Alone!store, store, Alone!vendor, vendor
<1>2. ASSUME NEW k, NEW q, Alone!ReadMigrating(a, k, q) PROVE ReadMigrating(a, k, q) /\ k # "delete"
  BY <1>1, <1>2, AloneOperators DEF Alone!ReadMigrating, ReadMigrating
<1>3. Alone!BeginSweep(a) => BeginSweep(a)
  BY <1>2, AloneOperators DEF Alone!BeginSweep, BeginSweep
<1>4. Alone!BeginManual(a) => BeginManual(a)
  BY <1>2, AloneOperators DEF Alone!BeginManual, BeginManual
<1>5. Alone!BeginSave(a) => BeginSave(a)
  BY <1>2, AloneOperators DEF Alone!BeginSave, BeginSave, Alone!Links, Links
<1>6. Alone!BeginStage(a) => BeginStage(a)
  BY <1>2, AloneOperators DEF Alone!BeginStage, BeginStage
<1>7. Alone!BeginRead(a) => BeginRead(a)
  BY <1>1, AloneOperators DEF Alone!BeginRead, BeginRead
<1>8. Alone!BeginPrefs(a) => BeginPrefs(a)
  BY <1>1, AloneOperators DEF Alone!BeginPrefs, BeginPrefs
<1>9. ~Alone!BeginDelete(a)
  BY <1>1 DEF Alone!BeginDelete
<1> QED  BY <1>3, <1>4, <1>5, <1>6, <1>7, <1>8, <1>9 DEF Alone!Begin

LEMMA AloneStarts ==
    ASSUME NEW a \in Reqs
    PROVE  /\ Alone!StartUpdate(a) => StartUpdate(a)
           /\ Alone!SkipUpdate(a) => SkipUpdate(a)
           /\ Alone!StartSave(a) => StartSave(a)
           /\ Alone!RejectSave(a) => RejectSave(a)
           /\ ~Alone!Crash(a)
<1>1. Alone!StartUpdate(a) => StartUpdate(a)
  BY AloneOperators DEF Alone!StartUpdate, StartUpdate, Alone!store, store, Alone!vendor, vendor, Alone!ending, ending
<1>2. Alone!SkipUpdate(a) => SkipUpdate(a)
  BY AloneOperators DEF Alone!SkipUpdate, SkipUpdate, Alone!store, store, Alone!vendor, vendor, Alone!ending, ending
<1>3. Alone!ChangesESS(a) <=> ChangesESS(a)  BY DEF Alone!ChangesESS, ChangesESS
<1>4. Alone!StartSave(a) => StartSave(a)
  BY <1>3, AloneOperators DEF Alone!StartSave, StartSave, Alone!store, store, Alone!vendor, vendor, Alone!ending, ending
<1>5. Alone!RejectSave(a) => RejectSave(a)
  BY <1>3, AloneOperators DEF Alone!RejectSave, RejectSave, Alone!store, store, Alone!vendor, vendor, Alone!ending, ending
<1>6. ~Alone!Crash(a)  BY DEF Alone!Crash
<1> QED  BY <1>1, <1>2, <1>4, <1>5, <1>6

(* What the vendor answers: a token that it still accepts, that of the        *)
(* document if it is not spent, or a refusal that is counted.                 *)
Answers(a) ==
    /\ UNCHANGED <<doc, now, sv>>
    /\ \/ /\ req' = [req EXCEPT ![a].at = "granted", ![a].cred = req'[a].cred]
          /\ denials' = [denials EXCEPT !.n = 0]
          /\ \/ /\ req'[a].cred \in live' /\ (req[a].kind # "stage" \/ live \subseteq live')
             \/ /\ live' = live /\ req'[a].cred = req[a].cred
                /\ req[a].kind = "stage" \/ req[a].cred # 0
       \/ /\ req' = [req EXCEPT ![a].at = "denied", ![a].cred = req[a].cred]
          /\ denials' = [n |-> denials.n + 1, at |-> now]
          /\ live' = live

LEMMA AloneAnswers ==
    ASSUME TypeOK, NEW a \in Reqs, Alone!Authenticate(a)
    PROVE  Authenticate(a) /\ req[a].at = "auth" /\ Answers(a)
<1>1. \A c : (Alone!Granted(a, c) => Granted(a, c)) /\ (Alone!Denied(a, c) => Denied(a, c))
  BY DEF Alone!Granted, Granted, Alone!Denied, Denied
<1>2. \A c : Alone!Verify(a, c) => Granted(a, c) /\ Verify(a, c)
  BY <1>1 DEF Alone!Verify, Verify
<1>3. Alone!UsesStored(a) <=> UsesStored(a)  BY DEF Alone!UsesStored, UsesStored
<1>4. \A c : Granted(a, c) =>
        /\ req' = [req EXCEPT ![a].at = "granted", ![a].cred = c] /\ req'[a].cred = c
        /\ denials' = [denials EXCEPT !.n = 0]
  BY DEF Granted, TypeOK, ReqStates
<1>5. CASE Alone!Refresh(a)
  <2>1. /\ UsesStored(a) /\ req[a].cred \in aging \cap live
        /\ live' = (live \ {req[a].cred}) \cup {issued + 1} /\ issued' = issued + 1
        /\ Granted(a, issued + 1) /\ Verify(a, issued + 1)
        /\ UNCHANGED <<store, aging, ending, now, sv, wanted>>
    BY <1>2, <1>3, <1>5 DEF Alone!Refresh, Alone!store, store, Alone!vendor, vendor, Alone!ending, ending
  <2>2. Refresh(a)  BY <2>1 DEF Refresh
  <2> QED  BY <1>4, <2>1, <2>2 DEF Authenticate, Answers, UsesStored, store
<1>6. CASE Alone!UseAccessToken(a)
  <2>1. /\ UsesStored(a) /\ req[a].cred # 0 /\ req[a].cred \notin aging
        /\ Granted(a, req[a].cred) /\ Verify(a, req[a].cred)
        /\ UNCHANGED <<store, live, aging, issued, ending, now, sv, wanted>>
    BY <1>2, <1>3, <1>6 DEF Alone!UseAccessToken, Alone!store, store, Alone!vendor, vendor, Alone!ending, ending
  <2>2. UseAccessToken(a)  BY <2>1 DEF UseAccessToken
  <2> QED  BY <1>4, <2>1, <2>2 DEF Authenticate, Answers, UsesStored, store
<1>7. CASE Alone!RejectStored(a)
  <2>1. /\ UsesStored(a) /\ (req[a].cred = 0 \/ req[a].cred \in aging \ live)
        /\ Denied(a, req[a].cred)
        /\ UNCHANGED <<store, live, aging, issued, ending, now, sv, wanted>>
    BY <1>1, <1>3, <1>7 DEF Alone!RejectStored, Alone!store, store, Alone!vendor, vendor, Alone!ending, ending
  <2>2. RejectStored(a)  BY <2>1 DEF RejectStored
  <2> QED  BY <2>1, <2>2 DEF Authenticate, Answers, UsesStored, store, Denied
<1>8. CASE Alone!ExchangeCode(a)
  <2>1. /\ req[a].at = "auth" /\ req[a].ask.link = "code"
        /\ live' = live \cup {issued + 1} /\ issued' = issued + 1
        /\ Granted(a, issued + 1) /\ Verify(a, issued + 1)
        /\ UNCHANGED <<store, aging, ending, now, sv, wanted>>
    BY <1>2, <1>8 DEF Alone!ExchangeCode, Alone!store, store, Alone!vendor, vendor, Alone!ending, ending
  <2>2. ExchangeCode(a)  BY <2>1 DEF ExchangeCode
  <2> QED  BY <1>4, <2>1, <2>2 DEF Authenticate, Answers, store
<1>9. CASE Alone!RejectCode(a)
  <2>1. /\ req[a].at = "auth" /\ req[a].ask.link = "badcode" /\ Denied(a, req[a].cred)
        /\ UNCHANGED <<store, live, aging, issued, ending, now, sv, wanted>>
    BY <1>1, <1>9 DEF Alone!RejectCode, Alone!store, store, Alone!vendor, vendor, Alone!ending, ending
  <2>2. RejectCode(a)  BY <2>1 DEF RejectCode
  <2> QED  BY <2>1, <2>2 DEF Authenticate, Answers, store, Denied
<1>10. CASE Alone!AuthenticateStage(a)
  <2>1. /\ req[a].at = "auth" /\ req[a].kind = "stage"
        /\ Granted(a, req[a].cred) \/ Denied(a, req[a].cred)
        /\ UNCHANGED <<store, live, aging, issued, ending, now, sv, wanted>>
    BY <1>1, <1>10 DEF Alone!AuthenticateStage, Alone!store, store, Alone!vendor, vendor, Alone!ending, ending
  <2>2. AuthenticateStage(a)  BY <2>1 DEF AuthenticateStage
  <2>3. CASE Granted(a, req[a].cred)
    BY <1>4, <2>1, <2>2, <2>3 DEF Authenticate, Answers, store
  <2>4. CASE Denied(a, req[a].cred)
    BY <2>1, <2>2, <2>4 DEF Authenticate, Answers, store, Denied
  <2> QED  BY <2>1, <2>3, <2>4
<1> QED  BY <1>5, <1>6, <1>7, <1>8, <1>9, <1>10 DEF Alone!Authenticate
(* A request that holds the document as it is writes what it means to.        *)
Written(s) == doc' = [s EXCEPT !.ver = commits + 1]

LEMMA AloneWritesAndEnds ==
    ASSUME NEW a \in Reqs, NEW s, sv[a] = doc, Alone!WriteAndFinish(a, s)
    PROVE  WriteAndFinish(a, s) /\ Written(s)
BY AloneWrites, AloneOperators DEF Alone!WriteAndFinish, WriteAndFinish, Written

LEMMA AloneMigrates ==
    ASSUME NEW a \in Reqs, sv[a] = doc, Alone!Migrate(a)
    PROVE  /\ Migrate(a) /\ Written(Migrated(doc)) /\ UNCHANGED <<vendor, now>>
           /\ IF req[a].kind = "read" THEN Finish(a)
              ELSE sv' = [sv EXCEPT ![a] = doc'] /\ Goto(a, Entry(req[a].kind))
<1>1. PICK c \in BOOLEAN :
        /\ Alone!SetSettings(a, Migrated(sv[a]), sv[a].ver, c)
        /\ IF req[a].kind = "read" THEN Finish(a)
           ELSE /\ sv' = [sv EXCEPT ![a] = Kept(a, Migrated(sv[a]), c)]
                /\ Goto(a, Entry(req[a].kind))
  BY AloneOperators DEF Alone!Migrate
<1>2. req[a].at = "migrate" /\ UNCHANGED <<vendor, ending, now, wanted>>
  BY DEF Alone!Migrate, Alone!store, store, Alone!vendor, vendor, Alone!ending, ending
<1>3. SetSettings(a, Migrated(sv[a]), sv[a].ver, c) /\ c /\ Written(Migrated(doc))
  BY <1>1, AloneWrites DEF Written
<1>4. Kept(a, Migrated(sv[a]), c) = doc'  BY <1>3 DEF Kept
<1>5. Migrate(a)  BY <1>1, <1>2, <1>3 DEF Migrate
<1> QED  BY <1>1, <1>2, <1>3, <1>4, <1>5

LEMMA AloneRecords ==
    ASSUME TypeOK, NEW a \in Reqs, sv[a] = doc
    PROVE  /\ Alone!RecordGrant(a) =>
                /\ RecordGrant(a) /\ (doc' = AfterGrant(a) \/ Written(AfterGrant(a)))
                /\ sv'[a] = doc'
           /\ Alone!RecordDenial(a) => RecordDenial(a) /\ Written(Failed(doc))
           /\ ~Alone!ModesUnauthorized(a)
           /\ Alone!ModesRestored(a) => ModesRestored(a) /\ Written([doc EXCEPT !.setFails = 0, !.last = now])
           /\ Alone!LeaveModes(a) => LeaveModes(a)
<1>1. ASSUME Alone!RecordGrant(a)
      PROVE  /\ RecordGrant(a) /\ (doc' = AfterGrant(a) \/ Written(AfterGrant(a)))
             /\ sv'[a] = doc'
  <2>1. Alone!AfterGrant(a) = AfterGrant(a)  BY DEF Alone!AfterGrant, AfterGrant
  <2>2. /\ req[a].at = "granted" /\ req[a].kind \in Updates /\ Goto(a, "modes")
        /\ UNCHANGED <<vendor, ending, now, wanted>>
    BY <1>1, AloneOperators DEF Alone!RecordGrant, Alone!Updates, Updates, Alone!store, store, Alone!vendor, vendor, Alone!ending, ending
  <2>3. CASE AfterGrant(a) = sv[a]
    <3>1. UNCHANGED <<store, sv>>  BY <1>1, <2>1, <2>3 DEF Alone!RecordGrant, Alone!store, store, Alone!vendor, vendor, Alone!ending, ending
    <3>2. RecordGrant(a)  BY <2>2, <2>3, <3>1 DEF RecordGrant
    <3> QED  BY <2>3, <3>1, <3>2 DEF store
  <2>4. CASE AfterGrant(a) # sv[a]
    <3>1. PICK c \in BOOLEAN : /\ Alone!SetSettings(a, AfterGrant(a), sv[a].ver, c)
                              /\ sv' = [sv EXCEPT ![a] = Kept(a, AfterGrant(a), c)]
      BY <1>1, <2>1, <2>4, AloneOperators DEF Alone!RecordGrant
    <3>2. SetSettings(a, AfterGrant(a), sv[a].ver, c) /\ c /\ Written(AfterGrant(a))
      BY <3>1, AloneWrites DEF Written
    <3>3. RecordGrant(a)  BY <2>2, <2>4, <3>1, <3>2 DEF RecordGrant
    <3>4. sv'[a] = doc'  BY <3>1, <3>2 DEF Kept, TypeOK
    <3> QED  BY <3>2, <3>3, <3>4
  <2> QED  BY <2>3, <2>4
<1>2. Alone!RecordDenial(a) => RecordDenial(a) /\ Written(Failed(doc))
  BY AloneWritesAndEnds, AloneOperators
  DEF Alone!RecordDenial, RecordDenial, Alone!Updates, Updates, Alone!store, store, Alone!vendor, vendor, Alone!ending, ending
<1>3. ~Alone!ModesUnauthorized(a)  BY DEF Alone!ModesUnauthorized
<1>4. Alone!ModesRestored(a) => ModesRestored(a) /\ Written([doc EXCEPT !.setFails = 0, !.last = now])
  <2>1. Alone!MayCommand(a) <=> MayCommand(a)  BY AloneOperators DEF Alone!MayCommand, MayCommand
  <2> QED  BY <2>1, AloneWritesAndEnds DEF Alone!ModesRestored, ModesRestored, Alone!store, store, Alone!vendor, vendor, Alone!ending, ending
<1>5. Alone!LeaveModes(a) => LeaveModes(a)
  BY AloneOperators DEF Alone!LeaveModes, LeaveModes, Alone!store, store, Alone!vendor, vendor, Alone!ending, ending
<1> QED  BY <1>1, <1>2, <1>3, <1>4, <1>5

LEMMA AloneSaves ==
    ASSUME TypeOK, NEW a \in Reqs, sv[a] = doc
    PROVE  /\ Alone!SaveDenial(a) => SaveDenial(a) /\ Written(Failed(doc))
           /\ Alone!SaveWrite(a) =>
                /\ SaveWrite(a) /\ Written(NewSettings(a))
                /\ \/ Finish(a)
                   \/ /\ req' = [req EXCEPT ![a] = [@ EXCEPT !.at = "guard", !.kind = "revert", !.ask = NoAsk]]
                      /\ sv' = [sv EXCEPT ![a] = doc']
           /\ Alone!StageDenial(a) => StageDenial(a) /\ Written(Failed(doc))
           /\ Alone!StageGrant(a) =>
                /\ StageGrant(a) /\ (doc' = Cleared(doc) \/ Written(Cleared(doc)))
                /\ Finish(a)
<1>1. Alone!SaveDenial(a) => SaveDenial(a) /\ Written(Failed(doc))
  BY AloneWrites, AloneOperators DEF Alone!SaveDenial, SaveDenial, Written, Alone!store, store, Alone!vendor, vendor, Alone!ending, ending
<1>2. ASSUME Alone!SaveWrite(a)
      PROVE  /\ SaveWrite(a) /\ Written(NewSettings(a))
             /\ \/ Finish(a)
                \/ /\ req' = [req EXCEPT ![a] = [@ EXCEPT !.at = "guard", !.kind = "revert", !.ask = NoAsk]]
                   /\ sv' = [sv EXCEPT ![a] = doc']
  <2>1. Alone!NewSettings(a) = NewSettings(a)  BY AloneOperators DEF Alone!NewSettings, NewSettings
  <2>2. Alone!Reverts(a) <=> Reverts(a)  BY DEF Alone!Reverts, Reverts
  <2>3. PICK c \in BOOLEAN :
          /\ Alone!SetSettings(a, NewSettings(a), 0, c)
          /\ IF c /\ Reverts(a)
             THEN /\ req' = [req EXCEPT ![a] = [@ EXCEPT !.at = "guard", !.kind = "revert", !.ask = NoAsk]]
                  /\ sv' = [sv EXCEPT ![a] = doc']
             ELSE Finish(a)
    BY <1>2, <2>1, <2>2, AloneOperators DEF Alone!SaveWrite
  <2>4. /\ req[a].kind = "save" /\ req[a].at \in {"write", "granted"}
        /\ wanted' = IF commits' = commits THEN wanted ELSE [wanted EXCEPT !.cfg = req[a].ask.cfg]
        /\ UNCHANGED <<vendor, ending, now>>
    BY <1>2 DEF Alone!SaveWrite, Alone!store, store, Alone!vendor, vendor, Alone!ending, ending
  <2>5. SetSettings(a, NewSettings(a), 0, c) /\ c /\ Written(NewSettings(a))
    BY <2>3, AloneWrites DEF Written
  <2>6. SaveWrite(a)  BY <2>3, <2>4, <2>5 DEF SaveWrite
  <2> QED  BY <2>3, <2>5, <2>6
<1>3. Alone!StageDenial(a) => StageDenial(a) /\ Written(Failed(doc))
  BY AloneWritesAndEnds, AloneOperators DEF Alone!StageDenial, StageDenial, Alone!store, store, Alone!vendor, vendor, Alone!ending, ending
<1>4. Alone!StageGrant(a) =>
        /\ StageGrant(a) /\ (doc' = Cleared(doc) \/ Written(Cleared(doc)))
        /\ Finish(a)
  BY AloneWritesAndEnds, AloneOperators DEF Alone!StageGrant, StageGrant, WriteAndFinish, Alone!store, store, Alone!vendor, vendor, Alone!ending, ending
<1> QED  BY <1>1, <1>2, <1>3, <1>4

LEMMA AlonePrefers ==
    ASSUME NEW a \in Reqs, sv[a] = doc
    PROVE  /\ Alone!WritePrefs(a) =>
                /\ WritePrefs(a) /\ Finish(a)
                /\ Written([doc EXCEPT !.notif[req[a].ask.user] = req[a].ask.pref])
           /\ Alone!ReadAgain(a) => req[a].at = "again"
           /\ Alone!Unlist(a) \/ Alone!Purge(a) \/ Alone!DropSite(a) \/ Alone!AbandonDelete(a) =>
                req[a].at \in {"unlist", "purge", "drop"}
<1>1. ASSUME Alone!WritePrefs(a)
      PROVE  /\ WritePrefs(a) /\ Finish(a)
             /\ Written([doc EXCEPT !.notif[req[a].ask.user] = req[a].ask.pref])
  <2> DEFINE s == [doc EXCEPT !.notif[req[a].ask.user] = req[a].ask.pref]
  <2>1. Alone!Commit(a, s, doc.ver) /\ UNCHANGED listed /\ Finish(a)
    BY <1>1, AloneOperators DEF Alone!WritePrefs, Alone!Refuse
  <2>2. Commit(a, s, doc.ver) /\ Written(s)
    BY <2>1 DEF Alone!Commit, Commit, Alone!Unguarded, Unguarded, Written
  <2>3. /\ req[a].at = "prefs"
        /\ wanted' = IF commits' = commits THEN wanted
                     ELSE [wanted EXCEPT !.notif[req[a].ask.user] = req[a].ask.pref]
        /\ UNCHANGED <<vendor, ending, now>>
    BY <1>1 DEF Alone!WritePrefs, Alone!store, store, Alone!vendor, vendor, Alone!ending, ending
  <2> HIDE DEF s
  <2>4. WritePrefs(a)  BY <2>1, <2>2, <2>3 DEF WritePrefs, s
  <2> QED  BY <2>1, <2>2, <2>4 DEF s
<1>2. Alone!ReadAgain(a) => req[a].at = "again"  BY DEF Alone!ReadAgain
<1>3. Alone!Unlist(a) \/ Alone!Purge(a) \/ Alone!DropSite(a) \/ Alone!AbandonDelete(a) =>
        req[a].at \in {"unlist", "purge", "drop"}
  BY DEF Alone!Unlist, Alone!Purge, Alone!DropSite, Alone!AbandonDelete
<1> QED  BY <1>1, <1>2, <1>3

-----------------------------------------------------------------------------
(* What holds of the document between requests: a token of its own is one the *)
(* vendor accepts, and it counts every refusal of late, no earlier than it    *)
(* was.                                                                       *)
Accepted == doc.tok = 0 \/ doc.tok \in live
Counted == denials.n <= doc.fails /\ denials.at <= doc.last

Paced(q) == TickSeconds * (q.began - denials.at) >= getESSBackoff(denials.n)

(* A request under way has the document as it is, and what it was answered in *)
(* hand.                                                                      *)
InHand(q) ==
    /\ q.at \notin {"again", "unlist", "purge", "drop"}
    /\ q.at = "migrate" => q.kind \notin {"prefs", "delete"}
    /\ q.at \in {"migrate", "guard", "save", "auth", "write"} => q.cred = doc.tok
    /\ IF q.at = "granted" /\ q.kind # "stage" THEN q.cred \in live ELSE Accepted
    /\ q.at = "granted" => denials.n = 0
    /\ IF q.at = "denied" THEN denials.n <= doc.fails + 1 ELSE Counted
    /\ q.at = "auth" \/ (q.at = "migrate" /\ q.kind = "stage") => Paced(q)

LoginSound ==
    /\ TypeOK /\ denials.at <= now
    /\ \A a, b \in Reqs : req[a].at # "idle" /\ req[b].at # "idle" => a = b
    /\ \A a \in Reqs : req[a].at # "idle" => sv[a] = doc /\ InHand(req[a])
    /\ (\A a \in Reqs : req[a].at = "idle") => Accepted /\ Counted

(* One request moves, and the others rest.                                    *)
LEMMA OneMoves ==
    ASSUME LoginSound, NEW a \in Reqs, \A b \in Reqs \ {a} : req[b].at = "idle",
           TypeOK', denials'.at <= now',
           \A b \in Reqs \ {a} : req'[b] = req[b],
           IF req'[a].at = "idle" THEN Accepted' /\ Counted'
           ELSE sv'[a] = doc' /\ InHand(req[a])'
    PROVE  LoginSound'
BY DEF LoginSound

LEMMA AloneInit == Alone!Init => LoginSound
<1> SUFFICES ASSUME Alone!Init PROVE LoginSound  OBVIOUS
<1>1. Init
  BY AloneOperators DEF Alone!Init, Init, Alone!InitialDoc, InitialDoc, Alone!Stored, Stored,
     Alone!Utilities, Utilities, Alone!NoConfig, NoConfig, Alone!NoNotifications, NoNotifications
<1>2. TypeOK  BY <1>1, InitType
<1>3. /\ denials.n = 0 /\ denials.at = 0 /\ now = 0 /\ live = 1..doc.tok
      /\ \A a \in Reqs : req[a].at = "idle"
  BY <1>1 DEF Init, Idle
<1>4. doc.tok \in Nat /\ doc.fails \in Nat /\ doc.last \in Nat  BY <1>2 DEF TypeOK, Docs
<1>5. Accepted  BY <1>3, <1>4, SMT DEF Accepted
<1>6. Counted  BY <1>3, <1>4, SMT DEF Counted
<1>7. denials.at <= now  BY <1>3
<1> QED  BY <1>2, <1>3, <1>5, <1>6, <1>7 DEF LoginSound

(* What a backed off document asks for is enough for the refusals it counts.  *)
LEMMA GuardsPace ==
    ASSUME TypeOK, Counted, NEW n \in Nat, doc.fails <= n, ~Limited(n, doc), denials.at <= now
    PROVE  TickSeconds * (now - denials.at) >= getESSBackoff(denials.n)
<1>1. /\ doc.fails \in Nat /\ doc.last \in Nat /\ now \in Nat
      /\ denials.n \in Nat /\ denials.at \in Nat
  BY DEF TypeOK, Docs
<1>2. getESSBackoff(denials.n) <= getESSBackoff(n)
      /\ getESSBackoff(n) \in Nat /\ getESSBackoff(denials.n) \in Nat
  <2>1. denials.n <= n  BY <1>1, SMT DEF Counted
  <2> QED  BY <1>1, <2>1, BackoffMonotone, BackoffType
<1>3. CASE n > 1
  <2>1. ~(TickSeconds * (now - doc.last) < getESSBackoff(n))  BY <1>3 DEF Limited
  <2> HIDE DEF getESSBackoff
  <2> QED  BY <1>1, <1>2, <2>1, SMT DEF TickSeconds, Counted
<1>4. CASE ~(n > 1)
  <2>1. getESSBackoff(n) = 0  BY <1>4, SMT DEF getESSBackoff
  <2> HIDE DEF getESSBackoff
  <2> QED  BY <1>1, <1>2, <2>1, SMT DEF TickSeconds
<1> QED  BY <1>3, <1>4

LEMMA LoginsBegin ==
    ASSUME LoginSound, NEW a \in Reqs, \A b \in Reqs \ {a} : req[b].at = "idle", Alone!Begin(a), TypeOK'
    PROVE  LoginSound'
<1>1. PICK k, q, p :
        /\ Read(a, k, q, p)
        /\ \/ p = "migrate" /\ k \notin {"prefs", "delete"}
           \/ p \in {"guard", "save", "auth", "prefs"}
        /\ k = "stage" => ~Limited(doc.fails + doc.setFails, doc)
        /\ p = "auth" => k = "stage"
  <2> DEFINE Begins(k, q, p) ==
               /\ Read(a, k, q, p)
               /\ \/ p = "migrate" /\ k \notin {"prefs", "delete"}
                  \/ p \in {"guard", "save", "auth", "prefs"}
               /\ k = "stage" => ~Limited(doc.fails + doc.setFails, doc)
               /\ p = "auth" => k = "stage"
  <2>1. ASSUME NEW k \in {"sweep", "manual", "save", "stage"}, NEW q, ReadMigrating(a, k, q),
               k = "stage" => ~Limited(doc.fails + doc.setFails, doc)
        PROVE  \E p : Begins(k, q, p)
    <3> DEFINE p == IF doc.current THEN Entry(k) ELSE "migrate"
    <3>1. Read(a, k, q, p)  BY <2>1 DEF ReadMigrating
    <3>2. p = "migrate" \/ p \in {"guard", "save", "auth"}  BY <2>1 DEF Entry, Updates
    <3>3. p = "auth" => k = "stage"  BY <2>1 DEF Entry, Updates
    <3>4. Begins(k, q, p)
      <4> HIDE DEF p
      <4> QED  BY <2>1, <3>1, <3>2, <3>3
    <3> QED  BY <3>4
  <2>2. CASE BeginSweep(a)
    <3>1. \E p : Begins("sweep", NoAsk, p)  BY <2>1, <2>2 DEF BeginSweep
    <3> QED  BY <3>1
  <2>3. CASE BeginManual(a)
    <3>1. \E p : Begins("manual", NoAsk, p)  BY <2>1, <2>3 DEF BeginManual
    <3> QED  BY <3>1
  <2>4. CASE BeginSave(a)
    <3>1. PICK cfg \in Configs, link \in Links :
            ReadMigrating(a, "save", [NoAsk EXCEPT !.cfg = cfg, !.link = link])
      BY <2>4 DEF BeginSave
    <3>2. \E p : Begins("save", [NoAsk EXCEPT !.cfg = cfg, !.link = link], p)  BY <2>1, <3>1
    <3> QED  BY <3>2
  <2>5. CASE BeginStage(a)
    <3>1. \E p : Begins("stage", NoAsk, p)  BY <2>1, <2>5 DEF BeginStage
    <3> QED  BY <3>1
  <2>6. CASE BeginRead(a)
    <3>1. Begins("read", NoAsk, "migrate")  BY <2>6 DEF BeginRead
    <3> QED  BY <3>1
  <2>7. CASE BeginPrefs(a)
    <3>1. PICK q : Read(a, "prefs", q, "prefs")  BY <2>7 DEF BeginPrefs
    <3>2. Begins("prefs", q, "prefs")  BY <3>1
    <3> QED  BY <3>2
  <2> QED  BY <2>2, <2>3, <2>4, <2>5, <2>6, <2>7, AloneBegins
<1>2. /\ req[a].at = "idle"
      /\ req' = [req EXCEPT ![a] = [at |-> p, kind |-> k, cred |-> doc.tok, ask |-> q,
                                     began |-> IF k = "stage" THEN now ELSE 0, tries |-> 1]]
      /\ sv' = [sv EXCEPT ![a] = doc] /\ UNCHANGED <<doc, live, denials, now>>
  BY <1>1 DEF Read, store, vendor
<1>3. Accepted /\ Counted
  <2>1. \A b \in Reqs : req[b].at = "idle"  BY <1>2
  <2> QED  BY <2>1 DEF LoginSound
<1>4. Accepted' /\ Counted'  BY <1>2, <1>3 DEF Accepted, Counted
<1>5. /\ req'[a].at = p /\ req'[a].kind = k /\ req'[a].cred = doc.tok /\ sv'[a] = doc
      /\ k = "stage" => req'[a].began = now
      /\ \A b \in Reqs \ {a} : req'[b] = req[b]
  BY <1>2 DEF LoginSound, TypeOK
<1>6. k = "stage" => Paced(req[a])'
  <2>1. SUFFICES ASSUME k = "stage" PROVE Paced(req[a])'  OBVIOUS
  <2>2. doc.fails \in Nat /\ doc.setFails \in Nat  BY DEF LoginSound, TypeOK, Docs
  <2>3. TickSeconds * (now - denials.at) >= getESSBackoff(denials.n)
    BY <1>1, <1>3, <2>1, <2>2, GuardsPace DEF LoginSound
  <2> QED  BY <1>2, <1>5, <2>1, <2>3 DEF Paced
<1>7. InHand(req[a])'
  BY <1>1, <1>2, <1>4, <1>5, <1>6 DEF InHand
<1>8. denials'.at <= now'  BY <1>2 DEF LoginSound
<1> QED  BY <1>1, <1>2, <1>4, <1>5, <1>7, <1>8, OneMoves

(* A request that ends leaves the document as it is said to.                  *)
LEMMA LoginEnds ==
    ASSUME LoginSound, NEW a \in Reqs, \A b \in Reqs \ {a} : req[b].at = "idle", TypeOK',
           Finish(a), UNCHANGED <<denials, now>>, Accepted', Counted'
    PROVE  LoginSound'
<1>1. req'[a].at = "idle" /\ \A b \in Reqs \ {a} : req'[b] = req[b]
  BY DEF Finish, Idle, LoginSound, TypeOK
<1>2. denials'.at <= now'  BY DEF LoginSound
<1> QED  BY <1>1, <1>2, OneMoves

(* A write of other settings with the token and the counters of the document. *)
Keeps(s) == s.tok = doc.tok /\ s.fails = doc.fails /\ (s.last = doc.last \/ s.last = now)

LEMMA KeepsHold ==
    ASSUME LoginSound, TypeOK', NEW s \in Docs, doc' = s \/ Written(s), Keeps(s), UNCHANGED <<live, denials, now>>
    PROVE  doc'.tok = doc.tok /\ (Accepted => Accepted') /\ (Counted => Counted')
<1>1. doc'.tok = s.tok /\ doc'.fails = s.fails /\ doc'.last = s.last  BY DEF Written, Docs
<1>2. Counted => Counted'  BY <1>1 DEF Keeps, Counted, LoginSound
<1> QED  BY <1>1, <1>2 DEF Keeps, Accepted

(* A refusal is written down with its time.                                   *)
LEMMA RefusalCounts ==
    ASSUME LoginSound, TypeOK', Accepted, denials.n <= doc.fails + 1, Written(Failed(doc)),
           UNCHANGED <<live, denials, now>>
    PROVE  Accepted' /\ Counted'
<1>1. doc'.tok = doc.tok /\ doc'.fails = doc.fails + 1 /\ doc'.last = now
  BY DEF Written, Failed, LoginSound, TypeOK, Docs
<1> QED  BY <1>1 DEF Accepted, Counted, LoginSound

LEMMA LoginsMigrate ==
    ASSUME LoginSound, NEW a \in Reqs, \A b \in Reqs \ {a} : req[b].at = "idle", Alone!Migrate(a), TypeOK'
    PROVE  LoginSound'
<1>1. /\ req[a].at = "migrate"
      /\ sv[a] = doc /\ InHand(req[a])
  BY DEF Alone!Migrate, LoginSound
<1>2. /\ Written(Migrated(doc)) /\ UNCHANGED <<live, denials, now>>
      /\ IF req[a].kind = "read" THEN Finish(a)
         ELSE sv' = [sv EXCEPT ![a] = doc'] /\ Goto(a, Entry(req[a].kind))
  BY <1>1, AloneMigrates DEF vendor
<1>3. Migrated(doc) \in Docs /\ Keeps(Migrated(doc))
  <2>1. doc \in Docs  BY DEF LoginSound, TypeOK
  <2> QED  BY <2>1, MigratedType DEF Keeps, Migrated, Grouped, Docs
<1>4. doc'.tok = doc.tok /\ Accepted' /\ Counted'
  <2>1. Accepted /\ Counted  BY <1>1 DEF InHand
  <2> QED  BY <1>2, <1>3, <2>1, KeepsHold
<1>5. CASE req[a].kind = "read"
  BY <1>2, <1>4, <1>5, LoginEnds
<1>6. CASE req[a].kind # "read"
  <2>1. /\ req' = [req EXCEPT ![a].at = Entry(req[a].kind)] /\ sv' = [sv EXCEPT ![a] = doc']
        /\ req \in [Reqs -> ReqStates] /\ sv \in [Reqs -> Docs]
    BY <1>2, <1>6 DEF Goto, LoginSound, TypeOK
  <2>2. /\ sv'[a] = doc' /\ \A b \in Reqs \ {a} : req'[b] = req[b]
        /\ req'[a].at = Entry(req[a].kind) /\ req'[a].kind = req[a].kind /\ req'[a].cred = req[a].cred
        /\ req'[a].began = req[a].began
    BY <2>1 DEF ReqStates
  <2>3. req'[a].at \in {"guard", "save", "auth"} /\ (req'[a].at = "auth" => req[a].kind = "stage")
    <3>1. req[a].kind \in {"sweep", "manual", "revert", "save", "stage"}
      <4>1. req[a].kind \in AllKinds \cup {"revert"} /\ req[a].kind \notin {"prefs", "delete"}
        BY <1>1, <2>1 DEF InHand, ReqStates
      <4> QED  BY <1>6, <4>1 DEF AllKinds
    <3> QED  BY <2>2, <3>1 DEF Entry, Updates
  <2>4. req[a].cred = doc.tok /\ (req[a].kind = "stage" => Paced(req[a]))  BY <1>1 DEF InHand
  <2>5. (req[a].kind = "stage" => Paced(req[a])')  BY <1>2, <2>2, <2>4 DEF Paced
  <2>6. InHand(req[a])'  BY <1>4, <2>2, <2>3, <2>4, <2>5 DEF InHand
  <2>7. denials'.at <= now'  BY <1>2 DEF LoginSound
  <2> QED  BY <2>2, <2>3, <2>6, <2>7, OneMoves
<1> QED  BY <1>5, <1>6

LEMMA LoginsStart ==
    ASSUME LoginSound, NEW a \in Reqs, \A b \in Reqs \ {a} : req[b].at = "idle", TypeOK',
           StartUpdate(a) \/ SkipUpdate(a) \/ StartSave(a) \/ RejectSave(a)
    PROVE  LoginSound'
<1>1. /\ req[a].at \in {"guard", "save"} /\ sv[a] = doc /\ InHand(req[a])
      /\ UNCHANGED <<doc, live, denials, now>>
  <2>1. req[a].at \in {"guard", "save"} /\ UNCHANGED <<store, vendor, now>>
    BY DEF StartUpdate, SkipUpdate, StartSave, RejectSave
  <2> QED  BY <2>1 DEF LoginSound, store, vendor
<1>2. Accepted /\ Counted /\ Accepted' /\ Counted'  BY <1>1 DEF InHand, Accepted, Counted
<1>3. CASE SkipUpdate(a) \/ RejectSave(a)
  <2>1. Finish(a)  BY <1>3 DEF SkipUpdate, RejectSave
  <2> QED  BY <1>1, <1>2, <2>1, LoginEnds
<1>4. CASE StartUpdate(a) \/ StartSave(a)
  <2>1. /\ req \in [Reqs -> ReqStates] /\ UNCHANGED sv
        /\ \/ req' = [req EXCEPT ![a].at = "write"]
           \/ /\ req' = [req EXCEPT ![a].at = "auth", ![a].began = now]
              /\ ~Limited(doc.fails, doc) \/ ~Limited(doc.fails + doc.setFails, doc)
    BY <1>1, <1>4 DEF StartUpdate, StartSave, Goto, LoginSound, TypeOK
  <2>2. sv'[a] = doc' /\ \A b \in Reqs \ {a} : req'[b] = req[b]  BY <1>1, <2>1
  <2>3. denials'.at <= now'  BY <1>1 DEF LoginSound
  <2>4. CASE req' = [req EXCEPT ![a].at = "write"]
    <3>1. req'[a].at = "write" /\ req'[a].cred = req[a].cred  BY <2>1, <2>4 DEF ReqStates
    <3>2. InHand(req[a])'  BY <1>1, <1>2, <3>1 DEF InHand
    <3> QED  BY <2>2, <2>3, <3>1, <3>2, OneMoves
  <2>5. CASE req' = [req EXCEPT ![a].at = "auth", ![a].began = now]
    <3>1. req'[a].at = "auth" /\ req'[a].began = now /\ req'[a].cred = req[a].cred
      BY <2>1, <2>5 DEF ReqStates
    <3>2. ~Limited(doc.fails, doc) \/ ~Limited(doc.fails + doc.setFails, doc)
      <4>1. req[a].at # "write" /\ req'[a].at # "write"  BY <1>1, <3>1
      <4>2. ~(req' = [req EXCEPT ![a].at = "write"])  BY <2>1, <4>1 DEF ReqStates
      <4> QED  BY <2>1, <4>2
    <3>3. doc.fails \in Nat /\ doc.setFails \in Nat  BY DEF LoginSound, TypeOK, Docs
    <3>4. TickSeconds * (now - denials.at) >= getESSBackoff(denials.n)
      <4>1. CASE ~Limited(doc.fails, doc)
        BY <1>2, <3>3, <4>1, GuardsPace DEF LoginSound
      <4>2. CASE ~Limited(doc.fails + doc.setFails, doc)
        BY <1>2, <3>3, <4>2, GuardsPace DEF LoginSound
      <4> QED  BY <3>2, <4>1, <4>2
    <3>5. Paced(req[a])'  BY <1>1, <3>1, <3>4 DEF Paced
    <3>6. InHand(req[a])'  BY <1>1, <1>2, <3>1, <3>5 DEF InHand
    <3> QED  BY <2>2, <2>3, <3>1, <3>6, OneMoves
  <2> QED  BY <2>1, <2>4, <2>5
<1> QED  BY <1>3, <1>4

LEMMA LoginsAnswer ==
    ASSUME LoginSound, NEW a \in Reqs, \A b \in Reqs \ {a} : req[b].at = "idle", TypeOK',
           req[a].at = "auth", Answers(a)
    PROVE  LoginSound'
<1>1. sv[a] = doc /\ InHand(req[a]) /\ req \in [Reqs -> ReqStates] /\ denials \in [n : Nat, at : Nat]
  BY DEF LoginSound, TypeOK
<1>2. Accepted /\ Counted /\ req[a].cred = doc.tok  BY <1>1 DEF InHand
<1>3. UNCHANGED <<doc, now, sv>>  BY DEF Answers
<1>4. doc.fails \in Nat /\ doc.last \in Nat /\ now \in Nat  BY DEF LoginSound, TypeOK, Docs
<1>5. CASE req'[a].at = "granted" /\ denials' = [denials EXCEPT !.n = 0]
  <2>1. /\ req' = [req EXCEPT ![a].at = "granted", ![a].cred = req'[a].cred]
        /\ \/ req'[a].cred \in live' /\ (req[a].kind # "stage" \/ live \subseteq live')
           \/ /\ live' = live /\ req'[a].cred = req[a].cred
              /\ req[a].kind = "stage" \/ req[a].cred # 0
    <3>1. ~(req' = [req EXCEPT ![a].at = "denied", ![a].cred = req[a].cred])
      BY <1>1, <1>5 DEF ReqStates
    <3> QED  BY <3>1 DEF Answers
  <2>2. req'[a].kind = req[a].kind /\ \A b \in Reqs \ {a} : req'[b] = req[b]
    BY <1>1, <2>1 DEF ReqStates
  <2>3. denials'.n = 0 /\ denials'.at = denials.at  BY <1>1, <1>5
  <2>4. Counted'  BY <1>2, <1>3, <1>4, <2>3 DEF Counted
  <2>5. IF req[a].kind # "stage" THEN req'[a].cred \in live' ELSE Accepted'
    BY <1>2, <1>3, <2>1 DEF Accepted
  <2>6. InHand(req[a])'  BY <1>5, <2>2, <2>3, <2>4, <2>5 DEF InHand
  <2>7. denials'.at <= now'  BY <1>3, <2>3 DEF LoginSound
  <2> QED  BY <1>1, <1>3, <1>5, <2>2, <2>6, <2>7, OneMoves
<1>6. CASE ~(req'[a].at = "granted" /\ denials' = [denials EXCEPT !.n = 0])
  <2>1. /\ req' = [req EXCEPT ![a].at = "denied", ![a].cred = req[a].cred]
        /\ denials' = [n |-> denials.n + 1, at |-> now] /\ live' = live
    <3>1. req' = [req EXCEPT ![a].at = "granted", ![a].cred = req'[a].cred] => req'[a].at = "granted"
      BY <1>1 DEF ReqStates
    <3> QED  BY <1>6, <3>1 DEF Answers
  <2>2. /\ req'[a].at = "denied" /\ \A b \in Reqs \ {a} : req'[b] = req[b]
    BY <1>1, <2>1 DEF ReqStates
  <2>3. denials'.n = denials.n + 1 /\ denials'.at = now  BY <2>1
  <2>4. Accepted'  BY <1>2, <1>3, <2>1 DEF Accepted
  <2>5. denials'.n <= doc'.fails + 1  BY <1>1, <1>2, <1>3, <1>4, <2>3 DEF Counted
  <2>6. InHand(req[a])'  BY <2>2, <2>4, <2>5 DEF InHand
  <2>7. denials'.at <= now'  BY <1>3, <1>4, <2>3
  <2> QED  BY <1>1, <1>3, <2>2, <2>6, <2>7, OneMoves
<1> QED  BY <1>5, <1>6

LEMMA LoginsConclude ==
    ASSUME LoginSound, NEW a \in Reqs, \A b \in Reqs \ {a} : req[b].at = "idle", TypeOK',
           Alone!Conclude(a)
    PROVE  LoginSound'
<1> DEFINE Ready == req[a].at # "idle" => sv[a] = doc /\ InHand(req[a])
<1>0. Ready /\ TypeOK /\ doc \in Docs /\ now \in Nat /\ req \in [Reqs -> ReqStates] /\ sv \in [Reqs -> Docs]
  BY DEF LoginSound, TypeOK
<1>1. CASE Alone!RecordGrant(a)
  <2>1. req[a].at = "granted" /\ req[a].kind \in Updates
    BY <1>1 DEF Alone!RecordGrant, Alone!Updates, Updates
  <2>2. sv[a] = doc /\ req[a].cred \in live /\ Counted /\ denials.n = 0
    BY <1>0, <2>1 DEF InHand, Updates
  <2>3. RecordGrant(a) /\ (doc' = AfterGrant(a) \/ Written(AfterGrant(a))) /\ sv'[a] = doc'
    BY <1>0, <1>1, <2>2, AloneRecords
  <2>4. req' = [req EXCEPT ![a].at = "modes"] /\ UNCHANGED <<live, denials, now>>
    BY <2>3 DEF RecordGrant, Goto, vendor
  <2>5. AfterGrant(a).tok = req[a].cred /\ AfterGrant(a).fails \in Nat
        /\ (AfterGrant(a).last = doc.last \/ AfterGrant(a).last = now)
    BY <1>0, <2>2 DEF AfterGrant, Docs
  <2>6. AfterGrant(a) \in Docs  BY <1>0, AfterGrantType
  <2>7. doc'.tok = req[a].cred /\ doc'.fails \in Nat /\ (doc'.last = doc.last \/ doc'.last = now)
    BY <2>3, <2>5, <2>6 DEF Written, Docs
  <2>8. Accepted' /\ Counted'
    <3>1. denials'.n <= doc'.fails  BY <2>2, <2>4, <2>7
    <3>2. denials'.at <= doc'.last  BY <2>2, <2>4, <2>7 DEF Counted, LoginSound
    <3> QED  BY <2>2, <2>4, <2>7, <3>1, <3>2 DEF Accepted, Counted
  <2>9. req'[a].at = "modes" /\ \A b \in Reqs \ {a} : req'[b] = req[b]
    BY <1>0, <2>4 DEF ReqStates
  <2>10. InHand(req[a])'  BY <2>8, <2>9 DEF InHand
  <2>11. denials'.at <= now'  BY <2>4 DEF LoginSound
  <2> QED  BY <2>3, <2>9, <2>10, <2>11, OneMoves
<1>2. CASE Alone!RecordDenial(a) \/ Alone!SaveDenial(a) \/ Alone!StageDenial(a)
  <2>1. req[a].at = "denied"
    BY <1>2 DEF Alone!RecordDenial, Alone!SaveDenial, Alone!StageDenial
  <2>2. sv[a] = doc /\ Accepted /\ denials.n <= doc.fails + 1
    BY <1>0, <2>1 DEF InHand
  <2>3. /\ RecordDenial(a) \/ SaveDenial(a) \/ StageDenial(a)
        /\ Written(Failed(doc))
    BY <1>0, <1>2, <2>2, AloneRecords, AloneSaves
  <2>4. Finish(a) /\ UNCHANGED <<live, denials, now>>
    BY <2>3 DEF RecordDenial, SaveDenial, StageDenial, WriteAndFinish, vendor
  <2>5. Accepted' /\ Counted'  BY <2>2, <2>3, <2>4, RefusalCounts
  <2> QED  BY <2>4, <2>5, LoginEnds
<1>3. CASE Alone!ModesRestored(a) \/ Alone!LeaveModes(a)
  <2>1. req[a].at = "modes"
    BY <1>3 DEF Alone!ModesRestored, Alone!MayCommand, Alone!LeaveModes
  <2>2. sv[a] = doc /\ Accepted /\ Counted  BY <1>0, <2>1 DEF InHand
  <2>3. \/ ModesRestored(a) /\ Written([doc EXCEPT !.setFails = 0, !.last = now])
        \/ LeaveModes(a)
    BY <1>0, <1>3, <2>2, AloneRecords
  <2>4. Finish(a) /\ UNCHANGED <<live, denials, now>>
    BY <2>3 DEF ModesRestored, LeaveModes, WriteAndFinish, vendor
  <2>5. CASE Written([doc EXCEPT !.setFails = 0, !.last = now])
    <3>1. [doc EXCEPT !.setFails = 0, !.last = now] \in Docs
          /\ Keeps([doc EXCEPT !.setFails = 0, !.last = now])
      BY <1>0 DEF Docs, Keeps
    <3> QED  BY <2>2, <2>4, <2>5, <3>1, KeepsHold, LoginEnds
  <2>6. CASE LeaveModes(a)
    <3>1. doc' = doc  BY <2>6 DEF LeaveModes, store
    <3> QED  BY <2>2, <2>4, <3>1, LoginEnds DEF Accepted, Counted
  <2> QED  BY <2>3, <2>5, <2>6
<1>4. CASE Alone!SaveWrite(a)
  <2>1. req[a].at \in {"write", "granted"} /\ req[a].kind = "save"
    BY <1>4 DEF Alone!SaveWrite
  <2>2. /\ sv[a] = doc /\ Counted
        /\ IF req[a].at = "granted" THEN req[a].cred \in live /\ denials.n = 0
           ELSE Accepted /\ req[a].cred = doc.tok
    BY <1>0, <2>1 DEF InHand
  <2>3. /\ SaveWrite(a) /\ Written(NewSettings(a))
        /\ \/ Finish(a)
           \/ /\ req' = [req EXCEPT ![a] = [@ EXCEPT !.at = "guard", !.kind = "revert", !.ask = NoAsk]]
              /\ sv' = [sv EXCEPT ![a] = doc']
    BY <1>0, <1>4, <2>2, AloneSaves
  <2>4. UNCHANGED <<live, denials, now>>  BY <2>3 DEF SaveWrite, vendor
  <2>5. /\ NewSettings(a) \in Docs /\ NewSettings(a).tok = req[a].cred
        /\ NewSettings(a).last = doc.last \/ NewSettings(a).last = now
        /\ req[a].at = "write" => NewSettings(a).fails = doc.fails
    <3>1. NewSettings(a) \in Docs  BY <1>0, NewSettingsType
    <3>2. /\ Cleared(doc).last \in {doc.last, now} /\ Cleared(doc) \in Docs
          /\ [Cleared(doc) EXCEPT !.tok = req[a].cred] \in Docs
      BY <1>0, ClearedType DEF Cleared, Docs, ReqStates
    <3> DEFINE base == IF req[a].at = "granted" THEN [Cleared(doc) EXCEPT !.tok = req[a].cred] ELSE doc
               s == [base EXCEPT !.cfg = req[a].ask.cfg]
    <3>3. /\ base \in Docs /\ base.tok = req[a].cred /\ (base.last = doc.last \/ base.last = now)
          /\ req[a].at = "write" => base.fails = doc.fails
      BY <1>0, <2>1, <2>2, <3>2 DEF Docs
    <3>4. NewSettings(a) = IF Eligible(s) THEN Grouped(s) ELSE s
      BY <2>2 DEF NewSettings
    <3> HIDE DEF base
    <3>5. s.tok = base.tok /\ s.last = base.last /\ s.fails = base.fails
          /\ Grouped(s).tok = base.tok /\ Grouped(s).last = base.last /\ Grouped(s).fails = base.fails
      BY <3>3 DEF Grouped, Docs
    <3> HIDE DEF s
    <3> QED  BY <3>1, <3>3, <3>4, <3>5
  <2>6. /\ doc'.tok = req[a].cred /\ (doc'.last = doc.last \/ doc'.last = now) /\ doc'.fails \in Nat
        /\ req[a].at = "write" => doc'.fails = doc.fails
    BY <2>3, <2>5 DEF Written, Docs
  <2>7. Accepted' /\ Counted'
    <3>1. denials'.n <= doc'.fails  BY <2>1, <2>2, <2>4, <2>6 DEF Counted
    <3>2. denials'.at <= doc'.last  BY <2>2, <2>4, <2>6 DEF Counted, LoginSound
    <3> QED  BY <2>2, <2>4, <2>6, <3>1, <3>2 DEF Accepted, Counted
  <2>8. CASE Finish(a)  BY <2>4, <2>7, <2>8, LoginEnds
  <2>9. CASE /\ req' = [req EXCEPT ![a] = [@ EXCEPT !.at = "guard", !.kind = "revert", !.ask = NoAsk]]
             /\ sv' = [sv EXCEPT ![a] = doc']
    <3>1. /\ req'[a].at = "guard" /\ req'[a].kind = "revert" /\ req'[a].cred = req[a].cred /\ sv'[a] = doc'
          /\ \A b \in Reqs \ {a} : req'[b] = req[b]
      BY <1>0, <2>9 DEF ReqStates
    <3>2. InHand(req[a])'  BY <2>6, <2>7, <3>1 DEF InHand
    <3>3. denials'.at <= now'  BY <2>4 DEF LoginSound
    <3> QED  BY <3>1, <3>2, <3>3, OneMoves
  <2> QED  BY <2>3, <2>8, <2>9
<1>5. CASE Alone!StageGrant(a)
  <2>1. req[a].at = "granted" /\ req[a].kind = "stage"  BY <1>5 DEF Alone!StageGrant
  <2>2. sv[a] = doc /\ Accepted /\ Counted /\ denials.n = 0  BY <1>0, <2>1 DEF InHand
  <2>3. StageGrant(a) /\ (doc' = Cleared(doc) \/ Written(Cleared(doc))) /\ Finish(a)
    BY <1>0, <1>5, <2>2, AloneSaves
  <2>4. UNCHANGED <<live, denials, now>>  BY <2>3 DEF StageGrant, vendor
  <2>5. /\ Cleared(doc) \in Docs /\ Cleared(doc).tok = doc.tok
        /\ Cleared(doc).last = doc.last \/ Cleared(doc).last = now
    BY <1>0, ClearedType DEF Cleared, Docs
  <2>6. doc'.tok = doc.tok /\ (doc'.last = doc.last \/ doc'.last = now) /\ doc'.fails \in Nat
    BY <2>3, <2>5 DEF Written, Docs
  <2>7. Accepted' /\ Counted'  BY <2>2, <2>4, <2>6 DEF Accepted, Counted, LoginSound
  <2> QED  BY <2>3, <2>4, <2>7, LoginEnds
<1>6. CASE Alone!WritePrefs(a)
  <2>1. req[a].at = "prefs"  BY <1>6 DEF Alone!WritePrefs
  <2>2. sv[a] = doc /\ Accepted /\ Counted  BY <1>0, <2>1 DEF InHand
  <2> DEFINE s == [doc EXCEPT !.notif[req[a].ask.user] = req[a].ask.pref]
  <2>3. WritePrefs(a) /\ Finish(a) /\ Written(s)  BY <1>6, <2>2, AlonePrefers
  <2>4. UNCHANGED <<live, denials, now>>  BY <2>3 DEF WritePrefs, vendor
  <2>5. s \in Docs /\ Keeps(s)
    <3>1. req[a].ask.user \in Users /\ req[a].ask.pref \in Prefs  BY <1>0 DEF ReqStates, Asks
    <3> QED  BY <1>0, <3>1 DEF Docs, Keeps
  <2> HIDE DEF s
  <2> QED  BY <2>2, <2>3, <2>4, <2>5, KeepsHold, LoginEnds
<1>7. ~Alone!ModesUnauthorized(a)  BY DEF Alone!ModesUnauthorized
<1>8. ~(Alone!ReadAgain(a) \/ Alone!Unlist(a) \/ Alone!Purge(a) \/ Alone!DropSite(a) \/ Alone!AbandonDelete(a))
  <2>1. req[a].at \notin {"again", "unlist", "purge", "drop"}  BY <1>0 DEF InHand
  <2> QED  BY <2>1 DEF Alone!ReadAgain, Alone!Unlist, Alone!Purge, Alone!DropSite, Alone!AbandonDelete
<1> QED  BY <1>1, <1>2, <1>3, <1>4, <1>5, <1>6, <1>7, <1>8 DEF Alone!Conclude

(* A step of a request alone is one of SiteSettings.                          *)
LEMMA AloneStep ==
    ASSUME LoginSound, NEW a \in Reqs, Alone!Step(a)
    PROVE  Step(a)
<1>0. TypeOK /\ (req[a].at # "idle" => sv[a] = doc /\ InHand(req[a]))  BY DEF LoginSound
<1>1. CASE Alone!Begin(a)  BY <1>1, AloneBegins DEF Step, Begin
<1>2. CASE Alone!Migrate(a)
  <2>1. sv[a] = doc  BY <1>0, <1>2 DEF Alone!Migrate
  <2> QED  BY <1>2, <2>1, AloneMigrates DEF Step
<1>3. CASE Alone!StartUpdate(a) \/ Alone!SkipUpdate(a) \/ Alone!StartSave(a) \/ Alone!RejectSave(a)
  BY <1>3, AloneStarts DEF Step
<1>4. CASE Alone!Authenticate(a)  BY <1>0, <1>4, AloneAnswers DEF Step
<1>5. CASE Alone!Conclude(a)
  <2>1. req[a].at # "idle"
    BY <1>5 DEF Alone!Conclude, Alone!RecordGrant, Alone!RecordDenial, Alone!ModesUnauthorized,
       Alone!ModesRestored, Alone!MayCommand, Alone!LeaveModes, Alone!SaveDenial, Alone!SaveWrite,
       Alone!StageDenial, Alone!StageGrant, Alone!WritePrefs, Alone!ReadAgain, Alone!Unlist, Alone!Purge,
       Alone!DropSite, Alone!AbandonDelete
  <2>2. sv[a] = doc /\ req[a].at \notin {"again", "unlist", "purge", "drop"}  BY <1>0, <2>1 DEF InHand
  <2> QED  BY <1>0, <1>5, <2>2, AloneRecords, AloneSaves, AlonePrefers DEF Alone!Conclude, Step, Conclude
<1> QED  BY <1>1, <1>2, <1>3, <1>4, <1>5, AloneStarts DEF Alone!Step

LEMMA LoginsStep ==
    ASSUME LoginSound, Solo(Alone!Step) \/ Alone!Tick \/ Alone!AgeToken
    PROVE  LoginSound'
<1>1. ASSUME NEW a \in Reqs, \A b \in Reqs \ {a} : req[b].at = "idle", Alone!Step(a)
      PROVE  LoginSound'
  <2>1. TypeOK'  BY <1>1, AloneStep, NextType DEF LoginSound, Next
  <2>2. CASE Alone!Authenticate(a)
    BY <1>1, <2>1, <2>2, AloneAnswers, LoginsAnswer DEF LoginSound
  <2> QED  BY <1>1, <2>1, <2>2, LoginsBegin, LoginsMigrate, LoginsStart, LoginsConclude, AloneStarts DEF Alone!Step
<1>2. CASE Alone!Tick
  <2>1. Tick  BY <1>2 DEF Alone!Tick, Tick, Alone!store, store, Alone!vendor, vendor, Alone!ending, ending
  <2>2. TypeOK'  BY <2>1, NextType DEF LoginSound, Next
  <2>3. now' = now + 1 /\ now \in Nat /\ denials.at \in Nat /\ UNCHANGED <<doc, live, denials, req, sv>>
    BY <2>1 DEF Tick, store, vendor, LoginSound, TypeOK
  <2>4. denials'.at <= now'  BY <2>3 DEF LoginSound
  <2> QED  BY <2>2, <2>3, <2>4 DEF LoginSound, InHand, Accepted, Counted, Paced
<1>3. CASE Alone!AgeToken
  <2>1. AgeToken  BY <1>3 DEF Alone!AgeToken, AgeToken, Alone!store, store, Alone!ending, ending
  <2>2. TypeOK'  BY <2>1, NextType DEF LoginSound, Next
  <2>3. UNCHANGED <<doc, live, denials, now, req, sv>>  BY <2>1 DEF AgeToken, store
  <2> QED  BY <2>2, <2>3 DEF LoginSound, InHand, Accepted, Counted, Paced
<1> QED  BY <1>1, <1>2, <1>3 DEF Solo

(* Where requests do not overlap and no call fails, no sign-in comes before   *)
(* the backoff for the refusals in a row is over, and the token that the      *)
(* document holds is one the vendor accepts (getESSSystem, handleESSStage,    *)
(* handleUpdateSettings).                                                     *)
THEOREM LoginsHold == PartsSpec => []LoginsInv
<1> DEFINE Inv == part = "alone" => LoginSound
<1>1. PartsInit => Inv  BY AloneInit DEF PartsInit
<1>2. Inv /\ [PartsNext]_partVars => Inv'
  <2>1. SUFFICES ASSUME Inv, [PartsNext]_partVars, part' = "alone" PROVE LoginSound'  OBVIOUS
  <2>2. CASE PartsNext
    <3>1. part = "alone" /\ (Solo(Alone!Step) \/ Alone!Tick \/ Alone!AgeToken)
      BY <2>1, <2>2 DEF PartsNext
    <3> QED  BY <2>1, <3>1, LoginsStep
  <2>3. CASE UNCHANGED partVars
    <3>1. part' = part /\ UNCHANGED vars  BY <2>3 DEF partVars
    <3>2. UNCHANGED <<doc, live, denials, now, req, sv>>  BY <3>1 DEF vars
    <3>3. TypeOK'  BY <2>1, <3>1, NextType DEF LoginSound
    <3> QED  BY <2>1, <3>1, <3>2, <3>3 DEF LoginSound, InHand, Accepted, Counted, Paced
  <2> QED  BY <2>1, <2>2, <2>3
<1>3. Inv => LoginsInv
  <2>1. LoginSound => StoredTokenUsable  BY DEF LoginSound, StoredTokenUsable, Accepted
  <2>2. LoginSound => BackoffHonoured  BY DEF LoginSound, BackoffHonoured, InHand, Paced
  <2> QED  BY <2>1, <2>2 DEF LoginsInv, TokenUsable, AloneBacksOff
<1> QED  BY <1>1, <1>2, <1>3, PTL DEF PartsSpec
=============================================================================
