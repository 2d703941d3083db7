--------------------------- MODULE Documents_proofs ---------------------------
(* Documents that several requests change at once: the applications of a user,*)
(* and the two sides of membership. MCDocuments instantiates the modules of   *)
(* both, Apps as User and Membership as Members.                              *)
EXTENDS MCDocuments, FiniteSetTheorems, TLAPS

-----------------------------------------------------------------------------
(* The library's notions, as the instances see them.                          *)
LEMMA SameCardinality ==
    /\ \A S : User!Cardinality(S) = Cardinality(S)
    /\ \A S : Members!Cardinality(S) = Cardinality(S)
BY DEF User!Cardinality, Members!Cardinality, Cardinality

LEMMA SameFinite ==
    /\ \A S : User!IsFiniteSet(S) <=> IsFiniteSet(S)
    /\ \A S : Members!IsFiniteSet(S) <=> IsFiniteSet(S)
BY DEF User!IsFiniteSet, Members!IsFiniteSet, IsFiniteSet

-----------------------------------------------------------------------------
(* The applications of a user: types.                                         *)
Busy == [at : {"clean", "add", "find", "replace", "remove", "restore"},
         kind : {"list", "key", "approve", "redeem", "revoke", "overwrite"},
         a : Apps, fresh : BOOLEAN, tok : Nat,
         copy : [Apps -> User!AppRecords], todo : SUBSET Apps, left : Nat]

LEMMA BusyOrIdle ==
    /\ User!Reqs = {User!Idle} \union Busy
    /\ User!Idle.at = "idle" /\ \A q \in Busy : q.at # "idle"
BY DEF User!Reqs, Busy, User!Idle

LEMMA AppRecordTypes ==
    /\ User!None \in User!AppRecords /\ User!Pending \in User!AppRecords
    /\ \A t \in Nat : User!Live(t) \in User!AppRecords
    /\ User!None.st = "none" /\ User!Pending.st = "pending"
    /\ \A t : User!Live(t).st = "live" /\ User!Live(t).tok = t
BY DEF User!AppRecords, User!None, User!Pending, User!Live

(* The request that a step is of, and where it goes.                          *)
LEMMA RequestGoes ==
    ASSUME User!Assumptions, User!TypeOK, NEW r \in Requests, NEW q \in User!Reqs,
           User!Goes(r, q) \/ User!Fails(r, q)
    PROVE  /\ req' \in [Requests -> User!Reqs] /\ lost' \in 0..MaxLost
           /\ req'[r] = q /\ \A p \in Requests \ {r} : req'[p] = req[p]
           /\ lost' = lost \/ lost' = lost + 1
BY DEF User!Assumptions, User!TypeOK, User!Goes, User!Fails

LEMMA BusyFields ==
    \A q \in Busy : q.todo \subseteq Apps /\ q.a \in Apps /\ q.left \in Nat /\ q.tok \in Nat
BY DEF Busy

(* A record of a request, changed.                                            *)
LEMMA BusyExcept ==
    \A q \in Busy :
        /\ \A w \in {"clean", "add", "find", "replace", "remove", "restore"} : [q EXCEPT !.at = w] \in Busy
        /\ \A T \in SUBSET Apps : [q EXCEPT !.todo = T] \in Busy
        /\ \A n \in Nat : [q EXCEPT !.left = n] \in Busy /\ [q EXCEPT !.tok = n] \in Busy
        /\ \A f \in BOOLEAN : [q EXCEPT !.fresh = f] \in Busy
<1> TAKE q \in Busy
<1>1. \A w \in {"clean", "add", "find", "replace", "remove", "restore"} : [q EXCEPT !.at = w] \in Busy
  BY DEF Busy
<1>2. \A T \in SUBSET Apps : [q EXCEPT !.todo = T] \in Busy
  BY DEF Busy
<1>3. \A n \in Nat : [q EXCEPT !.left = n] \in Busy /\ [q EXCEPT !.tok = n] \in Busy
  BY DEF Busy
<1>4. \A f \in BOOLEAN : [q EXCEPT !.fresh = f] \in Busy
  BY DEF Busy
<1> QED
  BY <1>1, <1>2, <1>3, <1>4

LEMMA BusyExcepts ==
    ASSUME NEW q \in Busy, NEW w \in {"clean", "add", "find", "replace", "remove", "restore"}
    PROVE  /\ \A T \in SUBSET Apps, n \in Nat : [q EXCEPT !.at = w, !.todo = T, !.left = n] \in Busy
           /\ \A f \in BOOLEAN : [q EXCEPT !.fresh = f, !.at = w] \in Busy
           /\ \A n \in Nat : [q EXCEPT !.at = w, !.tok = n] \in Busy
<1>1. [q EXCEPT !.at = w] \in Busy
  BY BusyExcept
<1>2. ASSUME NEW T \in SUBSET Apps, NEW n \in Nat PROVE [q EXCEPT !.at = w, !.todo = T, !.left = n] \in Busy
  <2>1. [[q EXCEPT !.at = w] EXCEPT !.todo = T] \in Busy
    BY <1>1, BusyExcept
  <2>2. [[[q EXCEPT !.at = w] EXCEPT !.todo = T] EXCEPT !.left = n] \in Busy
    BY <2>1, BusyExcept
  <2> QED
    BY <2>2
<1>3. ASSUME NEW f \in BOOLEAN PROVE [q EXCEPT !.fresh = f, !.at = w] \in Busy
  <2>1. [q EXCEPT !.fresh = f] \in Busy
    BY BusyExcept
  <2>2. [[q EXCEPT !.fresh = f] EXCEPT !.at = w] \in Busy
    BY <2>1, BusyExcept
  <2> QED
    BY <2>2
<1>4. ASSUME NEW n \in Nat PROVE [q EXCEPT !.at = w, !.tok = n] \in Busy
  <2>1. [[q EXCEPT !.at = w] EXCEPT !.tok = n] \in Busy
    BY <1>1, BusyExcept
  <2> QED
    BY <2>1
<1> QED
  BY <1>2, <1>3, <1>4

LEMMA LostNat == ASSUME User!Assumptions, User!TypeOK PROVE lost \in Nat
BY DEF User!Assumptions, User!TypeOK

LEMMA BlankType ==
    ASSUME User!TypeOK, NEW k \in {"list", "key", "approve", "redeem", "revoke", "overwrite"}, NEW a \in Apps
    PROVE  User!Blank(k, a) \in Busy
BY DEF User!TypeOK, User!Blank, Busy

(* The application that a busy request is of, and what it holds.              *)
LEMMA BusyHere ==
    ASSUME User!TypeOK PROVE \A r \in Requests : req[r] = User!Idle \/ req[r] \in Busy
BY BusyOrIdle DEF User!TypeOK

LEMMA FinitePresent ==
    ASSUME User!Assumptions
    PROVE  \A m, T : /\ IsFiniteSet(User!Present(m))
                     /\ T \subseteq User!Stale(m) => T \subseteq User!Present(m) /\ User!Remaining(m, T) \in Nat
<1> TAKE m, T
<1>1. IsFiniteSet(Apps)
  BY SameFinite DEF User!Assumptions
<1>2. IsFiniteSet(User!Present(m))
  BY <1>1, FS_Subset DEF User!Present
<1>3. ASSUME T \subseteq User!Stale(m) PROVE T \subseteq User!Present(m)
  BY <1>3 DEF User!Stale, User!Present
<1>4. ASSUME T \subseteq User!Stale(m) PROVE User!Remaining(m, T) \in Nat
  <2>1. Cardinality(T) <= Cardinality(User!Present(m)) /\ Cardinality(T) \in Nat /\ Cardinality(User!Present(m)) \in Nat
    BY <1>2, <1>3, <1>4, FS_Subset, FS_CardinalityType
  <2>2. User!Remaining(m, T) = Cardinality(User!Present(m)) - Cardinality(T)
    BY SameCardinality DEF User!Remaining
  <2> QED
    BY <2>1, <2>2
<1> QED
  BY <1>2, <1>3, <1>4

(* Every step keeps the types.                                                *)
LEMMA UserTypesStep ==
    ASSUME User!Assumptions, User!TypeOK, [User!Next]_User!vars PROVE User!TypeOK'
<1> USE BusyOrIdle, AppRecordTypes
<1>1. CASE User!Expire
  BY <1>1 DEF User!Expire, User!TypeOK
<1>2. ASSUME NEW r \in Requests, User!BeginNew(r) \/ User!BeginList(r) PROVE User!TypeOK'
  <2>1. PICK k \in {"list", "key", "approve"}, a \in Apps : User!BeginClean(r, k, a)
    BY <1>2 DEF User!BeginNew, User!BeginList
  <2>2. PICK T \in User!CleanupSets(app) :
            /\ User!Begins(r, [User!Blank(k, a) EXCEPT !.at = "clean", !.todo = T, !.left = User!Remaining(app, T)])
            /\ UNCHANGED <<expired, codes, held, issued, tries, revoked, intact>>
    BY <2>1 DEF User!BeginClean
  <2>3. T \subseteq User!Stale(app) /\ User!Remaining(app, T) \in Nat /\ T \subseteq Apps
    BY FinitePresent DEF User!CleanupSets, User!Stale
  <2>4. [User!Blank(k, a) EXCEPT !.at = "clean", !.todo = T, !.left = User!Remaining(app, T)] \in Busy
    BY <2>3, BlankType, BusyExcepts
  <2>5. req' \in [Requests -> User!Reqs] /\ lost' \in 0..MaxLost
    BY <2>2, <2>4, RequestGoes DEF User!Begins
  <2>6. used' \subseteq Apps
    BY <1>2 DEF User!BeginNew, User!BeginList, User!TypeOK
  <2> QED
    BY <2>2, <2>5, <2>6 DEF User!Begins, User!TypeOK, User!Assumptions
<1>3. ASSUME NEW r \in Requests, User!Clean(r) PROVE User!TypeOK'
  <2>1. req[r] \in Busy
    BY <1>3, BusyHere DEF User!Clean
  <2>2. PICK a \in req[r].todo :
            LET q == req[r]  rest == [q EXCEPT !.todo = @ \ {a}] IN
            \/ app[a].st # "none"
               /\ User!Changed(r, [app EXCEPT ![a] = User!None], rest, [rest EXCEPT !.left = @ + 1])
            \/ app[a].st = "none" /\ User!Goes(r, rest) /\ UNCHANGED app
            \/ User!Unchanged(r, [rest EXCEPT !.left = @ + 1])
    BY <1>3 DEF User!Clean
  <2> DEFINE rest == [req[r] EXCEPT !.todo = @ \ {a}]
  <2>3. rest \in Busy /\ [rest EXCEPT !.left = @ + 1] \in Busy
    <3>1. rest \in Busy
      BY <2>1, BusyFields, BusyExcept
    <3> HIDE DEF rest
    <3>2. rest.left + 1 \in Nat
      BY <3>1, BusyFields
    <3> QED
      BY <3>1, <3>2, BusyExcept
  <2>4. req' \in [Requests -> User!Reqs] /\ lost' \in 0..MaxLost
    BY <2>1, <2>2, <2>3, RequestGoes DEF User!Changed, User!Unchanged
  <2>5. app' \in [Apps -> User!AppRecords]
    BY <2>2 DEF User!Changed, User!Unchanged, User!TypeOK
  <2> QED
    BY <1>3, <2>4, <2>5 DEF User!Clean, User!TypeOK
<1>4. ASSUME NEW r \in Requests, User!Count(r) \/ User!Stop(r) PROVE User!TypeOK'
  <2>1. req[r] \in Busy
    BY <1>4, BusyHere DEF User!Count, User!Stop
  <2>2. PICK q \in {User!Idle, [req[r] EXCEPT !.at = "add"]} : User!Goes(r, q) \/ User!Fails(r, q)
    BY <1>4 DEF User!Count, User!Stop
  <2>3. q \in User!Reqs
    BY <2>1 DEF Busy
  <2>4. req' \in [Requests -> User!Reqs] /\ lost' \in 0..MaxLost
    BY <2>2, <2>3, RequestGoes
  <2> QED
    BY <1>4, <2>4 DEF User!Count, User!Stop, User!TypeOK
<1>5. ASSUME NEW r \in Requests, User!Add(r) PROVE User!TypeOK'
  <2>1. req[r] \in Busy
    BY <1>5, BusyHere DEF User!Add
  <2>2. PICK q \in {User!Idle, req[r]} : User!Goes(r, q) \/ User!Fails(r, q)
    BY <1>5 DEF User!Add, User!Changed, User!Unchanged
  <2>3. req' \in [Requests -> User!Reqs] /\ lost' \in 0..MaxLost
    BY <2>1, <2>2, RequestGoes
  <2>4. req[r].a \in Apps
    BY <2>1 DEF Busy
  <2>5. app' \in [Apps -> User!AppRecords]
    BY <1>5, <2>4 DEF User!Add, User!Changed, User!Unchanged, User!TypeOK
  <2> QED
    BY <1>5, <2>3, <2>4, <2>5 DEF User!Add, User!TypeOK
<1>6. ASSUME NEW r \in Requests, User!BeginRedeem(r) PROVE User!TypeOK'
  <2>1. PICK a \in codes, valid \in BOOLEAN :
            LET fresh == a \notin expired IN
            /\ User!Begins(r, [User!Blank("redeem", a) EXCEPT !.fresh = fresh,
                                             !.at = IF valid THEN "find" ELSE "remove"])
            /\ tries' = IF fresh THEN [tries EXCEPT ![a] = @ + 1] ELSE tries
    BY <1>6 DEF User!BeginRedeem
  <2>2. a \in Apps
    BY DEF User!TypeOK
  <2>3. \A f \in BOOLEAN, w \in {"find", "remove"} : [User!Blank("redeem", a) EXCEPT !.fresh = f, !.at = w] \in Busy
    BY <2>2, BlankType, BusyExcepts
  <2>4. req' \in [Requests -> User!Reqs] /\ lost' \in 0..MaxLost
    BY <2>1, <2>3, RequestGoes DEF User!Begins
  <2> QED
    BY <1>6, <2>1, <2>2, <2>4 DEF User!BeginRedeem, User!Begins, User!TypeOK, User!Assumptions
<1>7. ASSUME NEW r \in Requests, User!Find(r) PROVE User!TypeOK'
  <2>1. req[r] \in Busy
    BY <1>7, BusyHere DEF User!Find
  <2>2. /\ [req[r] EXCEPT !.at = "remove"] \in Busy
        /\ [req[r] EXCEPT !.at = "replace", !.tok = issued + 1] \in Busy
    <3>1. issued + 1 \in Nat
      BY DEF User!TypeOK
    <3> QED
      BY <2>1, <3>1, BusyExcept, BusyExcepts
  <2>3. req' \in [Requests -> User!Reqs] /\ lost' \in 0..MaxLost
    BY <1>7, <2>2, RequestGoes DEF User!Find
  <2> QED
    BY <1>7, <2>3 DEF User!Find, User!TypeOK
<1>8. ASSUME NEW r \in Requests, User!Replace(r) PROVE User!TypeOK'
  <2>1. req[r] \in Busy
    BY <1>8, BusyHere DEF User!Replace
  <2>2. [req[r] EXCEPT !.at = "remove"] \in Busy /\ req[r].a \in Apps /\ req[r].tok \in Nat
    BY <2>1 DEF Busy
  <2>3. req' \in [Requests -> User!Reqs] /\ lost' \in 0..MaxLost
    BY <1>8, <2>1, <2>2, RequestGoes DEF User!Replace, User!Changed, User!Unchanged, User!AfterConflict
  <2>4. app' \in [Apps -> User!AppRecords]
    BY <1>8, <2>2 DEF User!Replace, User!Changed, User!Unchanged, User!TypeOK
  <2> QED
    BY <1>8, <2>2, <2>3, <2>4 DEF User!Replace, User!TypeOK
<1>9. ASSUME NEW r \in Requests, User!BeginRevoke(r) \/ User!BeginOverwrite(r) PROVE User!TypeOK'
  <2>1. PICK k \in {"revoke", "overwrite"}, w \in {"remove", "restore"}, a \in Apps :
            User!Begins(r, [User!Blank(k, a) EXCEPT !.at = w])
    BY <1>9 DEF User!BeginRevoke, User!BeginOverwrite, User!Present
  <2>2. [User!Blank(k, a) EXCEPT !.at = w] \in Busy
    BY BlankType DEF Busy
  <2>3. req' \in [Requests -> User!Reqs] /\ lost' \in 0..MaxLost
    BY <2>1, <2>2, RequestGoes DEF User!Begins
  <2> QED
    BY <1>9, <2>1, <2>3 DEF User!BeginRevoke, User!BeginOverwrite, User!Begins, User!TypeOK, User!Assumptions
<1>10. ASSUME NEW r \in Requests, User!Remove(r) \/ User!Restore(r) PROVE User!TypeOK'
  <2>1. req[r] \in Busy
    BY <1>10, BusyHere DEF User!Remove, User!Restore
  <2>2. req[r].a \in Apps /\ req[r].copy \in [Apps -> User!AppRecords]
    BY <2>1 DEF Busy
  <2>3. PICK q \in {User!Idle, req[r]} : User!Goes(r, q) \/ User!Fails(r, q)
    BY <1>10 DEF User!Remove, User!Restore, User!Changed, User!Unchanged
  <2>4. req' \in [Requests -> User!Reqs] /\ lost' \in 0..MaxLost
    BY <2>1, <2>3, RequestGoes
  <2>5. app' \in [Apps -> User!AppRecords] /\ revoked' \subseteq Apps /\ intact' \in BOOLEAN
    BY <1>10, <2>2 DEF User!Remove, User!Restore, User!Changed, User!Unchanged, User!TypeOK
  <2> QED
    BY <1>10, <2>4, <2>5 DEF User!Remove, User!Restore, User!TypeOK
<1>11. CASE UNCHANGED User!vars
  BY <1>11 DEF User!vars, User!TypeOK
<1> QED
  BY <1>1, <1>2, <1>3, <1>4, <1>5, <1>6, <1>7, <1>8, <1>9, <1>10, <1>11 DEF User!Next

-----------------------------------------------------------------------------
(* The applications of a user: codes, tokens and revocations.                 *)

(* A request that has generated an id and may add the application; one that   *)
(* redeems a code that was valid when it came in.                             *)
Adds(q) == q.at \in {"clean", "add"} /\ q.kind \in {"key", "approve"}
Redeems(q, a) == q.at # "idle" /\ q.kind = "redeem" /\ q.fresh = TRUE /\ q.a = a
Going(a) == {r \in Requests : Redeems(req[r], a)}

(* Where the kinds of requests get to.                                        *)
Shape(q) ==
    /\ q.at = "add" => q.kind \in {"key", "approve"} /\ q.todo = {} /\ q.left < MaxApps
    /\ q.at = "clean" => q.kind \in {"key", "approve", "list"}
    /\ q.at \in {"find", "replace"} => q.kind = "redeem"
    /\ q.at = "replace" => q.fresh = TRUE
    /\ q.at = "restore" => q.kind = "overwrite"

(* A redemption is of a code that a client holds; a revocation is of an       *)
(* application that nobody is about to add, unless a reply was lost; an id    *)
(* that is to be added is nobody else's: no code, no token, no trace of it.   *)
RequestInv(r) ==
    /\ Shape(req[r])
    /\ req[r].at # "idle" /\ req[r].kind = "redeem" => req[r].a \in codes
    /\ req[r].at # "idle" /\ req[r].kind = "revoke" =>
        /\ req[r].a \in used
        /\ lost = 0 => \A p \in Requests : Adds(req[p]) => req[p].a # req[r].a
    /\ Adds(req[r]) =>
        /\ req[r].a \in used \ codes
        /\ \A h \in held : h[1] # req[r].a
        /\ lost = 0 => app[req[r].a].st = "none" /\ req[r].a \notin revoked
        /\ \A p \in Requests : Adds(req[p]) /\ req[p].a = req[r].a => p = r

(* Only ids that were generated are present, have codes or are revoked; an    *)
(* application accepts the one token of it that was handed out; and until     *)
(* something fails, each valid redemption of an application that is still     *)
(* there is either under way or the one that succeeded.                       *)
AppInv(a) ==
    /\ a \in used \/ (app[a].st = "none" /\ a \notin codes /\ a \notin revoked)
    /\ \A h \in held : h[1] = a =>
        /\ a \in used
        /\ app[a].st = "none" \/ app[a] = User!Live(h[2])
        /\ \A g \in held : g[1] = a => g = h
    /\ lost = 0 =>
        /\ a \in revoked => app[a].st = "none"
        /\ a \notin codes => tries[a] = 0
        /\ a \in codes /\ app[a].st = "pending" => tries[a] = Cardinality(Going(a))
        /\ a \in codes /\ app[a].st = "live" => tries[a] = Cardinality(Going(a)) + 1
CodesInv == (\A r \in Requests : RequestInv(r)) /\ (\A a \in Apps : AppInv(a))

(* A request that goes on as what it is, or ends, without having written      *)
(* anything but a removal; a redemption that ends so found its app gone.      *)
Quietly(r, q) ==
    /\ req' = [req EXCEPT ![r] = q] /\ q \in User!Reqs
    /\ lost' >= lost
    /\ Shape(q)
    /\ q.at # "idle" => /\ req[r].at # "idle"
                        /\ q.kind = req[r].kind /\ q.a = req[r].a /\ q.fresh = req[r].fresh
    /\ Adds(q) => Adds(req[r])
    /\ app' = app \/ \E b \in Apps : app' = [app EXCEPT ![b] = User!None]
    /\ lost' = 0 /\ q.at = "idle" => \A a \in Apps : Redeems(req[r], a) => app'[a].st = "none"
    /\ UNCHANGED <<used, codes, held, tries, revoked>>

LEMMA GoingSame ==
    ASSUME User!TypeOK, NEW r \in Requests, NEW q, req' = [req EXCEPT ![r] = q]
    PROVE  \A a : (Redeems(q, a) <=> Redeems(req[r], a)) => Going(a)' = Going(a)
<1>1. \A p \in Requests : req'[p] = IF p = r THEN q ELSE req[p]
  BY DEF User!TypeOK
<1> QED
  BY <1>1 DEF Going

LEMMA QuietKeeps ==
    ASSUME User!Assumptions, User!TypeOK, CodesInv, NEW r \in Requests, NEW q, Quietly(r, q)
    PROVE  CodesInv'
<1> USE BusyOrIdle, AppRecordTypes
<1>1. req'[r] = q /\ \A p \in Requests \ {r} : req'[p] = req[p]
  BY DEF Quietly, User!TypeOK
<1>2. lost \in Nat /\ lost' >= lost /\ (lost' = 0 => lost = 0)
  BY DEF Quietly, User!TypeOK, User!Assumptions
<1>3. \A a \in Apps : app'[a] = app[a] \/ app'[a] = User!None
  BY DEF Quietly, User!TypeOK
<1>4. \A p \in Requests : Adds(req'[p]) => Adds(req[p]) /\ req'[p].a = req[p].a
  BY <1>1 DEF Quietly, Adds
<1>5. ASSUME NEW p \in Requests PROVE RequestInv(p)'
  <2>1. RequestInv(p)
    BY DEF CodesInv
  <2>2. Shape(req'[p])
    BY <2>1, <1>1 DEF RequestInv, Quietly
  <2>3. req'[p].at # "idle" => req[p].at # "idle" /\ req'[p].kind = req[p].kind /\ req'[p].a = req[p].a
    BY <1>1 DEF Quietly
  <2>4. Adds(req[p]) => req[p].a \in Apps
    BY BusyHere, BusyFields DEF Adds
  <2>5. UNCHANGED <<used, codes, held, tries, revoked>>
    BY DEF Quietly
  <2> QED
    BY <2>1, <2>2, <2>3, <2>4, <2>5, <1>2, <1>3, <1>4 DEF RequestInv
<1>6. ASSUME NEW a \in Apps PROVE AppInv(a)'
  <2>1. AppInv(a)
    BY DEF CodesInv
  <2>2. UNCHANGED <<used, codes, held, tries, revoked>>
    BY DEF Quietly
  <2>3. lost' = 0 /\ app'[a].st # "none" => Going(a)' = Going(a)
    <3>1. lost' = 0 /\ app'[a].st # "none" => (Redeems(q, a) <=> Redeems(req[r], a))
      BY DEF Quietly, Redeems
    <3>2. req' = [req EXCEPT ![r] = q]
      BY DEF Quietly
    <3>3. (Redeems(q, a) <=> Redeems(req[r], a)) => Going(a)' = Going(a)
      BY <3>2, GoingSame
    <3> QED
      BY <3>1, <3>3
  <2> QED
    BY <2>1, <2>2, <2>3, <1>2, <1>3 DEF AppInv
<1> QED
  BY <1>5, <1>6 DEF CodesInv

(* A request that begins: on an id generated for it, on a code, on an         *)
(* application that is present, or on none.                                   *)
Opens(r, q) ==
    /\ req[r].at = "idle" /\ q \in Busy /\ req' = [req EXCEPT ![r] = q]
    /\ Shape(q)
    /\ used \subseteq used'
    /\ Adds(q) => q.a \in used' \ used
    /\ q.kind = "redeem" => q.a \in codes
    /\ q.kind = "revoke" => app[q.a].st # "none"
    /\ tries' = IF Redeems(q, q.a) THEN [tries EXCEPT ![q.a] = @ + 1] ELSE tries
    /\ UNCHANGED <<app, codes, held, revoked, lost>>

LEMMA FiniteGoing ==
    ASSUME User!Assumptions PROVE \A a : IsFiniteSet(Going(a)) /\ Cardinality(Going(a)) \in Nat
<1>1. IsFiniteSet(Requests)
  BY SameFinite DEF User!Assumptions
<1> QED
  BY <1>1, FS_Subset, FS_CardinalityType DEF Going

LEMMA OpeningKeeps ==
    ASSUME User!Assumptions, User!TypeOK, CodesInv, NEW r \in Requests, NEW q, Opens(r, q)
    PROVE  CodesInv'
<1> USE BusyOrIdle
<1>1. req'[r] = q /\ \A p \in Requests \ {r} : req'[p] = req[p]
  BY DEF Opens, User!TypeOK
<1>2. UNCHANGED <<app, codes, held, revoked, lost>> /\ used \subseteq used'
  BY DEF Opens
<1>3. q.a \in Apps /\ q.at # "idle"
  BY BusyFields DEF Opens
<1>4. Adds(q) => /\ q.a \in used' \ used /\ app[q.a].st = "none" /\ q.a \notin codes /\ q.a \notin revoked
                 /\ \A h \in held : h[1] # q.a
  BY <1>3 DEF Opens, CodesInv, AppInv
<1>5. \A p \in Requests : Adds(req[p]) => req[p].a \in used /\ p # r
  BY DEF CodesInv, RequestInv, Opens, Adds
<1>6. ASSUME NEW p \in Requests \ {r} PROVE RequestInv(p)'
  <2>1. RequestInv(p) /\ req'[p] = req[p]
    BY <1>1 DEF CodesInv
  <2>2. req[p].at # "idle" /\ req[p].kind = "revoke" /\ Adds(q) => req[p].a # q.a
    BY <2>1, <1>4 DEF RequestInv
  <2>3. Adds(req[p]) /\ Adds(q) => req[p].a # q.a
    BY <1>4, <1>5
  <2> QED
    BY <2>1, <2>2, <2>3, <1>1, <1>2 DEF RequestInv
<1>7. RequestInv(r)'
  <2>1. Shape(q) /\ (q.kind = "redeem" => q.a \in codes)
    BY DEF Opens
  <2>2. q.kind = "revoke" => q.a \in used
    BY <1>3 DEF Opens, CodesInv, AppInv
  <2>3. q.kind = "revoke" /\ lost = 0 => \A p \in Requests \ {r} : Adds(req[p]) => req[p].a # q.a
    BY DEF Opens, CodesInv, RequestInv
  <2>4. q.kind = "revoke" => ~Adds(q)
    BY DEF Adds
  <2>5. \A p \in Requests \ {r} : Adds(req[p]) /\ Adds(q) => req[p].a # q.a
    BY <1>4, <1>5
  <2> QED
    BY <2>1, <2>2, <2>3, <2>4, <2>5, <1>1, <1>2, <1>4 DEF RequestInv
<1>8. ASSUME NEW a \in Apps PROVE AppInv(a)'
  <2>1. AppInv(a)
    BY DEF CodesInv
  <2>2. ~Redeems(req[r], a)
    BY DEF Opens, Redeems
  <2>3. CASE Redeems(q, a)
    <3>1. Going(a)' = Going(a) \union {r} /\ r \notin Going(a)
      BY <1>1, <2>2, <2>3 DEF Going
    <3>2. Cardinality(Going(a)') = Cardinality(Going(a)) + 1
      BY <3>1, FiniteGoing, FS_AddElement
    <3>3. q.a = a /\ a \in codes /\ tries'[a] = tries[a] + 1
      BY <2>3 DEF Opens, Redeems, User!TypeOK
    <3> QED
      BY <2>1, <3>2, <3>3, <1>2, FiniteGoing DEF AppInv, User!TypeOK
  <2>4. CASE ~Redeems(q, a)
    <3>1. req' = [req EXCEPT ![r] = q]
      BY DEF Opens
    <3>2. Going(a)' = Going(a)
      BY <2>2, <2>4, <3>1, GoingSame
    <3>3. tries'[a] = tries[a]
      BY <1>3, <2>4 DEF Opens, Redeems, User!TypeOK
    <3> QED
      BY <2>1, <3>2, <3>3, <1>2 DEF AppInv
  <2> QED
    BY <2>3, <2>4
<1> QED
  BY <1>6, <1>7, <1>8 DEF CodesInv

(* An application is added; the answer, or its loss, tells who knows of it.   *)
Adding(r, q, v) ==
    LET a == req[r].a IN
    /\ req[r].at = "add" /\ req' = [req EXCEPT ![r] = q]
    /\ app' = [app EXCEPT ![a] = v]
    /\ \/ /\ q = User!Idle /\ lost' = lost
          /\ \/ v = User!Pending /\ codes' = codes \union {a} /\ held' = held
             \/ \E t \in Nat : v = User!Live(t) /\ codes' = codes /\ held' = held \union {<<a, t>>}
       \/ /\ q \in {User!Idle, req[r]} /\ lost' = lost + 1 /\ UNCHANGED <<codes, held>>
    /\ UNCHANGED <<used, tries, revoked>>

LEMMA AddingKeeps ==
    ASSUME User!Assumptions, User!TypeOK, CodesInv, NEW r \in Requests, NEW q, NEW v, Adding(r, q, v)
    PROVE  CodesInv'
<1> USE BusyOrIdle, AppRecordTypes
<1> DEFINE b == req[r].a
<1>1. req'[r] = q /\ \A p \in Requests \ {r} : req'[p] = req[p]
  BY DEF Adding, User!TypeOK
<1>2. RequestInv(r) /\ Adds(req[r]) /\ b \in Apps
  BY BusyHere, BusyFields DEF Adding, CodesInv, RequestInv, Shape, Adds
<1>3. UNCHANGED <<used, tries, revoked>> /\ lost \in Nat /\ (lost' = 0 => lost = 0 /\ q = User!Idle)
  BY DEF Adding, User!TypeOK, User!Assumptions
<1>4. codes \subseteq codes' /\ codes' \subseteq codes \union {b} /\ held \subseteq held'
  BY DEF Adding
<1>5. \A h \in held' : h \in held \/ h[1] = b
  BY DEF Adding
<1>6. \A a \in Apps \ {b} : app'[a] = app[a]
  BY DEF Adding, User!TypeOK
<1>7. app'[b] = v
  BY <1>2 DEF Adding, User!TypeOK
<1>8. ASSUME NEW p \in Requests \ {r} PROVE RequestInv(p)'
  <2>1. RequestInv(p) /\ req'[p] = req[p]
    BY <1>1 DEF CodesInv
  <2>2. Adds(req[p]) => req[p].a # b /\ req[p].a \in Apps
    BY <1>2, BusyHere, BusyFields DEF RequestInv, Adds
  <2>3. \A p1 \in Requests : Adds(req'[p1]) => Adds(req[p1]) /\ req'[p1].a = req[p1].a
    BY <1>1, <1>2 DEF Adding, Adds
  <2> QED
    BY <2>1, <2>2, <2>3, <1>3, <1>4, <1>5, <1>6 DEF RequestInv
<1>9. RequestInv(r)'
  <2>1. CASE q = User!Idle
    BY <2>1, <1>1 DEF RequestInv, Adds, Shape
  <2>2. CASE q = req[r] /\ q # User!Idle
    <3>1. lost' # 0 /\ UNCHANGED <<codes, held>>
      BY <2>2, <1>3 DEF Adding
    <3>2. req' = req
      BY <2>2 DEF Adding, User!TypeOK
    <3> QED
      BY <1>2, <1>3, <3>1, <3>2 DEF RequestInv
  <2> QED
    BY <2>1, <2>2 DEF Adding
<1>10. ASSUME NEW a \in Apps PROVE AppInv(a)'
  <2>1. AppInv(a)
    BY DEF CodesInv
  <2>2. \A a1 : ~Redeems(req[r], a1) /\ ~Redeems(q, a1)
    BY <1>2 DEF Redeems, Adds, Adding
  <2>3. Going(a)' = Going(a)
    BY <2>2, GoingSame DEF Adding
  <2>4. CASE a # b
    <3>1. app'[a] = app[a] /\ (a \in codes' <=> a \in codes)
      BY <2>4, <1>4, <1>6
    <3>2. \A h \in held' : h[1] = a => h \in held
      BY <2>4, <1>5
    <3> QED
      BY <2>1, <2>3, <3>1, <3>2, <1>3, <1>4 DEF AppInv
  <2>5. CASE a = b
    <3>1. a \in used /\ a \notin codes /\ (\A h \in held : h[1] # a) /\ (lost = 0 => a \notin revoked)
      BY <1>2, <2>5 DEF RequestInv
    <3>2. \A h \in held' : h[1] = a => app'[a] = User!Live(h[2]) /\ \A g \in held' : g[1] = a => g = h
      BY <3>1, <2>5, <1>7 DEF Adding
    <3>3. \A p \in Requests : ~Redeems(req[p], a)
      BY <3>1 DEF CodesInv, RequestInv, Redeems
    <3>4. Going(a) = {}
      BY <3>3 DEF Going
    <3>5. Cardinality(Going(a)) = 0
      BY <3>4, FS_EmptySet
    <3>6. lost' = 0 => tries'[a] = 0 /\ (a \in codes' => app'[a].st = "pending") /\ a \notin revoked'
      BY <2>1, <2>5, <3>1, <1>3, <1>7 DEF AppInv, Adding
    <3> QED
      BY <2>3, <3>1, <3>2, <3>5, <3>6, <1>3 DEF AppInv
  <2> QED
    BY <2>4, <2>5
<1> QED
  BY <1>8, <1>9, <1>10 DEF CodesInv

(* A pending application takes the token of its code.                         *)
Replacing(r, q) ==
    LET a == req[r].a  t == req[r].tok IN
    /\ req[r].at = "replace" /\ app[a].st = "pending"
    /\ app' = [app EXCEPT ![a] = User!Live(t)] /\ req' = [req EXCEPT ![r] = q]
    /\ \/ q = User!Idle /\ lost' = lost /\ held' = held \union {<<a, t>>}
       \/ q \in {req[r], [req[r] EXCEPT !.at = "remove"]} /\ lost' = lost + 1 /\ held' = held
    /\ UNCHANGED <<used, codes, tries, revoked>>

LEMMA ReplacingKeeps ==
    ASSUME User!Assumptions, User!TypeOK, CodesInv, NEW r \in Requests, NEW q, Replacing(r, q)
    PROVE  CodesInv'
<1> USE BusyOrIdle, AppRecordTypes
<1> DEFINE b == req[r].a
<1>1. req'[r] = q /\ \A p \in Requests \ {r} : req'[p] = req[p]
  BY DEF Replacing, User!TypeOK
<1>2. RequestInv(r) /\ req[r] \in Busy
  BY BusyHere DEF Replacing, CodesInv
<1>3. b \in codes /\ b \in Apps /\ AppInv(b) /\ Redeems(req[r], b) /\ ~Adds(req[r])
  BY <1>2, BusyFields DEF Replacing, RequestInv, Shape, CodesInv, Redeems, Adds
<1>4. UNCHANGED <<used, codes, tries, revoked>> /\ lost \in Nat /\ (lost' = 0 => lost = 0 /\ q = User!Idle)
  BY DEF Replacing, User!TypeOK, User!Assumptions
<1>5. held \subseteq held' /\ held' \subseteq held \union {<<b, req[r].tok>>}
  BY DEF Replacing
<1>6. app'[b] = User!Live(req[r].tok) /\ \A a \in Apps \ {b} : app'[a] = app[a]
  BY <1>3 DEF Replacing, User!TypeOK
<1>7. \A h \in held : h[1] # b
  BY <1>3 DEF AppInv, Replacing
<1>8. ~Adds(q) /\ \A p \in Requests : Adds(req'[p]) => Adds(req[p]) /\ req'[p].a = req[p].a
  <2>1. ~Adds(q)
    BY <1>2, <1>3 DEF Replacing, Adds, Busy
  <2> QED
    BY <2>1, <1>1
<1>9. ASSUME NEW p \in Requests \ {r} PROVE RequestInv(p)'
  <2>1. RequestInv(p) /\ req'[p] = req[p]
    BY <1>1 DEF CodesInv
  <2>2. Adds(req[p]) => req[p].a # b /\ req[p].a \in Apps
    BY <1>3, <2>1, BusyHere, BusyFields DEF RequestInv, Adds
  <2> QED
    BY <2>1, <2>2, <1>4, <1>5, <1>6, <1>8 DEF RequestInv
<1>10. RequestInv(r)'
  <2>1. CASE q = User!Idle
    BY <2>1, <1>1 DEF RequestInv, Adds, Shape
  <2>2. CASE q # User!Idle
    <3>1. q.kind = "redeem" /\ q.a = b /\ q.at \in {"replace", "remove"} /\ (q.at = "replace" => q.fresh = TRUE)
      BY <1>2, <1>3, <2>2 DEF Replacing, Redeems, Busy
    <3>2. Shape(q)
      BY <3>1 DEF Shape
    <3> QED
      BY <3>1, <3>2, <1>1, <1>3, <1>4, <1>8 DEF RequestInv
  <2> QED
    BY <2>1, <2>2
<1>11. ASSUME NEW a \in Apps PROVE AppInv(a)'
  <2>1. AppInv(a)
    BY DEF CodesInv
  <2>2. CASE a # b
    <3>1. ~Redeems(req[r], a)
      BY <2>2 DEF Redeems
    <3>2. lost' = 0 => ~Redeems(q, a)
      BY <1>4 DEF Redeems
    <3>3. req' = [req EXCEPT ![r] = q]
      BY DEF Replacing
    <3>4. lost' = 0 => Going(a)' = Going(a)
      BY <3>1, <3>2, <3>3, GoingSame
    <3>5. app'[a] = app[a] /\ \A h \in held' : h[1] = a => h \in held
      BY <2>2, <1>5, <1>6
    <3> QED
      BY <2>1, <3>4, <3>5, <1>4, <1>5 DEF AppInv
  <2>3. CASE a = b
    <3>1. \A h \in held' : h[1] = a => h = <<b, req[r].tok>>
      BY <1>5, <1>7, <2>3
    <3>2. a \in used /\ (lost = 0 => a \notin revoked /\ tries[a] = Cardinality(Going(a)))
      BY <1>3, <2>3 DEF AppInv, Replacing
    <3>3. ASSUME lost' = 0 PROVE tries'[a] = Cardinality(Going(a)') + 1
      <4>1. Going(a)' = Going(a) \ {r} /\ r \in Going(a)
        BY <1>1, <1>3, <1>4, <2>3, <3>3 DEF Going, Redeems
      <4>2. Cardinality(Going(a)') = Cardinality(Going(a)) - 1
        BY <4>1, FiniteGoing, FS_RemoveElement
      <4> QED
        BY <3>2, <3>3, <4>2, <1>4, FiniteGoing
    <3> QED
      BY <3>1, <3>2, <3>3, <1>3, <1>4, <1>6, <2>3 DEF AppInv
  <2> QED
    BY <2>2, <2>3
<1> QED
  BY <1>9, <1>10, <1>11 DEF CodesInv

(* A revocation is answered.                                                  *)
Revoking(r) ==
    /\ req[r].at = "remove" /\ req[r].kind = "revoke"
    /\ app' = [app EXCEPT ![req[r].a] = User!None]
    /\ req' = [req EXCEPT ![r] = User!Idle]
    /\ revoked' = revoked \union {req[r].a}
    /\ UNCHANGED <<used, codes, held, tries, lost>>

LEMMA RevokingKeeps ==
    ASSUME User!Assumptions, User!TypeOK, CodesInv, NEW r \in Requests, Revoking(r)
    PROVE  CodesInv'
<1> USE BusyOrIdle, AppRecordTypes
<1> DEFINE b == req[r].a
<1>1. req'[r] = User!Idle /\ \A p \in Requests \ {r} : req'[p] = req[p]
  BY DEF Revoking, User!TypeOK
<1>2. RequestInv(r) /\ b \in Apps
  BY BusyHere, BusyFields DEF Revoking, CodesInv
<1>3. b \in used /\ (lost = 0 => \A p \in Requests : Adds(req[p]) => req[p].a # b)
  BY <1>2 DEF RequestInv, Revoking
<1>4. UNCHANGED <<used, codes, held, tries, lost>> /\ revoked' = revoked \union {b}
  BY DEF Revoking
<1>5. app'[b] = User!None /\ \A a \in Apps \ {b} : app'[a] = app[a]
  BY <1>2 DEF Revoking, User!TypeOK
<1>6. ~Adds(User!Idle)
  BY DEF Adds
<1>7. ASSUME NEW p \in Requests \ {r} PROVE RequestInv(p)'
  <2>1. RequestInv(p) /\ req'[p] = req[p]
    BY <1>1 DEF CodesInv
  <2>2. Adds(req[p]) => req[p].a \in Apps
    BY <2>1, BusyHere, BusyFields DEF Adds
  <2> QED
    BY <2>1, <2>2, <1>1, <1>3, <1>4, <1>5, <1>6 DEF RequestInv
<1>8. RequestInv(r)'
  BY <1>1, <1>6 DEF RequestInv, Shape
<1>9. ASSUME NEW a \in Apps PROVE AppInv(a)'
  <2>1. AppInv(a)
    BY DEF CodesInv
  <2>2. Going(a)' = Going(a)
    <3>1. req' = [req EXCEPT ![r] = User!Idle] /\ ~Redeems(req[r], a) /\ ~Redeems(User!Idle, a)
      BY DEF Revoking, Redeems
    <3> QED
      BY <3>1, GoingSame
  <2>3. CASE a = b
    BY <2>1, <2>2, <2>3, <1>3, <1>4, <1>5 DEF AppInv
  <2>4. CASE a # b
    BY <2>1, <2>2, <2>4, <1>4, <1>5 DEF AppInv
  <2> QED
    BY <2>3, <2>4
<1> QED
  BY <1>7, <1>8, <1>9 DEF CodesInv

(* Every step, of which nobody wrote back a user that had changed, has one of *)
(* these effects.                                                             *)
LEMMA CodesStep ==
    ASSUME User!Assumptions, User!TypeOK, CodesInv, [User!Next]_User!vars, intact'
    PROVE  CodesInv'
<1> USE BusyOrIdle
<1>1. CASE User!Expire \/ UNCHANGED User!vars
  <2>1. UNCHANGED <<app, used, codes, held, req, lost, tries, revoked>>
    BY <1>1 DEF User!Expire, User!vars
  <2>2. \A a : Going(a)' = Going(a)
    BY <2>1 DEF Going
  <2> QED
    BY <2>1, <2>2 DEF CodesInv, RequestInv, AppInv
<1>2. ASSUME NEW r \in Requests,
             User!BeginNew(r) \/ User!BeginList(r) \/ User!BeginRedeem(r) \/ User!BeginRevoke(r) \/ User!BeginOverwrite(r)
      PROVE  \E q : Opens(r, q)
  <2>1. ASSUME NEW k \in {"list", "key", "approve"}, NEW a \in Apps, User!BeginClean(r, k, a),
               (k = "list" /\ used' = used) \/ (a \notin used /\ used' = used \union {a})
        PROVE  \E q : Opens(r, q)
    <3>1. PICK T \in User!CleanupSets(app) :
              /\ User!Begins(r, [User!Blank(k, a) EXCEPT !.at = "clean", !.todo = T, !.left = User!Remaining(app, T)])
              /\ UNCHANGED <<expired, codes, held, issued, tries, revoked, intact>>
      BY <2>1 DEF User!BeginClean
    <3>2. T \subseteq User!Stale(app) /\ User!Remaining(app, T) \in Nat /\ T \subseteq Apps
      BY FinitePresent DEF User!CleanupSets, User!Stale
    <3> DEFINE q == [User!Blank(k, a) EXCEPT !.at = "clean", !.todo = T, !.left = User!Remaining(app, T)]
    <3>3. q \in Busy
      BY <3>2, BlankType, BusyExcepts
    <3>4. q.at = "clean" /\ q.kind = k /\ q.a = a
      BY DEF User!Blank
    <3>5. Opens(r, q)
      BY <2>1, <3>1, <3>3, <3>4 DEF Opens, User!Begins, User!Goes, Shape, Adds, Redeems
    <3> QED
      BY <3>5
  <2>2. CASE User!BeginNew(r) \/ User!BeginList(r)
    <3>1. PICK k \in {"list", "key", "approve"}, a \in Apps :
              /\ User!BeginClean(r, k, a)
              /\ (k = "list" /\ used' = used) \/ (a \notin used /\ used' = used \union {a})
      <4>1. CASE User!BeginNew(r)
        BY <4>1 DEF User!BeginNew
      <4>2. CASE User!BeginList(r)
        <5>1. PICK a \in Apps : User!BeginClean(r, "list", a) /\ used' = used
          BY <4>2 DEF User!BeginList
        <5> QED
          BY <5>1
      <4> QED
        BY <2>2, <4>1, <4>2
    <3> QED
      BY <2>1, <3>1
  <2>3. CASE User!BeginRedeem(r)
    <3>1. PICK a \in codes, valid \in BOOLEAN :
              LET fresh == a \notin expired IN
              /\ User!Begins(r, [User!Blank("redeem", a) EXCEPT !.fresh = fresh,
                                               !.at = IF valid THEN "find" ELSE "remove"])
              /\ tries' = IF fresh THEN [tries EXCEPT ![a] = @ + 1] ELSE tries
      BY <2>3 DEF User!BeginRedeem
    <3> DEFINE fresh == a \notin expired
               q == [User!Blank("redeem", a) EXCEPT !.fresh = fresh, !.at = IF valid THEN "find" ELSE "remove"]
    <3>2. a \in Apps
      BY DEF User!TypeOK
    <3>3. q \in Busy
      BY <3>2, BlankType, BusyExcepts
    <3>4. q.at \in {"find", "remove"} /\ q.kind = "redeem" /\ q.a = a /\ q.fresh = fresh
      BY DEF User!Blank
    <3>5. Opens(r, q)
      BY <2>3, <3>1, <3>3, <3>4 DEF Opens, User!BeginRedeem, User!Begins, User!Goes, Shape, Adds, Redeems
    <3> QED
      BY <3>5
  <2>4. CASE User!BeginRevoke(r) \/ User!BeginOverwrite(r)
    <3>1. PICK k \in {"revoke", "overwrite"}, w \in {"remove", "restore"}, a \in Apps :
              /\ User!Begins(r, [User!Blank(k, a) EXCEPT !.at = w])
              /\ k = "revoke" => app[a].st # "none" /\ w = "remove"
              /\ UNCHANGED <<used, codes, held, revoked, tries>>
      BY <2>4 DEF User!BeginRevoke, User!BeginOverwrite, User!Present
    <3> DEFINE q == [User!Blank(k, a) EXCEPT !.at = w]
    <3>2. q \in Busy
      BY BlankType, BusyExcept
    <3>3. q.at = w /\ q.kind = k /\ q.a = a
      BY DEF User!Blank
    <3>4. Opens(r, q)
      BY <3>1, <3>2, <3>3 DEF Opens, User!Begins, User!Goes, Shape, Adds, Redeems
    <3> QED
      BY <3>4
  <2> QED
    BY <1>2, <2>2, <2>3, <2>4
<1>3. ASSUME NEW r \in Requests, User!Clean(r) PROVE \E q : Quietly(r, q)
  <2>1. req[r] \in Busy /\ RequestInv(r)
    BY <1>3, BusyHere DEF User!Clean, CodesInv
  <2>2. PICK a \in req[r].todo :
            LET q == req[r]  rest == [q EXCEPT !.todo = @ \ {a}] IN
            \/ app[a].st # "none"
               /\ User!Changed(r, [app EXCEPT ![a] = User!None], rest, [rest EXCEPT !.left = @ + 1])
            \/ app[a].st = "none" /\ User!Goes(r, rest) /\ UNCHANGED app
            \/ User!Unchanged(r, [rest EXCEPT !.left = @ + 1])
    BY <1>3 DEF User!Clean
  <2> DEFINE rest == [req[r] EXCEPT !.todo = @ \ {a}]
             more == [rest EXCEPT !.left = @ + 1]
  <2>3. rest \in Busy /\ more \in Busy
    <3>1. rest \in Busy
      BY <2>1, BusyFields, BusyExcept
    <3> HIDE DEF rest
    <3>2. rest.left + 1 \in Nat
      BY <3>1, BusyFields
    <3> QED
      BY <3>1, <3>2, BusyExcept
  <2>4. \A q \in {rest, more} : q.at = "clean" /\ q.kind = req[r].kind /\ q.a = req[r].a /\ q.fresh = req[r].fresh
    BY <1>3, <2>1 DEF Busy, User!Clean
  <2>5. a \in Apps
    BY <2>1, BusyFields
  <2> HIDE DEF rest, more
  <2>6. PICK q \in {rest, more, req[r]} : req' = [req EXCEPT ![r] = q] /\ lost' >= lost
    BY <2>2 DEF rest, more, User!Changed, User!Unchanged, User!Goes, User!Fails, User!TypeOK, User!Assumptions
  <2>7. app' = app \/ app' = [app EXCEPT ![a] = User!None]
    BY <2>2 DEF rest, more, User!Changed, User!Unchanged
  <2>8. q \in Busy /\ q.at = "clean" /\ q.kind = req[r].kind /\ q.a = req[r].a /\ q.fresh = req[r].fresh
    BY <1>3, <2>1, <2>3, <2>4, <2>6 DEF User!Clean
  <2>9. Shape(q) /\ (Adds(q) => Adds(req[r])) /\ req[r].at # "idle"
    BY <1>3, <2>1, <2>8 DEF Shape, Adds, RequestInv, User!Clean
  <2>10. UNCHANGED <<used, codes, held, tries, revoked>>
    BY <1>3 DEF User!Clean
  <2>11. Quietly(r, q)
    BY <2>5, <2>6, <2>7, <2>8, <2>9, <2>10 DEF Quietly
  <2> QED
    BY <2>11
<1>4. ASSUME NEW r \in Requests, User!Count(r) \/ User!Stop(r) PROVE \E q : Quietly(r, q)
  <2>1. req[r] \in Busy /\ RequestInv(r)
    BY <1>4, BusyHere DEF User!Count, User!Stop, CodesInv
  <2>2. CASE User!Stop(r)
    <3>1. Quietly(r, User!Idle)
      BY <2>1, <2>2 DEF User!Stop, User!Fails, Quietly, Shape, Adds, User!TypeOK, User!Assumptions
    <3> QED
      BY <3>1
  <2>3. CASE User!Count(r)
    <3> DEFINE added == [req[r] EXCEPT !.at = "add"]
    <3>0. added \in Busy
      BY <2>1, BusyExcept
    <3>1. added.at = "add" /\ added.kind = req[r].kind /\ added.a = req[r].a
          /\ added.fresh = req[r].fresh /\ added.todo = req[r].todo /\ added.left = req[r].left
      BY <2>1 DEF Busy
    <3>2. PICK q \in {User!Idle, added} :
              /\ req' = [req EXCEPT ![r] = q] /\ lost' = lost
              /\ q = added /\ q # User!Idle => req[r].kind # "list" /\ req[r].left < MaxApps
      <4>1. req[r].left \in Nat /\ MaxApps \in Nat
        BY <2>1, BusyFields DEF User!Assumptions
      <4>2. CASE req[r].kind = "list" \/ req[r].left >= MaxApps
        <5>1. User!Goes(r, User!Idle)
          BY <2>3, <4>2 DEF User!Count
        <5> QED
          BY <5>1 DEF User!Goes
      <4>3. CASE req[r].kind # "list" /\ req[r].left < MaxApps
        <5>1. User!Goes(r, added)
          BY <2>3, <4>1, <4>3 DEF User!Count
        <5> HIDE DEF added
        <5> QED
          BY <4>3, <5>1 DEF User!Goes
      <4> QED
        BY <4>1, <4>2, <4>3
    <3> HIDE DEF added
    <3>3. ~Redeems(req[r], req[r].a) /\ \A a : ~Redeems(req[r], a)
      BY <2>1, <2>3 DEF User!Count, Redeems, RequestInv, Shape
    <3>4. Shape(q) /\ (Adds(q) => Adds(req[r]))
      <4>1. req[r].at = "clean" /\ req[r].todo = {} /\ Shape(req[r])
        BY <2>1, <2>3 DEF User!Count, RequestInv
      <4>2. CASE q = User!Idle
        BY <4>2 DEF Shape, Adds
      <4>3. CASE q = added /\ q # User!Idle
        BY <3>1, <3>2, <4>1, <4>3 DEF Shape, Adds
      <4> QED
        BY <3>2, <4>2, <4>3
    <3>5. q \in User!Reqs /\ (q.at # "idle" => q.kind = req[r].kind /\ q.a = req[r].a /\ q.fresh = req[r].fresh)
      BY <3>0, <3>1, <3>2
    <3>6. Quietly(r, q)
      BY <2>1, <2>3, <3>2, <3>3, <3>4, <3>5, LostNat DEF Quietly, User!Count
    <3> QED
      BY <3>6
  <2> QED
    BY <1>4, <2>2, <2>3
<1>5. ASSUME NEW r \in Requests, User!Add(r)
      PROVE  (\E q : Quietly(r, q)) \/ (\E q, v : Adding(r, q, v))
  <2>1. req[r] \in Busy /\ RequestInv(r) /\ Shape(req[r]) /\ req[r].at = "add" /\ issued + 1 \in Nat
    BY <1>5, BusyHere DEF User!Add, CodesInv, RequestInv, User!TypeOK
  <2>2. CASE User!Unchanged(r, User!Idle)
    <3>1. lost' = lost + 1 /\ lost \in Nat /\ lost' # lost
      BY <2>2 DEF User!Unchanged, User!Fails, User!TypeOK, User!Assumptions
    <3>2. Quietly(r, User!Idle)
      BY <1>5, <2>1, <2>2, <3>1 DEF User!Add, User!Unchanged, User!Fails, Quietly, Shape, Adds
    <3> QED
      BY <3>2
  <2>3. CASE req[r].kind = "key" /\ User!Changed(r, [app EXCEPT ![req[r].a] = User!Live(issued + 1)], User!Idle, User!Idle)
    <3>1. CASE lost' = lost
      <4>1. Adding(r, User!Idle, User!Live(issued + 1))
        BY <1>5, <2>1, <2>3, <3>1 DEF User!Add, User!Changed, User!Goes, User!Fails, Adding, User!TypeOK, User!Assumptions
      <4> QED
        BY <4>1
    <3>2. CASE lost' # lost
      <4>1. PICK q \in {User!Idle, req[r]} : req' = [req EXCEPT ![r] = q] /\ lost' = lost + 1
        BY <2>3, <3>2 DEF User!Changed, User!Goes, User!Fails
      <4>2. Adding(r, q, User!Live(issued + 1))
        BY <1>5, <2>1, <2>3, <3>2, <4>1 DEF User!Add, User!Changed, Adding
      <4> QED
        BY <4>2
    <3> QED
      BY <3>1, <3>2
  <2>4. CASE req[r].kind # "key" /\ User!Changed(r, [app EXCEPT ![req[r].a] = User!Pending], User!Idle, User!Idle)
    <3>1. CASE lost' = lost
      <4>1. Adding(r, User!Idle, User!Pending)
        BY <1>5, <2>1, <2>4, <3>1 DEF User!Add, User!Changed, User!Goes, User!Fails, Adding, User!TypeOK, User!Assumptions
      <4> QED
        BY <4>1
    <3>2. CASE lost' # lost
      <4>1. PICK q \in {User!Idle, req[r]} : req' = [req EXCEPT ![r] = q] /\ lost' = lost + 1
        BY <2>4, <3>2 DEF User!Changed, User!Goes, User!Fails
      <4>2. Adding(r, q, User!Pending)
        BY <1>5, <2>1, <2>4, <3>2, <4>1 DEF User!Add, User!Changed, Adding
      <4> QED
        BY <4>2
    <3> QED
      BY <3>1, <3>2
  <2> QED
    BY <1>5, <2>2, <2>3, <2>4 DEF User!Add
<1>6. ASSUME NEW r \in Requests, User!Find(r) PROVE \E q : Quietly(r, q)
  <2>1. req[r] \in Busy /\ req[r].kind = "redeem" /\ req[r].a \in Apps /\ req[r].fresh \in BOOLEAN
    BY <1>6, BusyHere DEF User!Find, CodesInv, RequestInv, Shape, Busy
  <2> DEFINE gone == [req[r] EXCEPT !.at = "remove"]
             taken == [req[r] EXCEPT !.at = "replace", !.tok = issued + 1]
  <2>2. gone \in Busy /\ taken \in Busy
    <3>1. issued + 1 \in Nat
      BY DEF User!TypeOK
    <3> QED
      BY <2>1, <3>1, BusyExcept, BusyExcepts
  <2>3. /\ gone.at = "remove" /\ taken.at = "replace"
        /\ \A q \in {gone, taken} : q.kind = "redeem" /\ q.a = req[r].a /\ q.fresh = req[r].fresh
    BY <2>1 DEF Busy
  <2>4. PICK q \in {User!Idle, gone, taken} :
            /\ User!Goes(r, q)
            /\ q = User!Idle => app[req[r].a].st = "none" \/ req[r].fresh # TRUE
            /\ q = taken => req[r].fresh = TRUE
    <3> HIDE DEF gone, taken
    <3>1. \/ app[req[r].a].st = "none" /\ User!Goes(r, User!Idle)
          \/ User!Goes(r, IF req[r].fresh THEN gone ELSE User!Idle)
          \/ req[r].fresh /\ User!Goes(r, taken)
      BY <1>6 DEF User!Find, gone, taken
    <3>2. gone # User!Idle /\ taken # User!Idle /\ gone # taken
      BY <2>3
    <3> QED
      BY <2>1, <3>1, <3>2
  <2> HIDE DEF gone, taken
  <2>5. Shape(q) /\ ~Adds(q)
    BY <2>3, <2>4 DEF Shape, Adds
  <2>6. q.at # "idle" => q.kind = req[r].kind /\ q.a = req[r].a /\ q.fresh = req[r].fresh
    BY <2>1, <2>3, <2>4
  <2>7. q.at = "idle" => \A a \in Apps : Redeems(req[r], a) => app[a].st = "none"
    BY <2>3, <2>4 DEF Redeems
  <2>8. Quietly(r, q)
    BY <1>6, <2>1, <2>2, <2>4, <2>5, <2>6, <2>7 DEF Quietly, User!Find, User!Goes, User!TypeOK, User!Assumptions
  <2> QED
    BY <2>8
<1>7. ASSUME NEW r \in Requests, User!Replace(r)
      PROVE  \E q : Quietly(r, q) \/ Replacing(r, q)
  <2>1. req[r] \in Busy /\ req[r].kind = "redeem" /\ req[r].at = "replace" /\ req[r].fresh = TRUE
    BY <1>7, BusyHere DEF User!Replace, CodesInv, RequestInv, Shape
  <2> DEFINE gone == [req[r] EXCEPT !.at = "remove"]
  <2>2. gone \in Busy /\ gone.at = "remove" /\ gone.kind = "redeem" /\ gone.a = req[r].a /\ gone.fresh = TRUE
    <3>1. gone \in Busy
      BY <2>1, BusyExcept
    <3> QED
      BY <2>1, <3>1 DEF Busy
  <2>3. CASE \/ ~User!Redeemable(req[r].a) /\ User!Goes(r, gone) /\ UNCHANGED <<app, held>>
             \/ User!Unchanged(r, gone) /\ UNCHANGED held
    <3>1. app' = app /\ held' = held /\ req' = [req EXCEPT ![r] = gone] /\ lost' >= lost
      BY <2>3 DEF User!Unchanged, User!Goes, User!Fails, User!TypeOK, User!Assumptions
    <3> HIDE DEF gone
    <3>2. Shape(gone) /\ ~Adds(gone)
      BY <2>2 DEF Shape, Adds
    <3>3. Quietly(r, gone)
      BY <1>7, <2>1, <2>2, <3>1, <3>2 DEF Quietly, User!Replace
    <3> QED
      BY <3>3
  <2>4. CASE /\ User!Redeemable(req[r].a)
             /\ User!Changed(r, [app EXCEPT ![req[r].a] = User!Live(req[r].tok)], User!Idle, gone)
             /\ held' = IF lost' = lost THEN held \union {<<req[r].a, req[r].tok>>} ELSE held
    <3>1. PICK q \in {User!Idle, req[r], gone} :
              /\ req' = [req EXCEPT ![r] = q]
              /\ q = User!Idle => lost' = lost
              /\ q # User!Idle => lost' = lost + 1
      <4> HIDE DEF gone
      <4>1. req[r] # User!Idle /\ gone # User!Idle
        BY <2>1, <2>2
      <4> QED
        BY <2>4, <4>1 DEF User!Changed, User!Goes, User!Fails
    <3>2. q # User!Idle => lost' # lost
      BY <3>1, LostNat
    <3>3. Replacing(r, q)
      BY <1>7, <2>1, <2>4, <3>1, <3>2 DEF Replacing, User!Changed, User!Redeemable, User!Replace
    <3> QED
      BY <3>3
  <2> QED
    BY <1>7, <2>3, <2>4 DEF User!Replace, User!AfterConflict
<1>8. ASSUME NEW r \in Requests, User!Remove(r)
      PROVE  (\E q : Quietly(r, q)) \/ Revoking(r)
  <2>1. req[r] \in Busy /\ req[r].at = "remove" /\ req[r].a \in Apps /\ RequestInv(r)
    BY <1>8, BusyHere, BusyFields DEF User!Remove, CodesInv
  <2> DEFINE b == req[r].a
  <2>2. Shape(User!Idle) /\ ~Adds(User!Idle) /\ Shape(req[r]) /\ ~Adds(req[r])
    BY <2>1 DEF Shape, Adds, RequestInv
  <2>3. \A a : Redeems(req[r], a) => a = b
    BY DEF Redeems
  <2>4. CASE \/ app[b].st = "none" /\ User!Goes(r, User!Idle) /\ UNCHANGED <<app, revoked>>
             \/ User!Unchanged(r, User!Idle) /\ UNCHANGED revoked
    <3>1. /\ req' = [req EXCEPT ![r] = User!Idle] /\ lost' >= lost /\ app' = app /\ revoked' = revoked
          /\ lost' = 0 => app[b].st = "none"
      BY <2>4 DEF User!Unchanged, User!Goes, User!Fails, User!TypeOK, User!Assumptions
    <3>2. Quietly(r, User!Idle)
      BY <1>8, <2>1, <2>2, <2>3, <3>1 DEF Quietly, User!Remove
    <3> QED
      BY <3>2
  <2>5. CASE /\ User!Changed(r, [app EXCEPT ![b] = User!None], User!Idle, User!Idle)
             /\ revoked' = IF req[r].kind = "revoke" /\ lost' = lost THEN revoked \union {b} ELSE revoked
    <3>1. PICK q \in {User!Idle, req[r]} : req' = [req EXCEPT ![r] = q]
      BY <2>5 DEF User!Changed, User!Goes, User!Fails
    <3>2. app' = [app EXCEPT ![b] = User!None] /\ app'[b].st = "none" /\ lost' >= lost
      BY <2>1, <2>5, AppRecordTypes DEF User!Changed, User!Goes, User!Fails, User!TypeOK, User!Assumptions
    <3>3. CASE revoked' = revoked
      <4>1. Quietly(r, q)
        BY <1>8, <2>1, <2>2, <2>3, <3>1, <3>2, <3>3 DEF Quietly, User!Remove
      <4> QED
        BY <4>1
    <3>4. CASE revoked' # revoked
      <4>1. req[r].kind = "revoke" /\ lost' = lost /\ revoked' = revoked \union {b}
        BY <2>5, <3>4
      <4>2. req' = [req EXCEPT ![r] = User!Idle]
        BY <2>5, <4>1 DEF User!Changed, User!Goes, User!Fails, User!TypeOK, User!Assumptions
      <4>3. Revoking(r)
        BY <1>8, <2>1, <3>2, <4>1, <4>2 DEF Revoking, User!Remove
      <4> QED
        BY <4>3
    <3> QED
      BY <3>3, <3>4
  <2> QED
    BY <1>8, <2>4, <2>5 DEF User!Remove
<1>9. ASSUME NEW r \in Requests, User!Restore(r) PROVE \E q : Quietly(r, q)
  <2>1. req[r] \in Busy /\ req[r].at = "restore" /\ req[r].kind = "overwrite"
    BY <1>9, BusyHere DEF User!Restore, CodesInv, RequestInv, Shape
  <2>2. app' = app /\ req' = [req EXCEPT ![r] = User!Idle] /\ lost' = lost /\ lost \in Nat
    <3>1. app' = app
      BY <1>9 DEF User!Restore
    <3> QED
      BY <1>9, <3>1, LostNat DEF User!Restore, User!Goes
  <2>3. Quietly(r, User!Idle)
    BY <1>9, <2>1, <2>2 DEF Quietly, User!Restore, Shape, Adds, Redeems
  <2> QED
    BY <2>3
<1> QED
  BY <1>1, <1>2, <1>3, <1>4, <1>5, <1>6, <1>7, <1>8, <1>9,
     QuietKeeps, OpeningKeeps, AddingKeeps, ReplacingKeeps, RevokingKeeps DEF User!Next

-----------------------------------------------------------------------------
(* The applications of a user: their limit.                                   *)

(* Finite sets, as they are needed below.                                     *)
LEMMA Smaller ==
    ASSUME NEW T, IsFiniteSet(T)
    PROVE  /\ Cardinality(T) \in Nat
           /\ \A S : S \subseteq T => IsFiniteSet(S) /\ Cardinality(S) \in Nat /\ Cardinality(S) <= Cardinality(T)
           /\ \A S, x : S \subseteq T \union {x} => Cardinality(S) \in Nat /\ Cardinality(S) <= Cardinality(T) + 1
<1>1. Cardinality(T) \in Nat
  BY FS_CardinalityType
<1>2. \A S : S \subseteq T => IsFiniteSet(S) /\ Cardinality(S) \in Nat /\ Cardinality(S) <= Cardinality(T)
  BY FS_Subset, FS_CardinalityType
<1>3. ASSUME NEW S, NEW x, S \subseteq T \union {x} PROVE Cardinality(S) \in Nat /\ Cardinality(S) <= Cardinality(T) + 1
  <2>1. IsFiniteSet(T \union {x}) /\ Cardinality(T \union {x}) <= Cardinality(T) + 1
    BY <1>1, FS_AddElement
  <2>2. IsFiniteSet(S) /\ Cardinality(S) <= Cardinality(T \union {x})
    BY <1>3, <2>1, FS_Subset
  <2> QED
    BY <1>1, <2>1, <2>2, FS_CardinalityType
<1> QED
  BY <1>1, <1>2, <1>3

(* The ids of some requests; there are no more of them than of the requests.  *)
Ids(S) == {req[p].a : p \in S}

LEMMA FewerIds ==
    ASSUME NEW S, IsFiniteSet(S) PROVE IsFiniteSet(Ids(S)) /\ Cardinality(Ids(S)) <= Cardinality(S)
<1> DEFINE f == [p \in S |-> req[p].a]
<1>1. f \in Surjection(S, Ids(S))
  BY DEF Surjection, Ids
<1> QED
  BY <1>1, FS_Surjection

(* How many may exceed the limit by one each, and one.                        *)
Span == IF calm THEN 1 ELSE Cardinality(Requests)

(* With the requests in the order in which they began: an application that is *)
(* to be added finds room, whatever those that began before it add; what the  *)
(* request counted still covers them, or the limit does once one that began   *)
(* later has counted them too.                                                *)
Older(rank, r) == {p \in Requests : Adds(req[p]) /\ rank[p] < rank[r]}
Counted(rank, r) == (User!Present(app) \ req[r].todo) \union Ids(Older(rank, r))
Total(rank, r) == User!Present(app) \union Ids(Older(rank, r)) \union {req[r].a}
Room(rank, r) ==
    \/ Cardinality(Counted(rank, r)) <= req[r].left + Span - 1
    \/ Cardinality(Total(rank, r)) <= MaxApps + Span - 1
Fits(rank) ==
    /\ \A r \in Requests : rank[r] <= begun /\ (Adds(req[r]) => Room(rank, r))
    /\ \A p, r \in Requests : Adds(req[p]) /\ Adds(req[r]) /\ rank[p] = rank[r] => p = r
LimitInv ==
    /\ Cardinality(User!Present(app)) <= MaxApps + Span - 1
    /\ calm => \A p, r \in Requests : req[p].at # "idle" /\ req[r].at # "idle" => p = r
    /\ \E rank \in [Requests -> Nat] : Fits(rank)

LEMMA FiniteHere ==
    ASSUME User!Assumptions
    PROVE  /\ IsFiniteSet(User!Present(app)) /\ Cardinality(User!Present(app)) \in Nat
           /\ IsFiniteSet(Requests) /\ Cardinality(Requests) \in Nat
           /\ \A rank : \A r : /\ IsFiniteSet(Ids(Older(rank, r)))
                               /\ IsFiniteSet(Counted(rank, r)) /\ Cardinality(Counted(rank, r)) \in Nat
                               /\ IsFiniteSet(Total(rank, r)) /\ Cardinality(Total(rank, r)) \in Nat
<1>1. IsFiniteSet(User!Present(app)) /\ Cardinality(User!Present(app)) \in Nat
  BY FinitePresent, FS_CardinalityType
<1>2. IsFiniteSet(Requests) /\ Cardinality(Requests) \in Nat
  BY SameFinite, FS_CardinalityType DEF User!Assumptions
<1>3. ASSUME NEW rank, NEW r
      PROVE  /\ IsFiniteSet(Ids(Older(rank, r)))
             /\ IsFiniteSet(Counted(rank, r)) /\ Cardinality(Counted(rank, r)) \in Nat
             /\ IsFiniteSet(Total(rank, r)) /\ Cardinality(Total(rank, r)) \in Nat
  <2>1. IsFiniteSet(Older(rank, r))
    BY <1>2, FS_Subset DEF Older
  <2>2. IsFiniteSet(Ids(Older(rank, r)))
    BY <2>1, FewerIds
  <2>3. IsFiniteSet(User!Present(app) \ req[r].todo)
    BY <1>1, FS_Subset
  <2>4. IsFiniteSet(Counted(rank, r))
    BY <2>2, <2>3, FS_Union DEF Counted
  <2>5. IsFiniteSet(User!Present(app) \union Ids(Older(rank, r)))
    BY <1>1, <2>2, FS_Union
  <2>6. IsFiniteSet(Total(rank, r))
    BY <2>5, FS_AddElement DEF Total
  <2> QED
    BY <2>2, <2>4, <2>6, FS_CardinalityType
<1> QED
  BY <1>1, <1>2, <1>3

(* Room stays as long as there is no more to count than before.               *)
Leaner(r, q) ==
    /\ req' = [req EXCEPT ![r] = q]
    /\ User!Present(app') \subseteq User!Present(app)
    /\ Adds(q) => /\ Adds(req[r]) /\ q.a = req[r].a /\ q.left \in Nat
                  /\ \/ /\ q.left >= req[r].left
                        /\ User!Present(app') \ q.todo \subseteq User!Present(app) \ req[r].todo
                     \/ /\ q.left = req[r].left + 1
                        /\ \E x : User!Present(app') \ q.todo \subseteq (User!Present(app) \ req[r].todo) \union {x}
    /\ UNCHANGED <<begun, calm>> /\ (q.at # "idle" => req[r].at # "idle")

LEMMA LeanerKeeps ==
    ASSUME User!Assumptions, User!TypeOK, LimitInv, NEW r \in Requests, NEW q, Leaner(r, q)
    PROVE  LimitInv'
<1>1. req'[r] = q /\ \A p \in Requests \ {r} : req'[p] = req[p]
  BY DEF Leaner, User!TypeOK
<1>2. UNCHANGED <<begun, calm, Span>> /\ User!Present(app') \subseteq User!Present(app) /\ Span \in Nat /\ MaxApps \in Nat
  BY FiniteHere DEF Leaner, Span, User!Assumptions
<1>3. Cardinality(User!Present(app)') <= MaxApps + Span' - 1
  <2>1. Cardinality(User!Present(app')) \in Nat /\ Cardinality(User!Present(app')) <= Cardinality(User!Present(app))
    BY <1>2, FiniteHere, Smaller
  <2>2. User!Present(app)' = User!Present(app')
    BY DEF User!Present
  <2> QED
    BY <1>2, <2>1, <2>2, FiniteHere DEF LimitInv
<1>4. calm' => \A p, p1 \in Requests : req'[p].at # "idle" /\ req'[p1].at # "idle" => p = p1
  BY <1>1, <1>2 DEF LimitInv, Leaner
<1>5. PICK rank \in [Requests -> Nat] : Fits(rank)
  BY DEF LimitInv
<1>6. \A p \in Requests : Adds(req'[p]) => Adds(req[p]) /\ req'[p].a = req[p].a
  BY <1>1 DEF Leaner
<1>7. \A p \in Requests : Ids(Older(rank, p))' \subseteq Ids(Older(rank, p))
  BY <1>6 DEF Ids, Older
<1>8. ASSUME NEW p \in Requests, Adds(req'[p]) PROVE Room(rank, p)'
  <2>1. Room(rank, p) /\ Adds(req[p]) /\ req[p].left \in Nat /\ req'[p].a = req[p].a
    BY <1>5, <1>6, <1>8, BusyHere, BusyFields, BusyOrIdle DEF Fits, Adds
  <2>2. CASE Cardinality(Total(rank, p)) <= MaxApps + Span - 1
    <3>1. Total(rank, p)' \subseteq Total(rank, p)
      BY <1>2, <1>7, <2>1 DEF Total, User!Present
    <3>2. Cardinality(Total(rank, p)') \in Nat /\ Cardinality(Total(rank, p)') <= Cardinality(Total(rank, p))
      BY <3>1, FiniteHere, Smaller
    <3> QED
      BY <2>2, <3>2, <1>2, FiniteHere DEF Room
  <2>3. CASE Cardinality(Counted(rank, p)) <= req[p].left + Span - 1
    <3>1. CASE /\ req'[p].left \in Nat /\ req'[p].left >= req[p].left
               /\ User!Present(app') \ req'[p].todo \subseteq User!Present(app) \ req[p].todo
      <4>1. Counted(rank, p)' \subseteq Counted(rank, p)
        BY <1>7, <3>1 DEF Counted, User!Present
      <4>2. Cardinality(Counted(rank, p)') \in Nat /\ Cardinality(Counted(rank, p)') <= Cardinality(Counted(rank, p))
        BY <4>1, FiniteHere, Smaller
      <4> QED
        BY <2>1, <2>3, <3>1, <4>2, <1>2, FiniteHere DEF Room
    <3>2. ASSUME NEW x, req'[p].left = req[p].left + 1,
                 User!Present(app') \ req'[p].todo \subseteq (User!Present(app) \ req[p].todo) \union {x}
          PROVE  Room(rank, p)'
      <4>1. Counted(rank, p)' \subseteq Counted(rank, p) \union {x}
        BY <1>7, <3>2 DEF Counted, User!Present
      <4>2. Cardinality(Counted(rank, p)') \in Nat /\ Cardinality(Counted(rank, p)') <= Cardinality(Counted(rank, p)) + 1
        BY <4>1, FiniteHere, Smaller
      <4> QED
        BY <2>1, <2>3, <3>2, <4>2, <1>2, FiniteHere DEF Room
    <3>3. CASE p # r
      BY <1>1, <1>2, <2>1, <3>1, <3>3
    <3>4. CASE p = r
      BY <1>1, <1>8, <3>1, <3>2, <3>4 DEF Leaner
    <3> QED
      BY <3>3, <3>4
  <2> QED
    BY <2>1, <2>2, <2>3 DEF Room
<1>9. Fits(rank)'
  BY <1>2, <1>5, <1>6, <1>8 DEF Fits
<1> QED
  BY <1>3, <1>4, <1>5, <1>9 DEF LimitInv

(* One that begins counts what is there, and its older ones are all others.   *)
Arrives(r, q) ==
    /\ req[r].at = "idle" /\ req' = [req EXCEPT ![r] = q] /\ app' = app
    /\ begun' = begun + 1 /\ calm' = (calm /\ \A p \in Requests : req[p].at = "idle")
    /\ Adds(q) => /\ q.todo \subseteq User!Present(app)
                  /\ q.left = Cardinality(User!Present(app)) - Cardinality(q.todo)

LEMMA Remainder ==
    ASSUME NEW S, IsFiniteSet(S), NEW T \in SUBSET S
    PROVE  Cardinality(S \ T) = Cardinality(S) - Cardinality(T)
<1>1. IsFiniteSet(T) /\ IsFiniteSet(S \ T)
  BY FS_Subset
<1>2. (S \ T) \union T = S /\ (S \ T) \intersect T = {}
  OBVIOUS
<1>3. Cardinality(S) = Cardinality(S \ T) + Cardinality(T) - Cardinality({})
  BY <1>1, <1>2, FS_Union
<1> QED
  BY <1>1, <1>3, FS_EmptySet, FS_CardinalityType

LEMMA ArrivalKeeps ==
    ASSUME User!Assumptions, User!TypeOK, LimitInv, NEW r \in Requests, NEW q, Arrives(r, q)
    PROVE  LimitInv'
<1>1. req'[r] = q /\ (\A p \in Requests \ {r} : req'[p] = req[p]) /\ begun \in Nat /\ begun' = begun + 1 /\ app' = app
  BY DEF Arrives, User!TypeOK, User!Assumptions
<1>2. Span \in Nat /\ Span' \in Nat /\ Span' >= Span /\ Span' >= 1 /\ (calm' => calm) /\ MaxApps \in Nat
  <2>1. Cardinality(Requests) # 0
    BY FS_EmptySet, FiniteHere
  <2>2. calm' => calm
    BY DEF Arrives
  <2> QED
    BY <2>1, <2>2, FiniteHere DEF Span, User!Assumptions
<1>3. User!Present(app)' = User!Present(app)
  BY <1>1
<1>4. Cardinality(User!Present(app)') <= MaxApps + Span' - 1
  BY <1>2, <1>3, FiniteHere DEF LimitInv
<1>5. calm' => \A p \in Requests \ {r} : req[p].at = "idle"
  BY DEF Arrives
<1>6. calm' => \A p, p1 \in Requests : req'[p].at # "idle" /\ req'[p1].at # "idle" => p = p1
  BY <1>1, <1>5
<1>7. PICK rank \in [Requests -> Nat] : Fits(rank)
  BY DEF LimitInv
<1>8. PICK last \in [Requests -> Nat] : last[r] = begun + 1 /\ \A p \in Requests \ {r} : last[p] = rank[p]
  <2>1. [rank EXCEPT ![r] = begun + 1] \in [Requests -> Nat]
    BY <1>1
  <2> QED
    BY <2>1
<1>9. \A p \in Requests : rank[p] <= begun /\ rank[p] \in Nat
  BY <1>7 DEF Fits
<1>10. ~Adds(req[r])
  BY DEF Arrives, Adds
<1>11. ASSUME NEW p \in Requests, Adds(req'[p]) PROVE Room(last, p)'
  <2>1. CASE p # r
    <3>1. Room(rank, p) /\ req'[p] = req[p] /\ req[p].left \in Nat
      BY <1>1, <1>7, <1>11, <2>1, BusyHere, BusyFields, BusyOrIdle DEF Fits, Adds
    <3>2. Older(last, p)' = Older(rank, p)
      BY <1>1, <1>8, <1>9, <1>10, <2>1 DEF Older
    <3>3. Ids(Older(last, p))' = Ids(Older(rank, p))
      <4>1. \A p1 \in Older(rank, p) : req'[p1].a = req[p1].a
        BY <1>1, <1>10 DEF Older
      <4> QED
        BY <3>2, <4>1 DEF Ids
    <3>4. Counted(last, p)' = Counted(rank, p) /\ Total(last, p)' = Total(rank, p)
      BY <1>3, <3>1, <3>3 DEF Counted, Total
    <3> QED
      BY <1>2, <3>1, <3>4, FiniteHere DEF Room
  <2>2. CASE p = r
    <3> DEFINE others == Requests \ {r}
    <3>1. Older(last, r)' \subseteq others /\ (calm' => Older(last, r)' = {})
      <4>1. Older(last, r)' \subseteq others
        BY <1>1, <1>8 DEF Older
      <4>2. calm' => Older(last, r)' = {}
        BY <1>1, <1>5, <4>1 DEF Older, Adds
      <4> QED
        BY <4>1, <4>2
    <3>2. IsFiniteSet(Older(last, r)') /\ Cardinality(Older(last, r)') \in Nat /\ Cardinality(Older(last, r)') <= Span' - 1
      <4>1. IsFiniteSet(others) /\ Cardinality(others) = Cardinality(Requests) - 1
        BY FiniteHere, FS_RemoveElement
      <4>2. IsFiniteSet(Older(last, r)') /\ Cardinality(Older(last, r)') \in Nat /\ Cardinality(Older(last, r)') <= Cardinality(others)
        BY <3>1, <4>1, Smaller
      <4>3. CASE calm'
        BY <3>1, <4>3, <1>2, FS_EmptySet DEF Span
      <4>4. CASE ~calm'
        BY <4>1, <4>2, <4>4, <1>2, FiniteHere DEF Span
      <4> QED
        BY <4>2, <4>3, <4>4
    <3>3. IsFiniteSet(Ids(Older(last, r))') /\ Cardinality(Ids(Older(last, r))') \in Nat
          /\ Cardinality(Ids(Older(last, r))') <= Span' - 1
      <4> DEFINE f == [p1 \in Older(last, r)' |-> req'[p1].a]
      <4>1. f \in Surjection(Older(last, r)', Ids(Older(last, r))')
        BY DEF Surjection, Ids
      <4>2. IsFiniteSet(Ids(Older(last, r))') /\ Cardinality(Ids(Older(last, r))') <= Cardinality(Older(last, r)')
        BY <3>2, <4>1, FS_Surjection
      <4> QED
        BY <1>2, <3>2, <4>2, FS_CardinalityType
    <3>4. Cardinality(User!Present(app) \ q.todo) = q.left /\ IsFiniteSet(User!Present(app) \ q.todo)
      BY <1>1, <1>11, <2>2, FiniteHere, Remainder, FS_Subset DEF Arrives
    <3>5. Counted(last, r)' = (User!Present(app) \ q.todo) \union Ids(Older(last, r))'
      BY <1>1, <1>3 DEF Counted
    <3>6. Cardinality(Counted(last, r)') <= q.left + Span' - 1
      <4>1. Cardinality((User!Present(app) \ q.todo) \intersect Ids(Older(last, r))') \in Nat
        BY <3>4, FS_Intersection, FS_CardinalityType
      <4>2. Cardinality(User!Present(app) \ q.todo) \in Nat
        BY <3>4, FS_CardinalityType
      <4>3. Cardinality(Counted(last, r)') = Cardinality(User!Present(app) \ q.todo) + Cardinality(Ids(Older(last, r))')
                - Cardinality((User!Present(app) \ q.todo) \intersect Ids(Older(last, r))')
        BY <3>3, <3>4, <3>5, FS_Union
      <4> QED
        BY <1>2, <3>3, <3>4, <4>1, <4>2, <4>3
    <3> QED
      BY <1>1, <2>2, <3>6 DEF Room
  <2> QED
    BY <2>1, <2>2
<1>12. Fits(last)'
  <2>1. \A p \in Requests : last[p] <= begun' /\ (Adds(req'[p]) => Room(last, p)')
    BY <1>1, <1>8, <1>9, <1>11
  <2>2. \A p, p1 \in Requests : Adds(req'[p]) /\ Adds(req'[p1]) /\ last[p] = last[p1] => p = p1
    BY <1>1, <1>7, <1>8, <1>9 DEF Fits
  <2> QED
    BY <2>1, <2>2 DEF Fits
<1> QED
  BY <1>4, <1>6, <1>8, <1>12 DEF LimitInv

(* One that adds: those that began before it had room for it, those that      *)
(* began later have counted it.                                               *)
Grows(r, q) ==
    /\ req[r].at = "add" /\ Adds(req[r]) /\ req[r].todo = {} /\ req[r].left < MaxApps
    /\ req' = [req EXCEPT ![r] = q] /\ q \in {User!Idle, req[r]}
    /\ User!Present(app') \subseteq User!Present(app) \union {req[r].a}
    /\ UNCHANGED <<begun, calm>>

LEMMA GrowthKeeps ==
    ASSUME User!Assumptions, User!TypeOK, LimitInv, NEW r \in Requests, NEW q, Grows(r, q)
    PROVE  LimitInv'
<1> DEFINE b == req[r].a
<1>1. req'[r] = q /\ \A p \in Requests \ {r} : req'[p] = req[p]
  BY DEF Grows, User!TypeOK
<1>2. UNCHANGED <<begun, calm, Span>> /\ Span \in Nat /\ MaxApps \in Nat /\ User!Present(app)' = User!Present(app')
  BY FiniteHere DEF Grows, Span, User!Assumptions, User!Present
<1>3. calm' => \A p, p1 \in Requests : req'[p].at # "idle" /\ req'[p1].at # "idle" => p = p1
  BY <1>1, <1>2 DEF LimitInv, Grows
<1>4. PICK rank \in [Requests -> Nat] : Fits(rank)
  BY DEF LimitInv
<1>5. \A p \in Requests : Adds(req'[p]) => Adds(req[p]) /\ req'[p] = req[p]
  BY <1>1, BusyOrIdle DEF Grows, Adds
<1>6. \A p \in Requests : Ids(Older(rank, p))' \subseteq Ids(Older(rank, p))
  BY <1>5 DEF Ids, Older
<1>7. Cardinality(Total(rank, r)) <= MaxApps + Span - 1
  <2>1. CASE Cardinality(Counted(rank, r)) <= req[r].left + Span - 1
    <3>1. Total(rank, r) \subseteq Counted(rank, r) \union {b}
      BY DEF Grows, Total, Counted
    <3>2. Cardinality(Total(rank, r)) <= Cardinality(Counted(rank, r)) + 1
      BY <3>1, FiniteHere, Smaller
    <3>3. req[r].left \in Nat /\ req[r].left < MaxApps
      BY BusyHere, BusyFields, BusyOrIdle DEF Grows
    <3> QED
      BY <2>1, <3>2, <3>3, <1>2, FiniteHere
  <2> QED
    BY <2>1, <1>4 DEF Fits, Room, Grows
<1>8. User!Present(app') \subseteq Total(rank, r)
  BY DEF Total, Grows
<1>9. Cardinality(User!Present(app)') <= MaxApps + Span' - 1
  <2>1. Cardinality(User!Present(app')) \in Nat /\ Cardinality(User!Present(app')) <= Cardinality(Total(rank, r))
    BY <1>8, FiniteHere, Smaller
  <2> QED
    BY <1>2, <1>7, <2>1, FiniteHere
<1>10. ASSUME NEW p \in Requests, Adds(req'[p]) PROVE Room(rank, p)'
  <2>1. Room(rank, p) /\ Adds(req[p]) /\ req'[p] = req[p] /\ req[p].left \in Nat
    BY <1>4, <1>5, <1>10, BusyHere, BusyFields, BusyOrIdle DEF Fits, Adds
  <2>2. rank[p] \in Nat /\ rank[r] \in Nat /\ (rank[p] = rank[r] => p = r)
    BY <1>4, <2>1 DEF Fits, Grows
  <2>3. CASE p = r \/ rank[p] < rank[r]
    <3>1. Ids(Older(rank, p)) \subseteq Ids(Older(rank, r)) /\ req[p].a \in Ids(Older(rank, r)) \union {b}
      <4>1. CASE p = r
        BY <4>1
      <4>2. CASE rank[p] < rank[r]
        <5>1. Older(rank, p) \subseteq Older(rank, r) /\ p \in Older(rank, r)
          BY <1>4, <2>1, <4>2 DEF Older
        <5> QED
          BY <5>1 DEF Ids
      <4> QED
        BY <2>3, <4>1, <4>2
    <3>2. Total(rank, p)' \subseteq Total(rank, r)
      BY <1>2, <1>6, <1>8, <2>1, <3>1 DEF Total
    <3>3. Cardinality(Total(rank, p)') \in Nat /\ Cardinality(Total(rank, p)') <= Cardinality(Total(rank, r))
      BY <3>2, FiniteHere, Smaller
    <3> QED
      BY <1>2, <1>7, <3>3, FiniteHere DEF Room
  <2>4. CASE rank[r] < rank[p]
    <3>1. b \in Ids(Older(rank, p))
      BY <2>4 DEF Ids, Older, Grows
    <3>2. Counted(rank, p)' \subseteq Counted(rank, p) /\ Total(rank, p)' \subseteq Total(rank, p)
      BY <1>2, <1>6, <2>1, <3>1 DEF Counted, Total, Grows
    <3>3. /\ Cardinality(Counted(rank, p)') \in Nat /\ Cardinality(Counted(rank, p)') <= Cardinality(Counted(rank, p))
          /\ Cardinality(Total(rank, p)') \in Nat /\ Cardinality(Total(rank, p)') <= Cardinality(Total(rank, p))
      BY <3>2, FiniteHere, Smaller
    <3> QED
      BY <1>2, <2>1, <3>3, FiniteHere DEF Room
  <2> QED
    BY <2>2, <2>3, <2>4
<1>11. Fits(rank)'
  BY <1>2, <1>4, <1>5, <1>10 DEF Fits
<1> QED
  BY <1>3, <1>4, <1>9, <1>11 DEF LimitInv

(* Every step, of which nobody wrote back a user that had changed, has one of *)
(* these effects on the limit.                                                *)
LEMMA LimitStep ==
    ASSUME User!Assumptions, User!TypeOK, CodesInv, LimitInv, [User!Next]_User!vars, intact'
    PROVE  LimitInv'
<1> USE BusyOrIdle
<1>1. CASE User!Expire \/ UNCHANGED User!vars
  <2>1. UNCHANGED <<app, req, begun, calm>>
    BY <1>1 DEF User!Expire, User!vars
  <2>2. UNCHANGED <<User!Present(app), Span>> /\ \A rank : Fits(rank)' = Fits(rank)
    BY <2>1 DEF User!Present, Span, Fits, Adds, Room, Counted, Total, Older, Ids
  <2> QED
    BY <2>1, <2>2 DEF LimitInv
<1>2. ASSUME NEW r \in Requests,
             User!BeginNew(r) \/ User!BeginList(r) \/ User!BeginRedeem(r) \/ User!BeginRevoke(r) \/ User!BeginOverwrite(r)
      PROVE  \E q : Arrives(r, q)
  <2>1. ASSUME NEW k, NEW a, User!BeginClean(r, k, a) PROVE \E q : Arrives(r, q)
    <3>1. PICK T \in User!CleanupSets(app) :
              User!Begins(r, [User!Blank(k, a) EXCEPT !.at = "clean", !.todo = T, !.left = User!Remaining(app, T)])
      BY <2>1 DEF User!BeginClean
    <3> DEFINE q == [User!Blank(k, a) EXCEPT !.at = "clean", !.todo = T, !.left = User!Remaining(app, T)]
    <3>2. T \subseteq User!Present(app)
      BY DEF User!CleanupSets, User!Stale, User!Present
    <3>3. q.todo = T /\ q.left = Cardinality(User!Present(app)) - Cardinality(T)
      BY SameCardinality DEF User!Blank, User!Remaining
    <3> HIDE DEF q
    <3>4. Arrives(r, q)
      BY <3>1, <3>2, <3>3 DEF q, Arrives, User!Begins, User!Goes
    <3> QED
      BY <3>4
  <2>2. CASE User!BeginNew(r) \/ User!BeginList(r)
    BY <2>1, <2>2 DEF User!BeginNew, User!BeginList
  <2>3. CASE User!BeginRedeem(r) \/ User!BeginRevoke(r) \/ User!BeginOverwrite(r)
    <3>1. PICK q : User!Begins(r, q) /\ q.at \in {"find", "remove", "restore"}
      <4>1. ASSUME NEW k, NEW a, NEW f, NEW w \in {"find", "remove", "restore"}
            PROVE  /\ [User!Blank(k, a) EXCEPT !.fresh = f, !.at = w].at = w
                   /\ [User!Blank(k, a) EXCEPT !.at = w].at = w
        BY DEF User!Blank
      <4>2. CASE User!BeginRedeem(r)
        <5>1. PICK a, f, v : User!Begins(r, [User!Blank("redeem", a) EXCEPT !.fresh = f, !.at = IF v THEN "find" ELSE "remove"])
          BY <4>2 DEF User!BeginRedeem
        <5>2. PICK w \in {"find", "remove", "restore"} : w = IF v THEN "find" ELSE "remove"
          OBVIOUS
        <5> QED
          <6> DEFINE q == [User!Blank("redeem", a) EXCEPT !.fresh = f, !.at = IF v THEN "find" ELSE "remove"]
          <6>1. q.at = w
            BY <5>2, <4>1
          <6> HIDE DEF q
          <6>2. User!Begins(r, q) /\ q.at \in {"find", "remove", "restore"}
            BY <5>1, <6>1 DEF q
          <6> QED
            BY <6>2
      <4>3. CASE User!BeginRevoke(r)
        <5>1. PICK a : User!Begins(r, [User!Blank("revoke", a) EXCEPT !.at = "remove"])
          BY <4>3 DEF User!BeginRevoke
        <5> QED
          <6> DEFINE q == [User!Blank("revoke", a) EXCEPT !.at = "remove"]
          <6>1. q.at = "remove"
            BY <4>1
          <6> HIDE DEF q
          <6>2. User!Begins(r, q) /\ q.at \in {"find", "remove", "restore"}
            BY <5>1, <6>1 DEF q
          <6> QED
            BY <6>2
      <4>4. CASE User!BeginOverwrite(r)
        <5>1. PICK a : User!Begins(r, [User!Blank("overwrite", a) EXCEPT !.at = "restore"])
          BY <4>4 DEF User!BeginOverwrite
        <5> QED
          <6> DEFINE q == [User!Blank("overwrite", a) EXCEPT !.at = "restore"]
          <6>1. q.at = "restore"
            BY <4>1
          <6> HIDE DEF q
          <6>2. User!Begins(r, q) /\ q.at \in {"find", "remove", "restore"}
            BY <5>1, <6>1 DEF q
          <6> QED
            BY <6>2
      <4> QED
        BY <2>3, <4>2, <4>3, <4>4
    <3>2. Arrives(r, q)
      BY <3>1 DEF Arrives, User!Begins, User!Goes, Adds
    <3> QED
      BY <3>2
  <2> QED
    BY <1>2, <2>2, <2>3
<1>3. ASSUME NEW r \in Requests, User!Clean(r) PROVE \E q : Leaner(r, q)
  <2>1. req[r] \in Busy /\ req[r].at = "clean" /\ app \in [Apps -> User!AppRecords]
    BY <1>3, BusyHere DEF User!Clean, User!TypeOK
  <2>2. PICK a \in req[r].todo :
            LET q == req[r]  rest == [q EXCEPT !.todo = @ \ {a}] IN
            \/ app[a].st # "none"
               /\ User!Changed(r, [app EXCEPT ![a] = User!None], rest, [rest EXCEPT !.left = @ + 1])
            \/ app[a].st = "none" /\ User!Goes(r, rest) /\ UNCHANGED app
            \/ User!Unchanged(r, [rest EXCEPT !.left = @ + 1])
    BY <1>3 DEF User!Clean
  <2> DEFINE rest == [req[r] EXCEPT !.todo = @ \ {a}]
             more == [rest EXCEPT !.left = @ + 1]
  <2>3. /\ rest.todo = req[r].todo \ {a} /\ rest.left = req[r].left /\ rest.kind = req[r].kind /\ rest.a = req[r].a /\ rest.at = "clean"
        /\ more.todo = req[r].todo \ {a} /\ more.left = req[r].left + 1 /\ more.kind = req[r].kind /\ more.a = req[r].a /\ more.at = "clean"
    BY <2>1 DEF Busy
  <2>4. a \in Apps /\ req[r].left \in Nat
    BY <2>1, BusyFields
  <2> HIDE DEF rest, more
  <2>5. UNCHANGED <<begun, calm>>
    BY <1>3 DEF User!Clean
  <2>6. CASE app[a].st # "none" /\ User!Changed(r, [app EXCEPT ![a] = User!None], rest, more)
    <3>1. PICK q \in {rest, more, req[r]} : req' = [req EXCEPT ![r] = q]
      BY <2>6 DEF User!Changed, User!Goes, User!Fails
    <3>2. User!Present(app') = User!Present(app) \ {a}
      BY <2>1, <2>4, <2>6, AppRecordTypes DEF User!Changed, User!Present
    <3>3. q.left \in Nat /\ q.left >= req[r].left /\ User!Present(app') \ q.todo \subseteq User!Present(app) \ req[r].todo
      BY <2>3, <2>4, <3>1, <3>2
    <3>4. Leaner(r, q)
      BY <2>1, <2>3, <2>5, <3>1, <3>2, <3>3 DEF Leaner, Adds
    <3> QED
      BY <3>4
  <2>7. CASE app[a].st = "none" /\ User!Goes(r, rest) /\ UNCHANGED app
    <3>1. User!Present(app') \ rest.todo \subseteq User!Present(app) \ req[r].todo
      BY <2>3, <2>7 DEF User!Present
    <3>2. Leaner(r, rest)
      BY <2>1, <2>3, <2>4, <2>5, <2>7, <3>1 DEF Leaner, Adds, User!Goes
    <3> QED
      BY <3>2
  <2>8. CASE User!Unchanged(r, more)
    <3>1. User!Present(app') \ more.todo \subseteq (User!Present(app) \ req[r].todo) \union {a}
      BY <2>3, <2>8 DEF User!Unchanged
    <3>2. Leaner(r, more)
      BY <2>1, <2>3, <2>4, <2>5, <2>8, <3>1 DEF Leaner, Adds, User!Unchanged, User!Fails
    <3> QED
      BY <3>2
  <2> QED
    BY <2>2, <2>6, <2>7, <2>8 DEF rest, more
<1>4. ASSUME NEW r \in Requests, User!Add(r) PROVE \E q : Leaner(r, q) \/ Grows(r, q)
  <2>1. req[r] \in Busy /\ req[r].at = "add" /\ Shape(req[r]) /\ req[r].a \in Apps
    BY <1>4, BusyHere, BusyFields DEF User!Add, CodesInv, RequestInv
  <2>2. PICK q, v :
            /\ q \in {User!Idle, req[r]}
            /\ req' = [req EXCEPT ![r] = q]
            /\ app' = app \/ app' = [app EXCEPT ![req[r].a] = v]
    BY <1>4 DEF User!Add, User!Changed, User!Unchanged, User!Goes, User!Fails
  <2>3. User!Present(app') \subseteq User!Present(app) \union {req[r].a}
    BY <2>1, <2>2 DEF User!Present, User!TypeOK
  <2>4. Grows(r, q)
    BY <1>4, <2>1, <2>2, <2>3 DEF Grows, User!Add, Shape, Adds
  <2> QED
    BY <2>4
<1>5. ASSUME NEW r \in Requests, User!Count(r) PROVE \E q : Leaner(r, q)
  <2>1. req[r] \in Busy /\ req[r].at = "clean" /\ Shape(req[r]) /\ req[r].left \in Nat /\ app' = app /\ UNCHANGED <<begun, calm>>
    BY <1>5, BusyHere, BusyFields DEF User!Count, CodesInv, RequestInv
  <2> DEFINE added == [req[r] EXCEPT !.at = "add"]
  <2>2. added.kind = req[r].kind /\ added.a = req[r].a /\ added.left = req[r].left /\ added.todo = req[r].todo
    BY <2>1 DEF Busy
  <2>3. CASE User!Goes(r, User!Idle)
    <3>1. Leaner(r, User!Idle)
      BY <2>1, <2>3 DEF Leaner, User!Goes, Adds
    <3> QED
      BY <3>1
  <2>4. CASE User!Goes(r, added)
    <3> HIDE DEF added
    <3>1. Leaner(r, added)
      BY <2>1, <2>2, <2>4 DEF Leaner, User!Goes, Adds
    <3> QED
      BY <3>1
  <2> QED
    BY <1>5, <2>3, <2>4 DEF User!Count
<1>6. ASSUME NEW r \in Requests,
             User!Find(r) \/ User!Replace(r) \/ User!Remove(r) \/ User!Restore(r) \/ User!Stop(r)
      PROVE  \E q : Leaner(r, q)
  <2>1. req[r] \in Busy /\ UNCHANGED <<begun, calm>>
    BY <1>6, BusyHere DEF User!Find, User!Replace, User!Remove, User!Restore, User!Stop
  <2>2. User!Present(app') \subseteq User!Present(app)
    <3>1. CASE User!Find(r) \/ User!Stop(r)
      BY <3>1 DEF User!Find, User!Stop
    <3>2. CASE User!Restore(r)
      BY <3>2 DEF User!Restore
    <3>3. CASE User!Replace(r)
      BY <3>3 DEF User!Replace, User!Changed, User!Unchanged, User!Redeemable, User!Present, User!TypeOK
    <3>4. CASE User!Remove(r)
      BY <3>4, AppRecordTypes DEF User!Remove, User!Changed, User!Unchanged, User!Present, User!TypeOK
    <3> QED
      BY <1>6, <3>1, <3>2, <3>3, <3>4
  <2> DEFINE Settled(q) == q.at \in {"idle", "remove", "replace"} \/ (q = req[r] /\ req[r].at \in {"remove", "replace"})
  <2>3. PICK q : req' = [req EXCEPT ![r] = q] /\ Settled(q)
    <3>1. /\ [req[r] EXCEPT !.at = "remove"].at = "remove"
          /\ [req[r] EXCEPT !.at = "replace", !.tok = issued + 1].at = "replace"
      BY <2>1 DEF Busy
    <3>2. CASE User!Stop(r) \/ User!Restore(r)
      <4>1. req' = [req EXCEPT ![r] = User!Idle] /\ Settled(User!Idle)
        BY <3>2 DEF User!Stop, User!Restore, User!Goes, User!Fails, User!Idle
      <4> QED
        BY <4>1
    <3>5. CASE User!Find(r)
      <4>1. CASE User!Goes(r, User!Idle)
        <5>1. req' = [req EXCEPT ![r] = User!Idle] /\ Settled(User!Idle)
          BY <4>1 DEF User!Goes, User!Idle
        <5> QED
          BY <5>1
      <4>2. CASE User!Goes(r, [req[r] EXCEPT !.at = "remove"])
        <5>1. req' = [req EXCEPT ![r] = [req[r] EXCEPT !.at = "remove"]] /\ Settled([req[r] EXCEPT !.at = "remove"])
          BY <3>1, <4>2 DEF User!Goes
        <5> QED
          BY <5>1
      <4>3. CASE User!Goes(r, [req[r] EXCEPT !.at = "replace", !.tok = issued + 1])
        <5>1. req' = [req EXCEPT ![r] = [req[r] EXCEPT !.at = "replace", !.tok = issued + 1]] /\ Settled([req[r] EXCEPT !.at = "replace", !.tok = issued + 1])
          BY <3>1, <4>3 DEF User!Goes
        <5> QED
          BY <5>1
      <4> QED
        BY <3>5, <4>1, <4>2, <4>3 DEF User!Find
    <3>3. CASE User!Replace(r)
      BY <3>1, <3>3 DEF User!Replace, User!Changed, User!Unchanged, User!Goes, User!Fails, User!AfterConflict
    <3>4. CASE User!Remove(r)
      BY <3>4 DEF User!Remove, User!Changed, User!Unchanged, User!Goes, User!Fails
    <3> QED
      BY <1>6, <3>2, <3>3, <3>4, <3>5
  <2>4. Leaner(r, q)
    BY <2>1, <2>2, <2>3 DEF Leaner, Adds
  <2> QED
    BY <2>4
<1> QED
  BY <1>1, <1>2, <1>3, <1>4, <1>5, <1>6, LeanerKeeps, ArrivalKeeps, GrowthKeeps DEF User!Next

-----------------------------------------------------------------------------
(* All of it, from the start.                                                 *)
UserInv == User!Assumptions /\ User!TypeOK /\ (intact => CodesInv /\ LimitInv)

LEMMA UserStarts == ASSUME User!Assumptions, User!Init PROVE UserInv
<1> USE BusyOrIdle, AppRecordTypes
<1>1. User!TypeOK
  BY DEF User!Init, User!TypeOK, User!Assumptions
<1>2. CodesInv
  <2>1. \A r \in Requests : RequestInv(r)
    BY DEF User!Init, RequestInv, Shape, Adds
  <2>2. \A a \in Apps : AppInv(a)
    BY DEF User!Init, AppInv
  <2> QED
    BY <2>1, <2>2 DEF CodesInv
<1>3. LimitInv
  <2>1. User!Present(app) = {}
    BY DEF User!Init, User!Present
  <2>2. Cardinality(User!Present(app)) <= MaxApps + Span - 1
    <3>1. Cardinality(User!Present(app)) = 0
      BY <2>1, FS_EmptySet
    <3>2. Span = 1 /\ MaxApps \in Nat \ {0}
      BY DEF User!Init, Span, User!Assumptions
    <3> QED
      BY <3>1, <3>2
  <2>3. PICK rank \in [Requests -> Nat] : \A r \in Requests : rank[r] = 0
    <3>1. [r \in Requests |-> 0] \in [Requests -> Nat]
      OBVIOUS
    <3> QED
      BY <3>1
  <2>4. Fits(rank)
    BY <2>3 DEF User!Init, Fits, Adds
  <2> QED
    BY <2>2, <2>4 DEF User!Init, LimitInv
<1> QED
  BY <1>1, <1>2, <1>3 DEF UserInv

LEMMA UserGoesOn == ASSUME UserInv, [User!Next]_User!vars PROVE UserInv'
<1>1. User!TypeOK'
  BY UserTypesStep DEF UserInv
<1>2. ASSUME intact' PROVE intact
  BY <1>2 DEF UserInv, User!TypeOK, User!Next, User!vars, User!Expire, User!BeginNew, User!BeginList, User!BeginClean,
     User!Clean, User!Count, User!Add, User!BeginRedeem, User!Find, User!Replace, User!BeginRevoke, User!Remove,
     User!BeginOverwrite, User!Restore, User!Stop
<1>3. ASSUME intact' PROVE CodesInv' /\ LimitInv'
  BY <1>2, <1>3, CodesStep, LimitStep DEF UserInv
<1>4. User!Assumptions'
  BY DEF UserInv, User!Assumptions
<1> QED
  BY <1>1, <1>3, <1>4 DEF UserInv

LEMMA UserPromises == UserInv => AppsInv
<1> SUFFICES ASSUME UserInv, intact PROVE User!OneTokenPerCode /\ User!ReplayRevokes /\ User!RevokedStaysGone /\ User!AppLimit
  BY DEF UserInv, AppsInv, User!AppsInv
<1> USE BusyOrIdle
<1>1. CodesInv /\ LimitInv /\ User!TypeOK /\ User!Assumptions
  BY DEF UserInv
<1>2. User!OneTokenPerCode
  <2> SUFFICES ASSUME NEW h \in held, NEW g \in held, h[1] = g[1]
               PROVE  h = g /\ (app[h[1]].st = "live" => app[h[1]].tok = h[2])
    BY DEF User!OneTokenPerCode
  <2>1. h[1] \in Apps
    BY <1>1 DEF User!TypeOK
  <2> QED
    BY <1>1, <2>1, AppRecordTypes DEF CodesInv, AppInv
<1>3. User!ReplayRevokes
  <2> SUFFICES ASSUME User!Quiet, lost = 0, NEW a \in Apps, tries[a] >= 2 PROVE app[a].st = "none"
    BY DEF User!ReplayRevokes
  <2>1. Going(a) = {}
    BY DEF User!Quiet, Going, Redeems
  <2>2. Cardinality(Going(a)) = 0
    BY <2>1, FS_EmptySet
  <2>3. app[a].st \in {"none", "pending", "live"} /\ tries[a] \in Nat
    BY <1>1 DEF User!TypeOK, User!AppRecords
  <2> QED
    BY <1>1, <2>2, <2>3 DEF CodesInv, AppInv
<1>4. User!RevokedStaysGone
  BY <1>1 DEF CodesInv, AppInv, User!RevokedStaysGone, User!TypeOK
<1>5. User!AppLimit
  BY <1>1, SameCardinality, FiniteHere DEF LimitInv, Span, User!AppLimit, User!Assumptions
<1> QED
  BY <1>2, <1>3, <1>4, <1>5

(* For any number of requests, applications and failures, and any limits: as  *)
(* long as nobody writes back a user read before somebody else changed them,  *)
(* a code yields one token, a replayed code revokes its application, what was *)
(* revoked does not come back, and no more applications exceed the limit than *)
(* there are requests that overlap (apps.go, oauth.go).                       *)
THEOREM AppsHold == User!Spec => []AppsInv
<1>1. User!Init => UserInv
  BY PartsAssumption, UserStarts
<1>2. UserInv /\ [User!Next]_User!vars => UserInv'
  BY UserGoesOn
<1>3. UserInv => AppsInv
  BY UserPromises
<1> QED
  BY <1>1, <1>2, <1>3, PTL DEF User!Spec
-----------------------------------------------------------------------------
(* Membership: types. A request under way, and what a step makes of it.       *)
Under == [at : {"site", "user", "list", "perm", "access", "each", "strip", "purge", "drop"},
          kind : {"create", "join", "deleteSite", "deleteUser"}, u : Users, s : Sites, new : BOOLEAN,
          perms : SUBSET Users, mine : SUBSET Sites, todo : SUBSET Users, who : Users]

LEMMA UnderOrIdle ==
    /\ Members!Reqs = {Members!Idle} \union Under
    /\ Members!Idle.at = "idle" /\ \A q \in Under : q.at # "idle"
BY DEF Members!Reqs, Under, Members!Idle

LEMMA UnderHere == ASSUME Members!TypeOK PROVE \A r \in Requests : join[r] = Members!Idle \/ join[r] \in Under
BY UnderOrIdle DEF Members!TypeOK

LEMMA UnderFields ==
    \A q \in Under :
        /\ q.u \in Users /\ q.s \in Sites /\ q.new \in BOOLEAN /\ q.perms \subseteq Users
        /\ q.mine \subseteq Sites /\ q.todo \subseteq Users /\ q.who \in Users
        /\ q.kind \in {"create", "join", "deleteSite", "deleteUser"}
BY DEF Under

Moved(q, w, P, M, T, p) ==
    [at |-> w, kind |-> q.kind, u |-> q.u, s |-> q.s, new |-> q.new, perms |-> P, mine |-> M, todo |-> T, who |-> p]

LEMMA Moves ==
    ASSUME NEW q \in Under
    PROVE  /\ \A w : [q EXCEPT !.at = w] = Moved(q, w, q.perms, q.mine, q.todo, q.who)
           /\ \A w, P : [q EXCEPT !.at = w, !.perms = P] = Moved(q, w, P, q.mine, q.todo, q.who)
           /\ \A w, M : [q EXCEPT !.at = w, !.mine = M] = Moved(q, w, q.perms, M, q.todo, q.who)
           /\ \A w, P : [q EXCEPT !.at = w, !.perms = P, !.todo = P] = Moved(q, w, P, q.mine, P, q.who)
           /\ \A T : [q EXCEPT !.todo = T] = Moved(q, q.at, q.perms, q.mine, T, q.who)
           /\ \A w, p, M : [q EXCEPT !.at = w, !.who = p, !.mine = M] = Moved(q, w, q.perms, M, q.todo, p)
<1>1. q = Moved(q, q.at, q.perms, q.mine, q.todo, q.who)
  BY DEF Moved, Under
<1>2. ASSUME NEW v, NEW P, NEW M, NEW T, NEW p
      PROVE  /\ \A w : [Moved(q, v, P, M, T, p) EXCEPT !.at = w] = Moved(q, w, P, M, T, p)
             /\ \A w : [Moved(q, v, P, M, T, p) EXCEPT !.perms = w] = Moved(q, v, w, M, T, p)
             /\ \A w : [Moved(q, v, P, M, T, p) EXCEPT !.mine = w] = Moved(q, v, P, w, T, p)
             /\ \A w : [Moved(q, v, P, M, T, p) EXCEPT !.todo = w] = Moved(q, v, P, M, w, p)
             /\ \A w : [Moved(q, v, P, M, T, p) EXCEPT !.who = w] = Moved(q, v, P, M, T, w)
  BY DEF Moved
<1>3. \A w : [q EXCEPT !.at = w] = Moved(q, w, q.perms, q.mine, q.todo, q.who)
  BY <1>1, <1>2
<1>4. \A T : [q EXCEPT !.todo = T] = Moved(q, q.at, q.perms, q.mine, T, q.who)
  BY <1>1, <1>2
<1>5. ASSUME NEW w, NEW P
      PROVE  /\ [q EXCEPT !.at = w, !.perms = P] = Moved(q, w, P, q.mine, q.todo, q.who)
             /\ [q EXCEPT !.at = w, !.mine = P] = Moved(q, w, q.perms, P, q.todo, q.who)
             /\ [q EXCEPT !.at = w, !.perms = P, !.todo = P] = Moved(q, w, P, q.mine, P, q.who)
  <2> DEFINE a == [q EXCEPT !.at = w]  b == [a EXCEPT !.perms = P]
  <2>1. a = Moved(q, w, q.perms, q.mine, q.todo, q.who)
    BY <1>3
  <2> HIDE DEF a
  <2>2. b = Moved(q, w, P, q.mine, q.todo, q.who) /\ [a EXCEPT !.mine = P] = Moved(q, w, q.perms, P, q.todo, q.who)
    BY <1>2, <2>1
  <2> HIDE DEF b
  <2>3. [b EXCEPT !.todo = P] = Moved(q, w, P, q.mine, P, q.who)
    BY <1>2, <2>2
  <2> QED
    BY <2>2, <2>3 DEF a, b
<1>6. ASSUME NEW w, NEW p, NEW M
      PROVE  [q EXCEPT !.at = w, !.who = p, !.mine = M] = Moved(q, w, q.perms, M, q.todo, p)
  <2> DEFINE a == [q EXCEPT !.at = w]  b == [a EXCEPT !.who = p]
  <2>1. a = Moved(q, w, q.perms, q.mine, q.todo, q.who)
    BY <1>3
  <2> HIDE DEF a
  <2>2. b = Moved(q, w, q.perms, q.mine, q.todo, p)
    BY <1>2, <2>1
  <2> HIDE DEF b
  <2>3. [b EXCEPT !.mine = M] = Moved(q, w, q.perms, M, q.todo, p)
    BY <1>2, <2>2
  <2> QED
    BY <2>3 DEF a, b
<1> QED
  BY <1>3, <1>4, <1>5, <1>6

LEMMA MovesOn ==
    ASSUME NEW q \in Under, NEW w
    PROVE  [q EXCEPT !.at = w] = Moved(q, w, q.perms, q.mine, q.todo, q.who)
BY Moves
LEMMA MovesWith ==
    ASSUME NEW q \in Under, NEW w, NEW P
    PROVE  /\ [q EXCEPT !.at = w, !.perms = P] = Moved(q, w, P, q.mine, q.todo, q.who)
           /\ [q EXCEPT !.at = w, !.perms = P, !.todo = P] = Moved(q, w, P, q.mine, P, q.who)
BY Moves

LEMMA MovedFields ==
    \A q, w, P, M, T, p :
        /\ Moved(q, w, P, M, T, p).at = w /\ Moved(q, w, P, M, T, p).kind = q.kind
        /\ Moved(q, w, P, M, T, p).u = q.u /\ Moved(q, w, P, M, T, p).s = q.s
        /\ Moved(q, w, P, M, T, p).new = q.new /\ Moved(q, w, P, M, T, p).perms = P
        /\ Moved(q, w, P, M, T, p).mine = M /\ Moved(q, w, P, M, T, p).todo = T
        /\ Moved(q, w, P, M, T, p).who = p
BY DEF Moved

LEMMA MovedType ==
    \A q \in Under, P \in SUBSET Users, M \in SUBSET Sites, T \in SUBSET Users, p \in Users,
       w \in {"site", "user", "list", "perm", "access", "each", "strip", "purge", "drop"} :
        Moved(q, w, P, M, T, p) \in Under
BY DEF Moved, Under

(* A user that is there has a list, a site that is there has permissions.     *)
LEMMA Documents ==
    ASSUME Members!Assumptions, Members!TypeOK
    PROVE  /\ \A v \in Users : Members!Listed(v) \subseteq Sites /\ (list[v] # Absent => Members!Listed(v) = list[v])
           /\ \A v \in Users : list[v] # Absent => list[v] \subseteq Sites
           /\ \A t \in Sites : site[t] # Absent => site[t] \subseteq Users
           /\ \A U \in SUBSET Users : U # Absent
           /\ \A S \in SUBSET Sites : S # Absent
BY DEF Members!TypeOK, Members!Listed, Members!Assumptions

LEMMA ListAfter ==
    ASSUME Members!TypeOK, NEW u \in Users, NEW M, list' = [list EXCEPT ![u] = M]
    PROVE  /\ list'[u] = M /\ \A v \in Users \ {u} : list'[v] = list[v] /\ Members!Listed(v)' = Members!Listed(v)
           /\ M # Absent => Members!Listed(u)' = M
           /\ M = Absent => Members!Listed(u)' = {}
BY DEF Members!TypeOK, Members!Listed

LEMMA SiteAfter ==
    ASSUME Members!TypeOK, NEW s \in Sites, NEW P, site' = [site EXCEPT ![s] = P]
    PROVE  /\ site'[s] = P /\ \A t \in Sites \ {s} : site'[t] = site[t]
           /\ \A v, t : t \in Sites \ {s} => (Members!Permitted(v, t)' <=> Members!Permitted(v, t))
           /\ P # Absent => \A v : Members!Permitted(v, s)' <=> v \in P
           /\ P = Absent => \A v : ~Members!Permitted(v, s)'
BY DEF Members!TypeOK, Members!Permitted

LEMMA ListSame ==
    ASSUME UNCHANGED list PROVE \A v : Members!Listed(v)' = Members!Listed(v)
BY DEF Members!Listed

LEMMA SiteSame ==
    ASSUME UNCHANGED site PROVE \A v, t : Members!Permitted(v, t)' <=> Members!Permitted(v, t)
BY DEF Members!Permitted

(* A step of a request: the others stay where they are, and are no longer     *)
(* alone.                                                                     *)
LEMMA StepOf ==
    ASSUME Members!Assumptions, Members!TypeOK, NEW r \in Requests, NEW q \in Members!Reqs,
           Members!Goes(r, q) \/ Members!Fails(r, q)
    PROVE  /\ join' \in [Requests -> Members!Reqs] /\ failed' \in 0..MaxFailed /\ joins' = joins /\ sober' = sober
           /\ join'[r] = q /\ \A p \in Requests \ {r} : join'[p] = join[p]
           /\ alone' \in [Requests -> BOOLEAN] /\ \A p \in Requests : alone'[p] => p = r /\ alone[r]
           /\ alone'[r] = alone[r]
           /\ Members!Goes(r, q) => failed' = failed
           /\ failed' = 0 => failed = 0 /\ Members!Goes(r, q)
<1>1. join' = [join EXCEPT ![r] = q] /\ alone' = [p \in Requests |-> p = r /\ alone[r]] /\ UNCHANGED <<joins, sober>>
  BY DEF Members!Goes, Members!Fails, Members!Steps
<1>2. join' \in [Requests -> Members!Reqs] /\ join'[r] = q /\ \A p \in Requests \ {r} : join'[p] = join[p]
  BY <1>1 DEF Members!TypeOK
<1>3. alone[r] \in BOOLEAN
  BY DEF Members!TypeOK
<1>4. \A p \in Requests : alone'[p] = (p = r /\ alone[r])
  BY <1>1, Zenon
<1>5. \A p \in Requests : (p = r /\ alone[r]) \in BOOLEAN
  OBVIOUS
<1>6. alone' \in [Requests -> BOOLEAN]
  BY <1>1, <1>5
<1>7. alone'[r] = alone[r] /\ \A p \in Requests : alone'[p] => p = r /\ alone[r]
  BY <1>3, <1>4, Zenon
<1>8. /\ failed' \in 0..MaxFailed
      /\ Members!Goes(r, q) => failed' = failed
      /\ failed' = 0 => failed = 0 /\ Members!Goes(r, q)
  BY DEF Members!Assumptions, Members!TypeOK, Members!Goes, Members!Fails
<1> QED
  BY <1>1, <1>2, <1>6, <1>7, <1>8

(* A request that begins.                                                     *)
LEMMA BegunFields ==
    ASSUME NEW k \in {"create", "join", "deleteSite", "deleteUser"}, NEW u \in Users, NEW s \in Sites
    PROVE  /\ Members!Begun(k, u, s) \in Under
           /\ Members!Begun(k, u, s).u = u /\ Members!Begun(k, u, s).s = s /\ Members!Begun(k, u, s).kind = k
           /\ (Members!Begun(k, u, s).new <=> list[u] = Absent)
           /\ Members!Begun(k, u, s).at = CASE k = "deleteSite" -> "access" [] k = "deleteUser" -> "drop" [] OTHER -> "site"
<1>1. PICK w \in {"site", "access", "drop"} :
          w = CASE k = "deleteSite" -> "access" [] k = "deleteUser" -> "drop" [] OTHER -> "site"
  OBVIOUS
<1>2. PICK n \in BOOLEAN : n = (list[u] = Absent)
  OBVIOUS
<1>3. Members!Begun(k, u, s) =
          [at |-> w, kind |-> k, u |-> u, s |-> s, new |-> n, perms |-> {}, mine |-> {}, todo |-> {}, who |-> u]
  BY <1>1, <1>2 DEF Members!Begun
<1>4. n <=> list[u] = Absent
  BY <1>2, Zenon
<1> QED
  BY <1>1, <1>3, <1>4 DEF Under

(* A request that begins is of one of the kinds.                              *)
LEMMA BegunSo ==
    ASSUME NEW r, Members!Begin(r)
    PROVE  \E k \in {"create", "join", "deleteSite", "deleteUser"}, u \in Users, s \in Sites :
               /\ k \in {"create", "join"} => Members!MayJoin(k, u, s)
               /\ k = "deleteUser" => list[u] = {}
               /\ join' = [join EXCEPT ![r] = Members!Begun(k, u, s)]
BY DEF Members!Begin

(* Where each operation takes the request it is of.                           *)
Onward(r, q) == Members!Goes(r, q) \/ Members!Fails(r, q)

LEMMA MemberTypesStep ==
    ASSUME Members!Assumptions, Members!TypeOK, [Members!Next]_Members!vars PROVE Members!TypeOK'
<1> USE UnderOrIdle
<1>1. CASE UNCHANGED Members!vars
  BY <1>1 DEF Members!vars, Members!TypeOK
<1>2. ASSUME NEW r \in Requests, Members!Begin(r) PROVE Members!TypeOK'
  <2>1. PICK k \in {"create", "join", "deleteSite", "deleteUser"}, u \in Users, s \in Sites :
            join' = [join EXCEPT ![r] = Members!Begun(k, u, s)]
    BY <1>2, BegunSo
  <2>5. join' \in [Requests -> Members!Reqs]
    BY <2>1, BegunFields DEF Members!TypeOK
  <2>6. alone' = [p \in Requests |-> p = r /\ Members!Others(r) = {}] /\ sober' = (sober /\ Members!Others(r) = {})
    BY <1>2 DEF Members!Begin
  <2>7. alone' \in [Requests -> BOOLEAN] /\ sober' \in BOOLEAN
    BY <2>6 DEF Members!TypeOK
  <2>8. joins' \in 0..MaxJoins /\ UNCHANGED <<site, list, failed>>
    BY <1>2 DEF Members!Begin, Members!TypeOK, Members!Assumptions
  <2> QED
    BY <2>5, <2>7, <2>8 DEF Members!TypeOK
<1>3. ASSUME NEW r \in Requests, Members!Stop(r) PROVE Members!TypeOK'
  <2>1. join' \in [Requests -> Members!Reqs] /\ failed' \in 0..MaxFailed /\ sober' \in BOOLEAN /\ UNCHANGED <<site, list, joins>>
    <3>1. join' = [join EXCEPT ![r] = Members!Idle] /\ failed < MaxFailed /\ failed' = failed + 1
          /\ sober' = FALSE /\ UNCHANGED <<site, list, joins>>
      BY <1>3 DEF Members!Stop
    <3>2. join \in [Requests -> Members!Reqs] /\ failed \in 0..MaxFailed /\ MaxFailed \in Nat
      BY DEF Members!TypeOK, Members!Assumptions
    <3>3. join' \in [Requests -> Members!Reqs] /\ failed' \in 0..MaxFailed
      BY <3>1, <3>2
    <3>4. FALSE \in BOOLEAN
      OBVIOUS
    <3> QED
      BY <3>1, <3>3, <3>4, Zenon
  <2>2. alone' \in [Requests -> BOOLEAN]
    BY <1>3 DEF Members!Stop, Members!TypeOK
  <2> QED
    BY <2>1, <2>2 DEF Members!TypeOK
<1>4. ASSUME NEW r \in Requests, NEW q \in Members!Reqs, Onward(r, q),
             site' \in [Sites -> (SUBSET Users) \union {Absent}], list' \in [Users -> (SUBSET Sites) \union {Absent}]
      PROVE  Members!TypeOK'
  <2>1. /\ join' \in [Requests -> Members!Reqs] /\ failed' \in 0..MaxFailed /\ joins' = joins /\ sober' = sober
        /\ alone' \in [Requests -> BOOLEAN]
    BY <1>4, StepOf DEF Onward
  <2> QED
    BY <1>4, <2>1 DEF Members!TypeOK
<1>5. ASSUME NEW r \in Requests, join[r] \in Under,
             \/ Members!CreateSite(r) \/ Members!ReadSite(r) \/ Members!CreateUser(r) \/ Members!ReadUser(r)
             \/ Members!WriteList(r) \/ Members!Permit(r) \/ Members!ReadMembers(r) \/ Members!ReadMember(r)
             \/ Members!StripMember(r) \/ Members!DropSite(r) \/ Members!DropUser(r)
      PROVE  Members!TypeOK'
  <2> DEFINE q == join[r]
  <2>1. /\ q.u \in Users /\ q.s \in Sites /\ q.perms \subseteq Users /\ q.mine \subseteq Sites /\ q.todo \subseteq Users
        /\ q.who \in Users /\ q.at \in {"site", "user", "list", "perm", "access", "each", "strip", "purge", "drop"}
    BY <1>5 DEF Under
  <2>2. site \in [Sites -> (SUBSET Users) \union {Absent}] /\ list \in [Users -> (SUBSET Sites) \union {Absent}]
    BY DEF Members!TypeOK
  <2>3. site' \in [Sites -> (SUBSET Users) \union {Absent}]
    <3>1. CASE UNCHANGED site
      BY <2>2, <3>1
    <3>2. CASE \E P \in (SUBSET Users) \union {Absent} : site' = [site EXCEPT ![q.s] = P]
      BY <2>1, <2>2, <3>2
    <3>3. CASE Members!CreateSite(r) \/ Members!Permit(r) \/ Members!DropSite(r)
      BY <2>1, <3>1, <3>2, <3>3 DEF Members!CreateSite, Members!Permit, Members!DropSite
    <3> QED
      BY <1>5, <3>1, <3>3 DEF Members!ReadSite, Members!CreateUser, Members!ReadUser, Members!WriteList,
         Members!ReadMembers, Members!ReadMember, Members!StripMember, Members!DropUser
  <2>4. list' \in [Users -> (SUBSET Sites) \union {Absent}]
    <3>1. CASE UNCHANGED list
      BY <2>2, <3>1
    <3>2. CASE \E v \in Users, M \in (SUBSET Sites) \union {Absent} : list' = [list EXCEPT ![v] = M]
      BY <2>2, <3>2
    <3>3. CASE Members!CreateUser(r) \/ Members!WriteList(r) \/ Members!StripMember(r) \/ Members!DropUser(r)
      <4>1. {q.s} \subseteq Sites
        BY <2>1
      <4> QED
        BY <2>1, <3>1, <3>2, <3>3, <4>1 DEF Members!CreateUser, Members!WriteList, Members!StripMember, Members!DropUser
    <3> QED
      BY <1>5, <3>1, <3>3 DEF Members!CreateSite, Members!ReadSite, Members!ReadUser, Members!Permit,
         Members!ReadMembers, Members!ReadMember, Members!DropSite
  <2>5. \E nq \in Members!Reqs : Onward(r, nq)
    <3>1. ASSUME NEW w \in {"user", "list", "perm", "each"}, Onward(r, [q EXCEPT !.at = w])
          PROVE  \E nq \in Members!Reqs : Onward(r, nq)
      <4>1. [q EXCEPT !.at = w] = Moved(q, w, q.perms, q.mine, q.todo, q.who)
        BY <1>5, MovesOn
      <4>2. Moved(q, w, q.perms, q.mine, q.todo, q.who) \in Under
        BY <1>5, <2>1, MovedType
      <4> QED
        BY <3>1, <4>1, <4>2
    <3>2. ASSUME NEW P \in SUBSET Users,
                 Onward(r, [q EXCEPT !.at = "user", !.perms = P]) \/ Onward(r, [q EXCEPT !.at = "each", !.perms = P, !.todo = P])
          PROVE  \E nq \in Members!Reqs : Onward(r, nq)
      <4>1. /\ [q EXCEPT !.at = "user", !.perms = P] = Moved(q, "user", P, q.mine, q.todo, q.who)
            /\ [q EXCEPT !.at = "each", !.perms = P, !.todo = P] = Moved(q, "each", P, q.mine, P, q.who)
        BY <1>5, MovesWith
      <4>2. Moved(q, "user", P, q.mine, q.todo, q.who) \in Under /\ Moved(q, "each", P, q.mine, P, q.who) \in Under
        BY <1>5, <2>1, MovedType
      <4> QED
        BY <3>2, <4>1, <4>2
    <3>3. ASSUME NEW M \in SUBSET Sites, Onward(r, [q EXCEPT !.at = "list", !.mine = M])
          PROVE  \E nq \in Members!Reqs : Onward(r, nq)
      <4>1. [q EXCEPT !.at = "list", !.mine = M] = Moved(q, "list", q.perms, M, q.todo, q.who)
        BY <1>5, Moves
      <4>2. Moved(q, "list", q.perms, M, q.todo, q.who) \in Under
        BY <1>5, <2>1, MovedType
      <4> QED
        BY <3>3, <4>1, <4>2
    <3>4. ASSUME Onward(r, Members!Idle) PROVE \E nq \in Members!Reqs : Onward(r, nq)
      BY <3>4
    <3>5. CASE Members!CreateSite(r) \/ Members!ReadSite(r)
      <4>1. {q.u} \in SUBSET Users /\ (site[q.s] # Absent => site[q.s] \in SUBSET Users)
        BY <2>1, <2>2
      <4>2. CASE Onward(r, [q EXCEPT !.at = "user", !.perms = {q.u}])
        BY <3>2, <4>1, <4>2
      <4>3. CASE site[q.s] # Absent /\ Onward(r, [q EXCEPT !.at = "user", !.perms = site[q.s]])
        BY <3>2, <4>1, <4>3
      <4> QED
        BY <3>4, <3>5, <4>2, <4>3 DEF Members!CreateSite, Members!ReadSite, Onward
    <3>6. CASE Members!CreateUser(r) \/ Members!WriteList(r) \/ Members!Permit(r) \/ Members!DropUser(r)
      BY <3>1, <3>4, <3>6 DEF Members!CreateUser, Members!WriteList, Members!Permit, Members!DropUser, Onward
    <3>7. CASE Members!ReadUser(r)
      <4>1. list[q.u] # Absent => list[q.u] \union {q.s} \in SUBSET Sites
        BY <2>1, <2>2
      <4>2. CASE list[q.u] # Absent /\ Onward(r, [q EXCEPT !.at = "list", !.mine = list[q.u] \union {q.s}])
        BY <3>3, <4>1, <4>2
      <4> QED
        BY <3>1, <3>4, <3>7, <4>2 DEF Members!ReadUser, Onward
    <3>8. CASE Members!ReadMembers(r)
      BY <2>1, <2>2, <3>2, <3>4, <3>8 DEF Members!ReadMembers, Members!Permitted, Onward
    <3>9. CASE Members!StripMember(r) \/ Members!DropSite(r)
      BY <3>1, <3>4, <3>9 DEF Members!StripMember, Members!DropSite, Onward
    <3>10. CASE Members!ReadMember(r)
      <4>1. PICK p \in q.todo :
                LET rest == [q EXCEPT !.todo = @ \ {p}] IN
                \/ list[p] # Absent
                   /\ Members!Goes(r, [rest EXCEPT !.at = "strip", !.who = p, !.mine = list[p] \ {q.s}])
                \/ list[p] = Absent /\ Members!Goes(r, rest)
                \/ list[p] # Absent /\ Members!Fails(r, rest)
        BY <3>10 DEF Members!ReadMember
      <4>2. q.todo \ {p} \subseteq Users /\ p \in Users /\ (list[p] # Absent => list[p] \ {q.s} \subseteq Sites)
        BY <2>1, <2>2
      <4>3. PICK rest \in Under : rest = [q EXCEPT !.todo = @ \ {p}]
        <5>1. [q EXCEPT !.todo = @ \ {p}] = Moved(q, q.at, q.perms, q.mine, q.todo \ {p}, q.who)
          BY <1>5, Moves
        <5> QED
          BY <1>5, <2>1, <4>2, <5>1, MovedType
      <4>4. list[p] # Absent => [rest EXCEPT !.at = "strip", !.who = p, !.mine = list[p] \ {q.s}] \in Under
        <5>1. rest.perms \subseteq Users /\ rest.todo \subseteq Users
          BY UnderFields
        <5>2. PICK M : M = list[p] \ {q.s}
          OBVIOUS
        <5>3. [rest EXCEPT !.at = "strip", !.who = p, !.mine = M] = Moved(rest, "strip", rest.perms, M, rest.todo, p)
          <6>1. \A w, p1, M1 : [rest EXCEPT !.at = w, !.who = p1, !.mine = M1] = Moved(rest, w, rest.perms, M1, rest.todo, p1)
            BY Moves, Zenon
          <6> QED
            BY <6>1, Zenon
        <5> QED
          BY <4>2, <5>1, <5>2, <5>3, MovedType
      <4> QED
        BY <4>1, <4>3, <4>4 DEF Onward
    <3> QED
      BY <1>5, <3>5, <3>6, <3>7, <3>8, <3>9, <3>10
  <2> QED
    BY <1>4, <2>3, <2>4, <2>5
<1>6. ASSUME NEW r \in Requests, join[r] = Members!Idle
      PROVE  ~(\/ Members!CreateSite(r) \/ Members!ReadSite(r) \/ Members!CreateUser(r) \/ Members!ReadUser(r)
               \/ Members!WriteList(r) \/ Members!Permit(r) \/ Members!ReadMembers(r) \/ Members!ReadMember(r)
               \/ Members!StripMember(r) \/ Members!DropSite(r) \/ Members!DropUser(r))
  BY <1>6 DEF Members!CreateSite, Members!ReadSite, Members!CreateUser, Members!ReadUser, Members!WriteList,
     Members!Permit, Members!ReadMembers, Members!ReadMember, Members!StripMember, Members!DropSite, Members!DropUser
<1> QED
  BY <1>1, <1>2, <1>3, <1>5, <1>6, UnderHere DEF Members!Next

-----------------------------------------------------------------------------
(* Membership: the two sides, and what a request half way through leaves to   *)
(* be done. What a request that nobody disturbed has read still holds; what   *)
(* it has written is there.                                                   *)
Agree(v, t) == t \in Members!Listed(v) <=> Members!Permitted(v, t)
Joining(q) == q.at \in {"user", "list", "perm"}
Deleting(q) == q.at \in {"each", "strip"}
Undisturbed(q) ==
    /\ Joining(q) => site[q.s] = q.perms
    /\ q.at = "list" => list[q.u] # Absent /\ q.mine = list[q.u] \union {q.s}
    /\ q.at = "perm" => q.s \in Members!Listed(q.u)
    /\ Deleting(q) => q.todo \subseteq q.perms
    /\ q.at = "strip" => q.s \notin q.mine
    /\ Deleting(q) /\ failed = 0 =>
        \A v \in q.perms \ q.todo : q.s \in Members!Listed(v) => q.at = "strip" /\ v = q.who

(* When it is the only one there ever was at a time: all but its own site     *)
(* agrees, of that site the documents it is about to write are what is left.  *)
Bounded(v) == IsFiniteSet(Members!Listed(v)) /\ Cardinality(Members!Listed(v)) <= MaxSites
Settled == \A v \in Users : Bounded(v) /\ \A t \in Sites : Agree(v, t)
HalfWay(q) ==
    /\ \A v \in Users : Bounded(v)
    /\ \A v \in Users, t \in Sites : t # q.s => Agree(v, t)
    /\ q.at \in {"site", "access", "drop"} => \A v \in Users : Agree(v, q.s)
    /\ q.at \in {"site", "user"} => (q.new <=> list[q.u] = Absent)
    /\ q.at \in {"site", "user", "list"} => Cardinality(Members!Listed(q.u) \union {q.s}) <= MaxSites
    /\ Joining(q) => \A v \in Users : v # q.u => Agree(v, q.s)
    /\ Deleting(q) =>
        /\ site[q.s] = q.perms
        /\ \A v \in Users : q.s \in Members!Listed(v) <=> v \in q.todo \/ (q.at = "strip" /\ v = q.who)
    /\ q.at = "strip" => list[q.who] # Absent /\ q.mine = list[q.who] \ {q.s} /\ q.who \notin q.todo
    /\ q.at = "drop" => Members!Listed(q.u) = {}

(* What every operation but the first sees to.                                *)
Keeps(q, n) ==
    /\ Undisturbed(q) /\ n.at # "idle" => Undisturbed(n)'
    /\ Undisturbed(q) /\ HalfWay(q) /\ failed' = 0 => IF n.at = "idle" THEN Settled' ELSE HalfWay(n)'

LEMMA SameBounds ==
    ASSUME NEW v, Members!Listed(v)' = Members!Listed(v) PROVE Bounded(v)' = Bounded(v)
BY DEF Bounded

LEMMA KeepsReading ==
    ASSUME Members!Assumptions, Members!TypeOK, NEW r \in Requests, join[r] \in Under,
           Members!CreateSite(r) \/ Members!ReadSite(r)
    PROVE  \E n \in Members!Reqs : Onward(r, n) /\ Keeps(join[r], n)
<1> USE UnderOrIdle
<1>1. PICK q \in Under : q = join[r]
  OBVIOUS
<1>2. q.u \in Users /\ q.s \in Sites /\ q.mine \subseteq Sites /\ q.todo \subseteq Users /\ q.who \in Users /\ q.at = "site"
  BY <1>1 DEF Under, Members!CreateSite, Members!ReadSite
<1>3. UNCHANGED list /\ \A v : Members!Listed(v)' = Members!Listed(v)
  BY ListSame DEF Members!CreateSite, Members!ReadSite
<1>4. ASSUME NEW P \in SUBSET Users, Members!Goes(r, [q EXCEPT !.at = "user", !.perms = P]), site'[q.s] = P,
             \A v, t : t \in Sites \ {q.s} => (Members!Permitted(v, t)' <=> Members!Permitted(v, t)),
             \A v \in Users : v # q.u => (Members!Permitted(v, q.s)' <=> Members!Permitted(v, q.s))
      PROVE  \E n \in Members!Reqs : Onward(r, n) /\ Keeps(q, n)
  <2>1. PICK n : n = Moved(q, "user", P, q.mine, q.todo, q.who)
    OBVIOUS
  <2>2. n = [q EXCEPT !.at = "user", !.perms = P] /\ n \in Under
    BY <1>2, <2>1, Moves, MovedType
  <2>3. n.at = "user" /\ n.u = q.u /\ n.s = q.s /\ n.new = q.new /\ n.perms = P
    BY <2>1, MovedFields
  <2>4. Undisturbed(n)'
    BY <1>4, <2>3 DEF Undisturbed, Joining, Deleting
  <2>5. ASSUME HalfWay(q) PROVE HalfWay(n)'
    <3>1. \A v \in Users : Bounded(v)'
      BY <1>3, <2>5, SameBounds DEF HalfWay
    <3>2. \A v \in Users, t \in Sites : t # q.s => Agree(v, t)'
      BY <1>2, <1>3, <1>4, <2>5 DEF HalfWay, Agree
    <3>3. \A v \in Users : v # q.u => Agree(v, q.s)'
      BY <1>2, <1>3, <1>4, <2>5 DEF HalfWay, Agree
    <3>4. (q.new <=> list'[q.u] = Absent) /\ Cardinality(Members!Listed(q.u)' \union {q.s}) <= MaxSites
      BY <1>2, <1>3, <2>5 DEF HalfWay
    <3> QED
      BY <2>3, <3>1, <3>2, <3>3, <3>4 DEF HalfWay, Joining, Deleting
  <2> QED
    BY <1>4, <2>2, <2>3, <2>4, <2>5 DEF Keeps, Onward
<1>5. ASSUME Members!Goes(r, Members!Idle), UNCHANGED site
      PROVE  \E n \in Members!Reqs : Onward(r, n) /\ Keeps(q, n)
  <2>1. \A v, t : Members!Permitted(v, t)' <=> Members!Permitted(v, t)
    BY <1>5, SiteSame
  <2>2. HalfWay(q) => Settled'
    BY <1>2, <1>3, <2>1 DEF HalfWay, Settled, Bounded, Agree
  <2> QED
    BY <1>5, <2>2 DEF Keeps, Onward
<1>6. CASE Members!CreateSite(r)
  <2>1. CASE site[q.s] = Absent /\ site' = [site EXCEPT ![q.s] = {q.u}] /\ Members!Goes(r, [q EXCEPT !.at = "user", !.perms = {q.u}])
    <3>1. PICK P \in SUBSET Users : P = {q.u} /\ P # Absent
      <4>1. {q.u} \in SUBSET Users
        BY <1>2
      <4> QED
        BY <4>1, Documents
    <3>2. P # Absent
      BY <3>1
    <3>3. site' = [site EXCEPT ![q.s] = P]
      BY <2>1, <3>1
    <3>4. /\ site'[q.s] = P
          /\ \A v, t : t \in Sites \ {q.s} => (Members!Permitted(v, t)' <=> Members!Permitted(v, t))
          /\ \A v : Members!Permitted(v, q.s)' <=> v \in P
      <4>1. site'[q.s] = P
        BY <1>2, <3>3, SiteAfter
      <4>2. \A v, t : t \in Sites \ {q.s} => (Members!Permitted(v, t)' <=> Members!Permitted(v, t))
        BY <1>2, <3>3, SiteAfter
      <4>3. \A v : Members!Permitted(v, q.s)' <=> v \in P
        BY <1>2, <3>3, <3>2, SiteAfter
      <4> QED
        BY <4>1, <4>2, <4>3
    <3>5. \A v \in Users : v # q.u => (Members!Permitted(v, q.s)' <=> Members!Permitted(v, q.s))
      BY <2>1, <3>4 DEF Members!Permitted
    <3> QED
      BY <1>1, <1>4, <2>1, <3>1, <3>4, <3>5
  <2> QED
    BY <1>1, <1>5, <1>6, <2>1 DEF Members!CreateSite
<1>7. CASE Members!ReadSite(r)
  <2>1. \A v, t : Members!Permitted(v, t)' <=> Members!Permitted(v, t)
    BY <1>7, SiteSame DEF Members!ReadSite
  <2>2. CASE site[q.s] # Absent /\ Members!Goes(r, [q EXCEPT !.at = "user", !.perms = site[q.s]])
    <3>1. PICK P \in SUBSET Users : P = site[q.s]
      BY <1>2, <2>2, Documents
    <3> QED
      BY <1>1, <1>4, <1>7, <2>1, <2>2, <3>1 DEF Members!ReadSite
  <2> QED
    BY <1>1, <1>5, <1>7, <2>2 DEF Members!ReadSite
<1> QED
  BY <1>6, <1>7

(* The user's side of a creation or a join.                                   *)
LEMMA KeepsJoining ==
    ASSUME Members!Assumptions, Members!TypeOK, NEW r \in Requests, join[r] \in Under,
           Members!CreateUser(r) \/ Members!ReadUser(r) \/ Members!WriteList(r)
    PROVE  \E n \in Members!Reqs : Onward(r, n) /\ Keeps(join[r], n)
<1> USE UnderOrIdle
<1>1. PICK q \in Under : q = join[r]
  OBVIOUS
<1>2. /\ q.u \in Users /\ q.s \in Sites /\ q.perms \subseteq Users /\ q.mine \subseteq Sites
      /\ q.todo \subseteq Users /\ q.who \in Users /\ q.at \in {"user", "list"}
  BY <1>1 DEF Under, Members!CreateUser, Members!ReadUser, Members!WriteList
<1>3. UNCHANGED site /\ \A v, t : Members!Permitted(v, t)' <=> Members!Permitted(v, t)
  BY SiteSame DEF Members!CreateUser, Members!ReadUser, Members!WriteList
<1>4. ASSUME NEW M \in SUBSET Sites, Members!Goes(r, [q EXCEPT !.at = "perm"]), Members!Listed(q.u)' = M,
             \A v \in Users : v # q.u => Members!Listed(v)' = Members!Listed(v),
             Undisturbed(q) => M = Members!Listed(q.u) \union {q.s}
      PROVE  \E n \in Members!Reqs : Onward(r, n) /\ Keeps(q, n)
  <2>1. PICK n : n = Moved(q, "perm", q.perms, q.mine, q.todo, q.who)
    OBVIOUS
  <2>2. n = [q EXCEPT !.at = "perm"] /\ n \in Under
    BY <1>2, <2>1, Moves, MovedType
  <2>3. n.at = "perm" /\ n.u = q.u /\ n.s = q.s /\ n.perms = q.perms
    BY <2>1, MovedFields
  <2>4. Undisturbed(q) => Undisturbed(n)'
    BY <1>2, <1>3, <1>4, <2>3 DEF Undisturbed, Joining, Deleting
  <2>5. ASSUME HalfWay(q), Undisturbed(q) PROVE HalfWay(n)'
    <3>1. Bounded(q.u)'
      <4>1. IsFiniteSet(Members!Listed(q.u))
        BY <1>2, <2>5 DEF HalfWay, Bounded
      <4>2. IsFiniteSet(Members!Listed(q.u) \union {q.s})
        BY <4>1, FS_AddElement
      <4>3. Cardinality(Members!Listed(q.u) \union {q.s}) <= MaxSites
        BY <1>2, <2>5 DEF HalfWay
      <4> QED
        BY <1>4, <2>5, <4>2, <4>3 DEF Bounded
    <3>2. \A v \in Users : v # q.u => Bounded(v)'
      BY <1>4, <2>5, SameBounds DEF HalfWay
    <3>3. \A v \in Users, t \in Sites : t # q.s => Agree(v, t)'
      <4> SUFFICES ASSUME NEW v \in Users, NEW t \in Sites, t # q.s PROVE Agree(v, t)'
        OBVIOUS
      <4>1. t \in Members!Listed(v)' <=> t \in Members!Listed(v)
        BY <1>4, <2>5
      <4> QED
        BY <1>3, <2>5, <4>1 DEF HalfWay, Agree
    <3>4. \A v \in Users : v # q.u => Agree(v, q.s)'
      BY <1>2, <1>3, <1>4, <2>5 DEF HalfWay, Agree, Joining
    <3> QED
      BY <2>3, <3>1, <3>2, <3>3, <3>4 DEF HalfWay, Joining, Deleting
  <2> QED
    BY <1>4, <2>2, <2>3, <2>4, <2>5 DEF Keeps, Onward
<1>5. ASSUME Members!Goes(r, Members!Idle), HalfWay(q) /\ Undisturbed(q) => FALSE
      PROVE  \E n \in Members!Reqs : Onward(r, n) /\ Keeps(q, n)
  BY <1>5 DEF Keeps, Onward
<1>6. CASE Members!CreateUser(r)
  <2>1. CASE list[q.u] = Absent /\ list' = [list EXCEPT ![q.u] = {q.s}] /\ Members!Goes(r, [q EXCEPT !.at = "perm"])
    <3>1. PICK M \in SUBSET Sites : M = {q.s}
      BY <1>2
    <3>2. M # Absent
      BY Documents
    <3>3. list' = [list EXCEPT ![q.u] = M] /\ q.s \in M
      BY <2>1, <3>1
    <3>4. Members!Listed(q.u)' = M /\ \A v \in Users : v # q.u => Members!Listed(v)' = Members!Listed(v)
      BY <1>2, <3>2, <3>3, ListAfter
    <3>5. Members!Listed(q.u) = {}
      BY <2>1 DEF Members!Listed
    <3>6. M = Members!Listed(q.u) \union {q.s}
      BY <3>1, <3>5
    <3> QED
      BY <1>1, <1>4, <2>1, <3>3, <3>4, <3>6
  <2>2. CASE list[q.u] # Absent /\ Members!Goes(r, Members!Idle)
    <3>1. q.new /\ q.at = "user"
      BY <1>1, <1>6 DEF Members!CreateUser
    <3>2. ~HalfWay(q)
      BY <2>2, <3>1 DEF HalfWay
    <3> QED
      BY <1>1, <1>5, <2>2, <3>2
  <2> QED
    BY <1>1, <1>6, <2>1, <2>2 DEF Members!CreateUser
<1>7. CASE Members!ReadUser(r)
  <2>1. UNCHANGED list /\ \A v : Members!Listed(v)' = Members!Listed(v)
    BY <1>7, ListSame DEF Members!ReadUser
  <2>2. q.at = "user" /\ ~q.new
    BY <1>1, <1>7 DEF Members!ReadUser
  <2>3. CASE list[q.u] = Absent /\ Members!Goes(r, Members!Idle)
    <3>1. ~HalfWay(q)
      BY <2>2, <2>3 DEF HalfWay
    <3> QED
      BY <1>1, <1>5, <2>3, <3>1
  <2>4. CASE list[q.u] # Absent /\ Members!Goes(r, [q EXCEPT !.at = "list", !.mine = list[q.u] \union {q.s}])
    <3>1. list[q.u] \subseteq Sites /\ Members!Listed(q.u) = list[q.u]
      BY <1>2, <2>4, Documents
    <3>2. PICK M \in SUBSET Sites : M = list[q.u] \union {q.s}
      BY <1>2, <3>1
    <3>3. PICK n : n = Moved(q, "list", q.perms, M, q.todo, q.who)
      OBVIOUS
    <3>4. n = [q EXCEPT !.at = "list", !.mine = M] /\ n \in Under
      BY <1>2, <3>3, Moves, MovedType
    <3>5. n.at = "list" /\ n.u = q.u /\ n.s = q.s /\ n.perms = q.perms /\ n.mine = M
      BY <3>3, MovedFields
    <3>6. Undisturbed(q) => Undisturbed(n)'
      BY <1>2, <1>3, <2>1, <2>2, <2>4, <3>2, <3>5 DEF Undisturbed, Joining, Deleting
    <3>7. ASSUME HalfWay(q) PROVE HalfWay(n)'
      <4>1. \A v \in Users : Bounded(v)'
        BY <2>1, <3>7, SameBounds DEF HalfWay
      <4>2. \A v \in Users, t \in Sites : t # q.s => Agree(v, t)'
        BY <1>3, <2>1, <3>7 DEF HalfWay, Agree
      <4>3. \A v \in Users : v # q.u => Agree(v, q.s)'
        BY <1>2, <1>3, <2>1, <2>2, <3>7 DEF HalfWay, Agree, Joining
      <4>4. Cardinality(Members!Listed(q.u)' \union {q.s}) <= MaxSites
        BY <2>1, <2>2, <3>7 DEF HalfWay
      <4> QED
        BY <3>5, <4>1, <4>2, <4>3, <4>4 DEF HalfWay, Joining, Deleting
    <3>8. Members!Goes(r, n)
      BY <2>4, <3>2, <3>4
    <3> QED
      BY <1>1, <3>4, <3>5, <3>6, <3>7, <3>8 DEF Keeps, Onward
  <2>5. CASE list[q.u] # Absent /\ q.s \in list[q.u] /\ Members!Goes(r, [q EXCEPT !.at = "perm"])
    <3>1. list[q.u] \subseteq Sites /\ Members!Listed(q.u) = list[q.u]
      BY <1>2, <2>5, Documents
    <3>2. Members!Listed(q.u)' = list[q.u] /\ list[q.u] = Members!Listed(q.u) \union {q.s}
      BY <2>1, <2>5, <3>1
    <3> QED
      BY <1>1, <1>4, <2>1, <2>5, <3>1, <3>2
  <2> QED
    BY <1>1, <1>7, <2>3, <2>4, <2>5 DEF Members!ReadUser
<1>8. CASE Members!WriteList(r)
  <2>1. q.at = "list" /\ list' = [list EXCEPT ![q.u] = q.mine] /\ Members!Goes(r, [q EXCEPT !.at = "perm"])
    BY <1>1, <1>8 DEF Members!WriteList
  <2>2. PICK M \in SUBSET Sites : M = q.mine
    BY <1>2
  <2>3. M # Absent
    BY Documents
  <2>4. Members!Listed(q.u)' = M /\ \A v \in Users : v # q.u => Members!Listed(v)' = Members!Listed(v)
    BY <1>2, <2>1, <2>2, <2>3, ListAfter
  <2>5. Undisturbed(q) => M = Members!Listed(q.u) \union {q.s}
    BY <1>2, <2>1, <2>2, Documents DEF Undisturbed
  <2> QED
    BY <1>1, <1>4, <2>1, <2>4, <2>5
<1> QED
  BY <1>6, <1>7, <1>8

LEMMA FailuresCount ==
    ASSUME Members!Assumptions, Members!TypeOK, NEW r, NEW q, Members!Fails(r, q) PROVE failed' # 0
BY DEF Members!Assumptions, Members!TypeOK, Members!Fails

(* The site's side of a join, and the two last steps of the deletions.        *)
LEMMA KeepsEnding ==
    ASSUME Members!Assumptions, Members!TypeOK, NEW r \in Requests, join[r] \in Under,
           Members!Permit(r) \/ Members!DropSite(r) \/ Members!DropUser(r)
    PROVE  \E n \in Members!Reqs : Onward(r, n) /\ Keeps(join[r], n)
<1> USE UnderOrIdle
<1>1. PICK q \in Under : q = join[r]
  OBVIOUS
<1>2. q.u \in Users /\ q.s \in Sites /\ q.perms \subseteq Users /\ q.mine \subseteq Sites /\ q.todo \subseteq Users
  BY DEF Under
<1>3. ASSUME Onward(r, Members!Idle), Undisturbed(q) /\ HalfWay(q) /\ failed' = 0 => Settled'
      PROVE  \E n \in Members!Reqs : Onward(r, n) /\ Keeps(q, n)
  BY <1>3 DEF Keeps
<1>4. CASE Members!Permit(r)
  <2>1. /\ q.at = "perm" /\ Onward(r, Members!Idle) /\ UNCHANGED list
        /\ site' = IF q.u \in q.perms THEN site ELSE [site EXCEPT ![q.s] = q.perms \union {q.u}]
    BY <1>1, <1>4 DEF Members!Permit, Onward
  <2>2. \A v : Members!Listed(v)' = Members!Listed(v)
    BY <2>1, ListSame
  <2>3. ASSUME Undisturbed(q), HalfWay(q) PROVE Settled'
    <3>1. site[q.s] = q.perms /\ q.perms # Absent /\ q.s \in Members!Listed(q.u)
      BY <1>2, <2>1, <2>3, Documents DEF Undisturbed, Joining
    <3>2. /\ \A v, t : t \in Sites \ {q.s} => (Members!Permitted(v, t)' <=> Members!Permitted(v, t))
          /\ \A v : Members!Permitted(v, q.s)' <=> v \in q.perms \/ v = q.u
      <4>1. CASE q.u \in q.perms
        <5>1. \A v, t : Members!Permitted(v, t)' <=> Members!Permitted(v, t)
          BY <2>1, <4>1, SiteSame
        <5> QED
          BY <3>1, <4>1, <5>1 DEF Members!Permitted
      <4>2. CASE q.u \notin q.perms
        <5>1. PICK P \in SUBSET Users : P = q.perms \union {q.u}
          BY <1>2
        <5>2. P # Absent
          BY Documents
        <5>3. site' = [site EXCEPT ![q.s] = P]
          BY <2>1, <4>2, <5>1
        <5>4. \A v, t : t \in Sites \ {q.s} => (Members!Permitted(v, t)' <=> Members!Permitted(v, t))
          BY <1>2, <5>3, SiteAfter
        <5>5. \A v : Members!Permitted(v, q.s)' <=> v \in P
          BY <1>2, <5>2, <5>3, SiteAfter
        <5> QED
          BY <5>1, <5>4, <5>5
      <4> QED
        BY <4>1, <4>2
    <3>3. \A v \in Users : Bounded(v)'
      BY <2>2, <2>3, SameBounds DEF HalfWay
    <3>4. \A v \in Users, t \in Sites : t # q.s => Agree(v, t)'
      BY <2>2, <2>3, <3>2 DEF HalfWay, Agree
    <3>5. \A v \in Users : Agree(v, q.s)'
      <4>1. \A v : Members!Permitted(v, q.s) <=> v \in q.perms
        BY <3>1 DEF Members!Permitted
      <4>2. \A v \in Users : v # q.u => Agree(v, q.s)
        BY <2>1, <2>3 DEF HalfWay, Joining
      <4> QED
        BY <2>2, <3>1, <3>2, <4>1, <4>2 DEF Agree
    <3> QED
      BY <3>3, <3>4, <3>5 DEF Settled
  <2> QED
    BY <1>1, <1>3, <2>1, <2>3
<1>5. CASE Members!DropSite(r)
  <2>1. q.at = "each" /\ q.todo = {} /\ Onward(r, Members!Idle) /\ UNCHANGED list
    BY <1>1, <1>5 DEF Members!DropSite, Onward
  <2>2. \A v : Members!Listed(v)' = Members!Listed(v)
    BY <2>1, ListSame
  <2>3. ASSUME HalfWay(q), failed' = 0 PROVE Settled'
    <3>1. site' = [site EXCEPT ![q.s] = Absent]
      BY <1>1, <1>5, <2>3, FailuresCount DEF Members!DropSite
    <3>2. /\ \A v, t : t \in Sites \ {q.s} => (Members!Permitted(v, t)' <=> Members!Permitted(v, t))
          /\ \A v : ~Members!Permitted(v, q.s)'
      BY <1>2, <3>1, SiteAfter
    <3>3. \A v \in Users : Bounded(v)'
      BY <2>2, <2>3, SameBounds DEF HalfWay
    <3>4. \A v \in Users, t \in Sites : t # q.s => Agree(v, t)'
      BY <2>2, <2>3, <3>2 DEF HalfWay, Agree
    <3>5. \A v \in Users : Agree(v, q.s)'
      BY <2>1, <2>2, <2>3, <3>2 DEF HalfWay, Agree, Deleting
    <3> QED
      BY <3>3, <3>4, <3>5 DEF Settled
  <2> QED
    BY <1>1, <1>3, <2>1, <2>3
<1>6. CASE Members!DropUser(r)
  <2>1. q.at = "drop" /\ Onward(r, Members!Idle) /\ UNCHANGED site /\ list' = [list EXCEPT ![q.u] = Absent]
    BY <1>1, <1>6 DEF Members!DropUser, Onward
  <2>2. \A v, t : Members!Permitted(v, t)' <=> Members!Permitted(v, t)
    BY <2>1, SiteSame
  <2>3. ASSUME HalfWay(q) PROVE Settled'
    <3>1. Members!Listed(q.u)' = {} /\ Members!Listed(q.u) = {}
      BY <1>2, <2>1, <2>3, ListAfter DEF HalfWay
    <3>2. \A v \in Users : Members!Listed(v)' = Members!Listed(v)
      BY <1>2, <2>1, <3>1, ListAfter
    <3>3. \A v \in Users : Bounded(v)'
      BY <2>3, <3>2, SameBounds DEF HalfWay
    <3>4. \A v \in Users, t \in Sites : Agree(v, t)'
      BY <2>1, <2>2, <2>3, <3>2 DEF HalfWay, Agree
    <3> QED
      BY <3>3, <3>4 DEF Settled
  <2> QED
    BY <1>1, <1>3, <2>1, <2>3
<1> QED
  BY <1>4, <1>5, <1>6

(* The loop of a deletion.                                                    *)
LEMMA KeepsDeleting ==
    ASSUME Members!Assumptions, Members!TypeOK, NEW r \in Requests, join[r] \in Under,
           Members!ReadMembers(r) \/ Members!ReadMember(r) \/ Members!StripMember(r)
    PROVE  \E n \in Members!Reqs : Onward(r, n) /\ Keeps(join[r], n)
<1> USE UnderOrIdle
<1>1. PICK q \in Under : q = join[r]
  OBVIOUS
<1>2. /\ q.u \in Users /\ q.s \in Sites /\ q.perms \subseteq Users /\ q.mine \subseteq Sites
      /\ q.todo \subseteq Users /\ q.who \in Users
  BY DEF Under
<1>3. UNCHANGED site /\ \A v, t : Members!Permitted(v, t)' <=> Members!Permitted(v, t)
  BY SiteSame DEF Members!ReadMembers, Members!ReadMember, Members!StripMember
<1>4. CASE Members!ReadMembers(r)
  <2>1. q.at = "access" /\ UNCHANGED list /\ \A v : Members!Listed(v)' = Members!Listed(v)
    BY <1>1, <1>4, ListSame DEF Members!ReadMembers
  <2>2. HalfWay(q) => Settled'
    BY <1>2, <1>3, <2>1 DEF HalfWay, Settled, Bounded, Agree
  <2>3. CASE Members!Permitted(q.u, q.s) /\ Members!Goes(r, [q EXCEPT !.at = "each", !.perms = site[q.s], !.todo = site[q.s]])
    <3>1. PICK P \in SUBSET Users : P = site[q.s]
      BY <1>2, <2>3, Documents DEF Members!Permitted
    <3>2. PICK n : n = Moved(q, "each", P, q.mine, P, q.who)
      OBVIOUS
    <3>3. n = [q EXCEPT !.at = "each", !.perms = P, !.todo = P] /\ n \in Under
      BY <1>2, <3>2, Moves, MovedType
    <3>4. n.at = "each" /\ n.u = q.u /\ n.s = q.s /\ n.perms = P /\ n.todo = P
      BY <3>2, MovedFields
    <3>5. Undisturbed(n)'
      BY <3>4 DEF Undisturbed, Joining, Deleting
    <3>6. ASSUME HalfWay(q) PROVE HalfWay(n)'
      <4>1. \A v \in Users : Bounded(v)'
        BY <2>1, <3>6, SameBounds DEF HalfWay
      <4>2. \A v \in Users, t \in Sites : t # q.s => Agree(v, t)'
        BY <1>3, <2>1, <3>6 DEF HalfWay, Agree
      <4>3. \A v \in Users : q.s \in Members!Listed(v)' <=> v \in P
        BY <2>1, <2>3, <3>1, <3>6 DEF HalfWay, Agree, Members!Permitted
      <4> QED
        BY <1>3, <3>1, <3>4, <4>1, <4>2, <4>3 DEF HalfWay, Joining, Deleting
    <3>7. Members!Goes(r, n)
      BY <2>3, <3>1, <3>3
    <3> QED
      BY <1>1, <3>3, <3>4, <3>5, <3>6, <3>7 DEF Keeps, Onward
  <2>4. CASE Members!Goes(r, Members!Idle)
    BY <1>1, <2>2, <2>4 DEF Keeps, Onward
  <2> QED
    BY <1>1, <1>4, <2>3, <2>4 DEF Members!ReadMembers
<1>5. CASE Members!ReadMember(r)
  <2>1. q.at = "each" /\ UNCHANGED list /\ \A v : Members!Listed(v)' = Members!Listed(v)
    BY <1>1, <1>5, ListSame DEF Members!ReadMember
  <2>2. PICK p \in q.todo :
            LET rest == [q EXCEPT !.todo = @ \ {p}] IN
            \/ list[p] # Absent
               /\ Members!Goes(r, [rest EXCEPT !.at = "strip", !.who = p, !.mine = list[p] \ {q.s}])
            \/ list[p] = Absent /\ Members!Goes(r, rest)
            \/ list[p] # Absent /\ Members!Fails(r, rest)
    BY <1>1, <1>5 DEF Members!ReadMember
  <2>3. PICK T \in SUBSET Users : T = q.todo \ {p}
    BY <1>2
  <2>4. PICK rest : rest = Moved(q, "each", q.perms, q.mine, T, q.who)
    OBVIOUS
  <2>5. rest = [q EXCEPT !.todo = @ \ {p}] /\ rest \in Under
    <3>1. [q EXCEPT !.todo = T] = rest
      BY <2>1, <2>4, Moves
    <3>2. rest \in Under
      BY <1>2, <2>4, MovedType
    <3> QED
      BY <2>3, <3>1, <3>2
  <2>6. rest.at = "each" /\ rest.s = q.s /\ rest.u = q.u /\ rest.perms = q.perms /\ rest.mine = q.mine /\ rest.todo = T /\ rest.who = q.who
    BY <2>4, MovedFields
  <2>7. CASE list[p] # Absent /\ Members!Goes(r, [rest EXCEPT !.at = "strip", !.who = p, !.mine = list[p] \ {q.s}])
    <3>1. p \in Users /\ Members!Listed(p) = list[p] /\ list[p] \subseteq Sites
      BY <1>2, <2>7, Documents
    <3>2. PICK M \in SUBSET Sites : M = list[p] \ {q.s}
      BY <3>1
    <3>3. PICK n : n = Moved(rest, "strip", rest.perms, M, rest.todo, p)
      OBVIOUS
    <3>4. n = [rest EXCEPT !.at = "strip", !.who = p, !.mine = M]
      <4>1. \A w, p1, M1 : [rest EXCEPT !.at = w, !.who = p1, !.mine = M1] = Moved(rest, w, rest.perms, M1, rest.todo, p1)
        BY <2>5, Moves, Zenon
      <4> QED
        BY <3>3, <4>1, Zenon
    <3>5. n \in Under
      BY <1>2, <2>3, <2>5, <2>6, <3>1, <3>3, MovedType
    <3>6. n.at = "strip" /\ n.u = q.u /\ n.s = q.s /\ n.perms = q.perms /\ n.mine = M /\ n.todo = T /\ n.who = p
      BY <2>6, <3>3, MovedFields
    <3>7. Undisturbed(q) => Undisturbed(n)'
      <4>1. failed' = failed
        BY <2>7 DEF Members!Goes
      <4> QED
        BY <2>1, <2>3, <3>2, <3>6, <4>1 DEF Undisturbed, Joining, Deleting
    <3>8. ASSUME HalfWay(q) PROVE HalfWay(n)'
      <4>1. \A v \in Users : Bounded(v)'
        BY <2>1, <3>8, SameBounds DEF HalfWay
      <4>2. \A v \in Users, t \in Sites : t # q.s => Agree(v, t)'
        BY <1>3, <2>1, <3>8 DEF HalfWay, Agree
      <4>3. \A v \in Users : q.s \in Members!Listed(v)' <=> v \in T \/ v = p
        BY <2>1, <2>3, <3>8 DEF HalfWay, Deleting
      <4>4. site'[q.s] = q.perms /\ list'[p] # Absent /\ M = list'[p] \ {q.s} /\ p \notin T
        BY <1>3, <2>1, <2>3, <2>7, <3>2, <3>8 DEF HalfWay, Deleting
      <4> QED
        BY <3>6, <4>1, <4>2, <4>3, <4>4 DEF HalfWay, Joining, Deleting
    <3>9. Members!Goes(r, n)
      BY <2>7, <3>2, <3>4
    <3> QED
      BY <1>1, <3>5, <3>6, <3>7, <3>8, <3>9 DEF Keeps, Onward
  <2>8. CASE list[p] = Absent /\ Members!Goes(r, rest)
    <3>1. p \in Users /\ Members!Listed(p) = {}
      BY <1>2, <2>8 DEF Members!Listed
    <3>2. ~HalfWay(q)
      BY <2>1, <3>1 DEF HalfWay, Deleting
    <3>3. Undisturbed(q) => Undisturbed(rest)'
      <4>1. failed' = failed
        BY <2>8 DEF Members!Goes
      <4> QED
        BY <2>1, <2>3, <2>6, <3>1, <4>1 DEF Undisturbed, Joining, Deleting
    <3> QED
      BY <1>1, <2>5, <2>6, <2>8, <3>2, <3>3 DEF Keeps, Onward
  <2>9. CASE Members!Fails(r, rest)
    <3>1. failed' # 0
      BY <2>9, FailuresCount
    <3>2. Undisturbed(q) => Undisturbed(rest)'
      BY <2>1, <2>3, <2>6, <3>1 DEF Undisturbed, Joining, Deleting
    <3> QED
      BY <1>1, <2>5, <2>6, <2>9, <3>1, <3>2 DEF Keeps, Onward
  <2> QED
    BY <2>2, <2>5, <2>7, <2>8, <2>9
<1>6. CASE Members!StripMember(r)
  <2>1. q.at = "strip"
    BY <1>1, <1>6 DEF Members!StripMember
  <2>2. PICK n : n = Moved(q, "each", q.perms, q.mine, q.todo, q.who)
    OBVIOUS
  <2>3. n = [q EXCEPT !.at = "each"] /\ n \in Under
    BY <1>2, <2>2, Moves, MovedType
  <2>4. n.at = "each" /\ n.u = q.u /\ n.s = q.s /\ n.perms = q.perms /\ n.todo = q.todo
    BY <2>2, MovedFields
  <2>5. CASE list' = [list EXCEPT ![q.who] = q.mine] /\ Members!Goes(r, n)
    <3>1. PICK M \in SUBSET Sites : M = q.mine
      BY <1>2
    <3>2. M # Absent
      BY Documents
    <3>3. Members!Listed(q.who)' = M /\ \A v \in Users : v # q.who => Members!Listed(v)' = Members!Listed(v)
      BY <1>2, <2>5, <3>1, <3>2, ListAfter
    <3>4. failed' = failed
      BY <2>5 DEF Members!Goes
    <3>5. ASSUME Undisturbed(q) PROVE Undisturbed(n)'
      <4>1. q.todo \subseteq q.perms /\ q.s \notin M
        BY <2>1, <3>1, <3>5 DEF Undisturbed, Deleting
      <4>2. ASSUME failed' = 0, NEW v \in q.perms \ q.todo PROVE q.s \notin Members!Listed(v)'
        BY <1>2, <2>1, <3>3, <3>4, <3>5, <4>1, <4>2 DEF Undisturbed, Deleting
      <4> QED
        BY <2>4, <4>1, <4>2 DEF Undisturbed, Joining, Deleting
    <3>6. ASSUME HalfWay(q) PROVE HalfWay(n)'
      <4>1. Members!Listed(q.who) = list[q.who] /\ M = Members!Listed(q.who) \ {q.s} /\ q.who \notin q.todo
        BY <1>2, <2>1, <3>1, <3>6, Documents DEF HalfWay
      <4>2. Bounded(q.who)'
        <5>1. IsFiniteSet(Members!Listed(q.who)) /\ Cardinality(Members!Listed(q.who)) <= MaxSites
          BY <1>2, <3>6 DEF HalfWay, Bounded
        <5>2. IsFiniteSet(M) /\ Cardinality(M) <= Cardinality(Members!Listed(q.who))
          BY <4>1, <5>1, FS_Subset
        <5>3. Cardinality(M) \in Nat /\ Cardinality(Members!Listed(q.who)) \in Nat /\ MaxSites \in Nat
          BY <5>1, <5>2, FS_CardinalityType DEF Members!Assumptions
        <5> QED
          BY <3>3, <5>1, <5>2, <5>3 DEF Bounded
      <4>3. \A v \in Users : v # q.who => Bounded(v)'
        BY <3>3, <3>6, SameBounds DEF HalfWay
      <4>4. \A v \in Users, t \in Sites : t # q.s => Agree(v, t)'
        <5> SUFFICES ASSUME NEW v \in Users, NEW t \in Sites, t # q.s PROVE Agree(v, t)'
          OBVIOUS
        <5>1. t \in Members!Listed(v)' <=> t \in Members!Listed(v)
          BY <3>3, <4>1
        <5> QED
          BY <1>3, <3>6, <5>1 DEF HalfWay, Agree
      <4>5. \A v \in Users : q.s \in Members!Listed(v)' <=> v \in q.todo
        BY <2>1, <3>3, <3>6, <4>1 DEF HalfWay, Deleting
      <4>6. site'[q.s] = q.perms
        BY <1>3, <2>1, <3>6 DEF HalfWay, Deleting
      <4> QED
        BY <2>4, <4>2, <4>3, <4>4, <4>5, <4>6 DEF HalfWay, Joining, Deleting
    <3> QED
      BY <1>1, <2>3, <2>4, <2>5, <3>5, <3>6 DEF Keeps, Onward
  <2>6. CASE Members!Fails(r, n) /\ UNCHANGED list
    <3>1. failed' # 0
      BY <2>6, FailuresCount
    <3>2. Undisturbed(q) => Undisturbed(n)'
      BY <2>1, <2>4, <3>1 DEF Undisturbed, Joining, Deleting
    <3> QED
      BY <1>1, <2>3, <2>4, <2>6, <3>1, <3>2 DEF Keeps, Onward
  <2> QED
    BY <1>1, <1>6, <2>3, <2>5, <2>6 DEF Members!StripMember
<1> QED
  BY <1>4, <1>5, <1>6

-----------------------------------------------------------------------------
(* All of membership.                                                         *)
MemberInv ==
    /\ Members!TypeOK
    /\ \A r \in Requests : join[r].at # "idle" /\ alone[r] => Undisturbed(join[r])
    /\ sober /\ failed = 0 =>
        /\ \A r, p \in Requests : join[r].at # "idle" /\ join[p].at # "idle" => r = p
        /\ \A r \in Requests : join[r].at # "idle" => alone[r] /\ HalfWay(join[r])
        /\ Members!Quiet => Settled

LEMMA MembersStart == ASSUME Members!Assumptions, Members!Init PROVE MemberInv
<1> USE UnderOrIdle
<1>1. Members!TypeOK
  BY DEF Members!Init, Members!TypeOK, Members!Assumptions
<1>2. \A r \in Requests : join[r].at = "idle"
  BY DEF Members!Init
<1>3. Settled
  <2>1. \A v \in Users : Members!Listed(v) = {}
    BY DEF Members!Init, Members!Listed
  <2>2. \A v, t : t \in Sites => ~Members!Permitted(v, t)
    BY DEF Members!Init, Members!Permitted
  <2>3. MaxSites \in Nat /\ IsFiniteSet({}) /\ Cardinality({}) = 0
    BY FS_EmptySet DEF Members!Assumptions
  <2>4. \A v \in Users : Bounded(v)
    BY <2>1, <2>3 DEF Bounded
  <2> QED
    BY <2>1, <2>2, <2>4 DEF Settled, Agree
<1> QED
  BY <1>1, <1>2, <1>3 DEF MemberInv

(* A request that begins, alone, finds both sides in order.                   *)
LEMMA BeginsWell ==
    ASSUME Members!Assumptions, MemberInv, NEW r \in Requests, Members!Begin(r) PROVE MemberInv'
<1> USE UnderOrIdle
<1>1. Members!TypeOK /\ Members!TypeOK'
  BY MemberTypesStep DEF MemberInv, Members!Next
<1>2. PICK k \in {"create", "join", "deleteSite", "deleteUser"}, u \in Users, s \in Sites :
          /\ k \in {"create", "join"} => Members!MayJoin(k, u, s)
          /\ k = "deleteUser" => list[u] = {}
          /\ join' = [join EXCEPT ![r] = Members!Begun(k, u, s)]
  BY BegunSo
<1>3. PICK n \in Under : n = Members!Begun(k, u, s)
  BY BegunFields
<1>4. /\ n.u = u /\ n.s = s /\ (n.new <=> list[u] = Absent)
      /\ n.at = CASE k = "deleteSite" -> "access" [] k = "deleteUser" -> "drop" [] OTHER -> "site"
  BY <1>3, BegunFields
<1>5. n.at \in {"site", "access", "drop"} /\ (n.at = "site" => k \in {"create", "join"}) /\ (n.at = "drop" => k = "deleteUser")
  BY <1>4
<1>6. join'[r] = n /\ \A p \in Requests \ {r} : join'[p] = join[p]
  BY <1>1, <1>2, <1>3 DEF Members!TypeOK
<1>7. /\ UNCHANGED <<site, list, failed>> /\ join[r].at = "idle"
      /\ alone' = [p \in Requests |-> p = r /\ Members!Others(r) = {}]
      /\ sober' = (sober /\ Members!Others(r) = {})
  BY DEF Members!Begin
<1>8. /\ alone'[r] <=> Members!Others(r) = {}
      /\ \A p \in Requests : alone'[p] => p = r
  BY <1>7
<1>9. Undisturbed(n)'
  BY <1>5 DEF Undisturbed, Joining, Deleting
<1>10. \A p \in Requests : join'[p].at # "idle" /\ alone'[p] => Undisturbed(join[p])'
  BY <1>6, <1>8, <1>9 DEF Undisturbed
<1>11. ASSUME sober', failed' = 0 PROVE HalfWay(n)' /\ alone'[r] /\ \A p \in Requests \ {r} : join'[p].at = "idle"
  <2>1. sober /\ failed = 0 /\ Members!Others(r) = {}
    BY <1>7, <1>11
  <2>2. \A p \in Requests : join[p].at = "idle"
    BY <1>7, <2>1 DEF Members!Others
  <2>3. Settled
    BY <2>1, <2>2 DEF MemberInv, Members!Quiet
  <2>4. \A v : Members!Listed(v)' = Members!Listed(v)
    BY <1>7, ListSame
  <2>5. \A v, t : Members!Permitted(v, t)' <=> Members!Permitted(v, t)
    BY <1>7, SiteSame
  <2>6. \A v \in Users : Bounded(v)'
    BY <2>3, <2>4, SameBounds DEF Settled
  <2>7. \A v \in Users, t \in Sites : Agree(v, t)'
    BY <2>3, <2>4, <2>5 DEF Settled, Agree
  <2>8. n.at = "site" => Cardinality(Members!Listed(u) \union {s}) <= MaxSites
    <3> SUFFICES ASSUME n.at = "site" PROVE Cardinality(Members!Listed(u) \union {s}) <= MaxSites
      OBVIOUS
    <3>1. Cardinality(Members!Listed(u)) < MaxSites \/ s \in Members!Listed(u)
      BY <1>2, <1>5, SameCardinality DEF Members!MayJoin
    <3>2. IsFiniteSet(Members!Listed(u)) /\ Cardinality(Members!Listed(u)) <= MaxSites
      BY <2>3 DEF Settled, Bounded
    <3>3. CASE s \in Members!Listed(u)
      <4>1. Members!Listed(u) \union {s} = Members!Listed(u)
        BY <3>3
      <4> QED
        BY <3>2, <4>1
    <3>4. CASE s \notin Members!Listed(u) /\ Cardinality(Members!Listed(u)) < MaxSites
      <4>1. Cardinality(Members!Listed(u) \union {s}) = Cardinality(Members!Listed(u)) + 1
        BY <3>2, <3>4, FS_AddElement
      <4>2. Cardinality(Members!Listed(u)) \in Nat /\ MaxSites \in Nat
        BY <3>2, FS_CardinalityType DEF Members!Assumptions
      <4> QED
        BY <3>4, <4>1, <4>2
    <3> QED
      BY <3>1, <3>3, <3>4
  <2>9. n.at = "drop" => Members!Listed(u)' = {}
    BY <1>2, <1>5, <2>4 DEF Members!Listed
  <2>10. HalfWay(n)'
    BY <1>4, <1>5, <1>7, <2>4, <2>6, <2>7, <2>8, <2>9 DEF HalfWay, Joining, Deleting
  <2> QED
    BY <1>6, <1>8, <2>1, <2>2, <2>10
<1>12. ASSUME sober', failed' = 0, NEW p \in Requests, join'[p].at # "idle" PROVE p = r /\ alone'[p] /\ HalfWay(join[p])'
  <2>1. p = r
    BY <1>11, <1>12
  <2>2. HalfWay(n)' /\ alone'[r]
    BY <1>11, <1>12
  <2> QED
    BY <1>6, <2>1, <2>2 DEF HalfWay
<1>13. ~Members!Quiet'
  BY <1>5, <1>6 DEF Members!Quiet
<1> QED
  BY <1>1, <1>10, <1>12, <1>13 DEF MemberInv

LEMMA StopsAnyhow ==
    ASSUME Members!Assumptions, MemberInv, NEW r \in Requests, Members!Stop(r) PROVE MemberInv'
<1> USE UnderOrIdle
<1>1. Members!TypeOK /\ Members!TypeOK'
  BY MemberTypesStep DEF MemberInv, Members!Next
<1>2. failed' = failed + 1 /\ failed \in Nat /\ UNCHANGED <<site, list>>
  BY <1>1 DEF Members!Stop, Members!TypeOK, Members!Assumptions
<1>3. join'[r].at = "idle" /\ \A p \in Requests \ {r} : join'[p] = join[p] /\ alone'[p] = alone[p]
  BY <1>1 DEF Members!Stop, Members!TypeOK
<1>4. \A v : Members!Listed(v)' = Members!Listed(v)
  BY <1>2, ListSame
<1>5. ASSUME NEW p \in Requests, join'[p].at # "idle", alone'[p] PROVE Undisturbed(join[p])'
  <2>1. join'[p] = join[p] /\ Undisturbed(join[p])
    BY <1>3, <1>5 DEF MemberInv
  <2> QED
    BY <1>2, <1>4, <2>1 DEF Undisturbed
<1> QED
  BY <1>1, <1>2, <1>5 DEF MemberInv

LEMMA GoesOnWell ==
    ASSUME Members!Assumptions, MemberInv, [Members!Next]_Members!vars, NEW r \in Requests, join[r] \in Under,
           \E n \in Members!Reqs : Onward(r, n) /\ Keeps(join[r], n)
    PROVE  MemberInv'
<1> USE UnderOrIdle
<1>1. Members!TypeOK /\ Members!TypeOK'
  BY MemberTypesStep DEF MemberInv
<1>2. PICK n \in Members!Reqs : Onward(r, n) /\ Keeps(join[r], n)
  OBVIOUS
<1>3. /\ sober' = sober /\ join'[r] = n /\ \A p \in Requests \ {r} : join'[p] = join[p]
      /\ \A p \in Requests : alone'[p] => p = r /\ alone[r]
      /\ alone'[r] = alone[r]
      /\ failed' = 0 => failed = 0
  BY <1>1, <1>2, StepOf DEF Onward
<1>4. ASSUME NEW p \in Requests, join'[p].at # "idle", alone'[p] PROVE Undisturbed(join[p])'
  <2>1. p = r /\ alone[r] /\ Undisturbed(join[r]) /\ n.at # "idle"
    BY <1>3, <1>4 DEF MemberInv
  <2>2. Undisturbed(n)'
    BY <1>2, <2>1 DEF Keeps
  <2> QED
    BY <1>3, <2>1, <2>2 DEF Undisturbed
<1>5. ASSUME sober', failed' = 0
      PROVE  /\ \A p \in Requests \ {r} : join'[p].at = "idle"
             /\ alone'[r]
             /\ IF n.at = "idle" THEN Settled' ELSE HalfWay(n)'
  <2>1. sober /\ failed = 0
    BY <1>3, <1>5
  <2>2. alone[r] /\ HalfWay(join[r]) /\ Undisturbed(join[r])
    BY <2>1 DEF MemberInv
  <2>3. \A p \in Requests \ {r} : join[p].at = "idle"
    BY <2>1 DEF MemberInv
  <2> QED
    BY <1>2, <1>3, <1>5, <2>2, <2>3 DEF Keeps
<1>6. ASSUME sober', failed' = 0, NEW p \in Requests, join'[p].at # "idle" PROVE p = r /\ alone'[p] /\ HalfWay(join[p])'
  <2>1. p = r
    BY <1>5, <1>6
  <2>2. alone'[r] /\ HalfWay(n)'
    BY <1>3, <1>5, <1>6, <2>1
  <2> QED
    BY <1>3, <2>1, <2>2 DEF HalfWay
<1>7. ASSUME sober', failed' = 0, Members!Quiet' PROVE Settled'
  BY <1>3, <1>5, <1>7 DEF Members!Quiet
<1> QED
  BY <1>1, <1>4, <1>6, <1>7 DEF MemberInv

LEMMA MembersGoOn ==
    ASSUME Members!Assumptions, MemberInv, [Members!Next]_Members!vars PROVE MemberInv'
<1> USE UnderOrIdle
<1>1. Members!TypeOK
  BY DEF MemberInv
<1>2. CASE UNCHANGED Members!vars
  BY <1>2 DEF Members!vars, MemberInv, Members!TypeOK, Undisturbed, HalfWay, Settled, Bounded, Agree, Joining, Deleting,
     Members!Quiet, Members!Listed, Members!Permitted
<1>3. ASSUME NEW r \in Requests, Members!Begin(r) \/ Members!Stop(r) PROVE MemberInv'
  BY <1>3, BeginsWell, StopsAnyhow
<1>4. ASSUME NEW r \in Requests,
             \/ Members!CreateSite(r) \/ Members!ReadSite(r) \/ Members!CreateUser(r) \/ Members!ReadUser(r)
             \/ Members!WriteList(r) \/ Members!Permit(r) \/ Members!ReadMembers(r) \/ Members!ReadMember(r)
             \/ Members!StripMember(r) \/ Members!DropSite(r) \/ Members!DropUser(r)
      PROVE  MemberInv'
  <2>1. join[r].at # "idle"
    BY <1>4 DEF Members!CreateSite, Members!ReadSite, Members!CreateUser, Members!ReadUser, Members!WriteList,
       Members!Permit, Members!ReadMembers, Members!ReadMember, Members!StripMember, Members!DropSite, Members!DropUser
  <2>2. join[r] \in Under
    BY <1>1, <2>1, UnderHere
  <2>3. \E n \in Members!Reqs : Onward(r, n) /\ Keeps(join[r], n)
    BY <1>1, <1>4, <2>2, KeepsReading, KeepsJoining, KeepsEnding, KeepsDeleting
  <2> QED
    BY <2>2, <2>3, GoesOnWell
<1> QED
  BY <1>2, <1>3, <1>4 DEF Members!Next

(* For any number of requests, users and sites, any limit and any failures:   *)
(* when no two requests overlapped and none failed, a user lists exactly the  *)
(* sites that permit them, and no more than allowed (join.go, users.go,       *)
(* firestore.go).                                                             *)
THEOREM MembersHold == Members!Spec => []MembersInv
<1>1. Members!Init => MemberInv
  BY PartsAssumption, MembersStart
<1>2. MemberInv /\ [Members!Next]_Members!vars => MemberInv'
  BY PartsAssumption, MembersGoOn
<1>3. MemberInv => MembersInv
  <2> SUFFICES ASSUME MemberInv PROVE Members!TypeOK /\ Members!BothSidesAgree
    BY DEF MembersInv, Members!MembersInv
  <2>1. ASSUME Members!Quiet, sober, failed = 0 PROVE Settled
    BY <2>1 DEF MemberInv
  <2> QED
    BY <2>1, SameCardinality DEF MemberInv, Members!BothSidesAgree, Settled, Bounded, Agree
<1> QED
  BY <1>1, <1>2, <1>3, PTL DEF Members!Spec

(* The same of each step, whatever overlapped or failed before: a join that   *)
(* nobody disturbed leaves the user and the site saying so, a deletion that   *)
(* nobody disturbed and in which nothing failed leaves neither side.          *)
THEOREM MembersStepsHold == Members!Spec => MembersSteps
<1>1. Members!Init => MemberInv
  BY PartsAssumption, MembersStart
<1>2. MemberInv /\ [Members!Next]_Members!vars => MemberInv'
  BY PartsAssumption, MembersGoOn
<1>3. ASSUME MemberInv, NEW r \in Requests, join[r].at = "perm", alone[r], Members!Permit(r)
      PROVE  join[r].s \in list'[join[r].u] /\ join[r].u \in site'[join[r].s]
  <2>1. PICK q : q = join[r]
    OBVIOUS
  <2>2. q \in Under /\ Undisturbed(q) /\ q.at = "perm" /\ Members!TypeOK
    BY <1>3, <2>1, UnderHere, UnderOrIdle DEF MemberInv
  <2>3. q.u \in Users /\ q.s \in Sites /\ site[q.s] = q.perms /\ q.s \in Members!Listed(q.u)
    BY <2>2, UnderFields DEF Undisturbed, Joining
  <2>4. q.s \in list'[q.u]
    BY <1>3, <2>3 DEF Members!Permit, Members!Listed
  <2>5. q.u \in site'[q.s]
    BY <1>3, <2>1, <2>2, <2>3 DEF Members!Permit, Members!TypeOK
  <2> QED
    BY <2>1, <2>4, <2>5
<1>4. ASSUME MemberInv, NEW r \in Requests, join[r].at = "each", Members!DropSite(r), alone[r], failed' = 0
      PROVE  site'[join[r].s] = Absent /\ \A v \in join[r].perms : join[r].s \notin Members!Listed(v)
  <2>1. PICK q : q = join[r]
    OBVIOUS
  <2>2. q \in Under /\ Undisturbed(q) /\ q.at = "each" /\ q.todo = {} /\ Members!TypeOK /\ Members!Assumptions
    BY <1>4, <2>1, UnderHere, UnderOrIdle, PartsAssumption DEF MemberInv, Members!DropSite
  <2>3. site' = [site EXCEPT ![q.s] = Absent] /\ failed = 0
    <3>1. \A p : ~Members!Fails(r, p)
      BY <1>4, <2>2, FailuresCount
    <3> QED
      BY <1>4, <2>1, <3>1 DEF Members!DropSite, Members!Goes
  <2>4. q.s \in Sites
    BY <2>2, UnderFields
  <2>5. site'[q.s] = Absent
    BY <2>2, <2>3, <2>4, SiteAfter
  <2>6. \A v \in q.perms : q.s \notin Members!Listed(v)
    BY <2>2, <2>3 DEF Undisturbed, Deleting
  <2> QED
    BY <2>1, <2>5, <2>6
<1>5. MemberInv /\ [Members!Next]_Members!vars =>
        [\A r \in Requests :
            join[r].at = "perm" /\ alone[r] /\ Members!Permit(r) =>
               LET q == join[r] IN q.s \in list'[q.u] /\ q.u \in site'[q.s]]_Members!vars
  BY <1>3
<1>6. MemberInv /\ [Members!Next]_Members!vars =>
        [\A r \in Requests :
            join[r].at = "each" /\ Members!DropSite(r) /\ alone[r] /\ failed' = 0 =>
               LET q == join[r] IN
               site'[q.s] = Absent /\ \A u \in q.perms : q.s \notin Members!Listed(u)]_Members!vars
  BY <1>4
<1> QED
  BY <1>1, <1>2, <1>5, <1>6, PTL DEF Members!Spec, MembersSteps, Members!MembersSteps, Members!JoinRepairs, Members!DeletionIsWhole
=============================================================================
