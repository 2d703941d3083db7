----------------------------- MODULE TeslaModes -----------------------------
(* A Powerwall commanded by updates on any number of server instances. Each   *)
(* instance keeps what it last read of the Powerwall for a minute and holds a *)
(* lock through SetModes (ess/tesla.go), which makes up to four posts in turn *)
(* and returns at the first that fails. When the reserve was posted, a        *)
(* goroutine looks two minutes later whether it took effect, and posts it     *)
(* again if not; the update's handler answers only when it is done            *)
(* (server/update.go). In a sweep the goroutine lives in the site's context,  *)
(* cancelled when the site's update returns and sixty seconds old at most; a  *)
(* manual update has the request's context.                                   *)
EXTENDS TeslaTarget, FiniteSets

CONSTANTS
    Updates, Instances,
    Settings,           \* [gridCharge, exportBat, exportSolar, managed, dry]
    Commands, Level, Owned,     \* the commands, the level, the Powerwall at first
    Sweeps, Manuals,    \* do sweeps, do manual updates run
    Faults,             \* what may go wrong with a post
    SiteDeadline,       \* minutes a site of a sweep may take: 1 in the code
    VerifyDelay,        \* minutes before each look: 2 in the code
    MaxChanges, MaxFaults       \* bounds

(* What the constants are, assumed by what instantiates this module.          *)
Assumptions ==
    /\ Faults \subseteq {"refused", "lost", "ignored", "read", "storm"}
    /\ MaxChanges \in Nat /\ MaxFaults \in Nat /\ SiteDeadline \in Nat /\ VerifyDelay \in Nat

VARIABLES
    wanted,     \* the command that the controller and the users' settings call for
    bat,        \* the Powerwall
    cache,      \* per instance: the Powerwall as last read or posted
    fresh,      \* per instance: is it younger than a minute
    call,       \* per update: its SetModes
    ver,        \* per update: its verification
    changes, faults,
    last,       \* history: did the latest SetModes succeed, and the target it had
    newest      \* history: the reserve last posted by a SetModes

vars == <<wanted, bat, cache, fresh, call, ver, changes, faults, last, newest>>

Idle == [at |-> "idle"]
Calls == {Idle} \union
    [at : {"posting", "ending", "waiting"}, sweep : BOOLEAN, inst : Instances,
     to : [grid : BOOLEAN, rule : Rules, tou : {"own", "s1", "s2"}, mode : Modes, soc : 0..100],
     todo : SUBSET {"grid", "tou", "mode", "soc"}, soc : BOOLEAN]
Verifications == {Idle} \union
    [at : {"sleeping", "looking", "posting"}, expect : 0..100, n : 1..2, dead : BOOLEAN]
Powerwalls ==
    [grid : BOOLEAN, rule : Rules, tou : {"own", "s1", "s2"}, mode : Modes, soc : 0..100]

TypeOK ==
    /\ wanted \in Commands
    /\ bat \in Powerwalls
    /\ cache \in [Instances -> Powerwalls] /\ fresh \in [Instances -> BOOLEAN]
    /\ call \in [Updates -> Calls] /\ ver \in [Updates -> Verifications]
    /\ changes \in 0..MaxChanges /\ faults \in 0..MaxFaults
    /\ last \in [ok : BOOLEAN, to : Powerwalls]
    /\ newest \in 0..100

Init ==
    /\ wanted \in Commands
    /\ bat = Owned
    /\ cache = [i \in Instances |-> Owned] /\ fresh = [i \in Instances |-> FALSE]
    /\ call = [u \in Updates |-> Idle] /\ ver = [u \in Updates |-> Idle]
    /\ changes = 0 /\ faults = 0
    /\ last = [ok |-> FALSE, to |-> Owned] /\ newest = Owned.soc

Fault(kind) == kind \in Faults /\ faults < MaxFaults /\ faults' = faults + 1

(* b.mu of an instance.                                                       *)
Locked(i) == \E u \in Updates : call[u].at = "posting" /\ call[u].inst = i

(* Prices, the plan or the users' settings change.                            *)
Change ==
    /\ changes < MaxChanges
    /\ wanted' \in Commands \ {wanted}
    /\ changes' = changes + 1
    /\ UNCHANGED <<bat, cache, fresh, call, ver, faults, last, newest>>

(* A minute passes: the cache of an instance is read again before use.        *)
Age(i) ==
    /\ fresh[i] /\ fresh' = [fresh EXCEPT ![i] = FALSE]
    /\ UNCHANGED <<wanted, bat, cache, call, ver, changes, faults, last, newest>>

(* getSiteInfoWithCache.                                                      *)
Known(i) == IF fresh[i] THEN cache[i] ELSE bat

(* SetModes up to its first post. A dry run makes none.                       *)
Begin(u) ==
    \E i \in Instances, sweep \in BOOLEAN, odd \in BOOLEAN :
        LET known == Known(i)
            needed == Needed(wanted, Settings, Level, known, odd) IN
        /\ call[u].at = "idle" /\ ~Locked(i)
        /\ IF sweep THEN Sweeps ELSE Manuals
        /\ cache' = [cache EXCEPT ![i] = known] /\ fresh' = [fresh EXCEPT ![i] = TRUE]
        /\ call' = [call EXCEPT ![u] =
              [at |-> "posting", sweep |-> sweep, inst |-> i,
               to |-> Target(wanted, Settings, Level, known),
               todo |-> IF Settings.dry THEN {} ELSE needed,
               soc |-> ~Settings.dry /\ "soc" \in needed]]
        /\ UNCHANGED <<wanted, bat, ver, changes, faults, last, newest>>

(* The Powerwall cannot be read: SetModes makes no post.                      *)
BeginUnread(u) ==
    /\ call[u].at = "idle" /\ \E i \in Instances : ~fresh[i] /\ ~Locked(i)
    /\ Fault("read")
    /\ last' = [last EXCEPT !.ok = FALSE]
    /\ UNCHANGED <<wanted, bat, cache, fresh, call, ver, changes, newest>>

(* In a storm SetModes only sets whether the grid may charge the battery, in  *)
(* one post that it does not remember.                                        *)
Storm(u) ==
    \E i \in Instances :
        /\ call[u].at = "idle" /\ ~Locked(i)
        /\ Fault("storm")
        /\ bat' = IF wanted.bat = "nochange" \/ Settings.dry \/ Known(i).grid = Settings.gridCharge
                  THEN bat ELSE [bat EXCEPT !.grid = Settings.gridCharge, !.rule = Known(i).rule]
        /\ cache' = [cache EXCEPT ![i] = Known(i)] /\ fresh' = [fresh EXCEPT ![i] = TRUE]
        /\ last' = [last EXCEPT !.ok = FALSE]
        /\ UNCHANGED <<wanted, call, ver, changes, newest>>

NextPost(todo) ==
    CHOOSE p \in todo : \A q \in todo :
        \A m, n \in 1..4 : Order[m] = p /\ Order[n] = q => m <= n

(* What an instance remembers of a post that succeeded; a schedule's leaves   *)
(* the age of what was read alone, the others have it read again.             *)
SlipRemembers(i, p, to) == UNCHANGED <<cache, fresh>>
Remembers(i, p, to) ==
    /\ cache' = [cache EXCEPT ![i] = Posted(@, p, to)]
    /\ fresh' = [fresh EXCEPT ![i] = @ /\ p = "tou"]

(* A post fails: SetModes returns, and remembers nothing of it.               *)
SlipFails(u, i, p, to) ==
    call' = [call EXCEPT ![u].todo = @ \ {p}] /\ UNCHANGED <<last, cache, fresh>>
Fails(u, i, p, to) ==
    call' = [call EXCEPT ![u] = Idle] /\ last' = [last EXCEPT !.ok = FALSE] /\ UNCHANGED <<cache, fresh>>

Post(u) ==
    LET q == call[u]
        p == NextPost(q.todo)
        done == Posted(bat, p, q.to) IN
    /\ q.at = "posting" /\ q.todo # {}
    /\ \/ /\ \/ bat' = done /\ UNCHANGED faults
             \/ p = "soc" /\ Fault("ignored") /\ UNCHANGED bat
          /\ Remembers(q.inst, p, q.to)
          /\ call' = [call EXCEPT ![u].todo = @ \ {p}]
          /\ newest' = IF p = "soc" THEN q.to.soc ELSE newest
          /\ UNCHANGED last
       \/ /\ \/ Fault("lost") /\ bat' = done
             \/ Fault("refused") /\ UNCHANGED bat
          /\ Fails(u, q.inst, p, q.to)
          /\ newest' = IF p = "soc" THEN q.to.soc ELSE newest
    /\ UNCHANGED <<wanted, ver, changes>>

(* SetModes returns; the lock is released, the verification begins to wait.   *)
Return(u) ==
    LET q == call[u] IN
    /\ q.at = "posting" /\ q.todo = {} /\ ver[u].at = "idle"
    /\ call' = [call EXCEPT ![u].at = "ending"]
    /\ ver' = IF q.soc
              THEN [ver EXCEPT ![u] = [at |-> "sleeping", expect |-> q.to.soc, n |-> 1, dead |-> FALSE]]
              ELSE ver
    /\ last' = [ok |-> TRUE, to |-> q.to]
    /\ UNCHANGED <<wanted, bat, cache, fresh, changes, faults, newest>>

(* The site's update is logged and returns, which ends a sweep's context.     *)
Finish(u) ==
    /\ call[u].at = "ending"
    /\ call' = [call EXCEPT ![u].at = "waiting"]
    /\ ver' = IF call[u].sweep /\ ver[u].at # "idle" THEN [ver EXCEPT ![u].dead = TRUE] ELSE ver
    /\ UNCHANGED <<wanted, bat, cache, fresh, changes, faults, last, newest>>

(* The handler waits for the verification and answers.                        *)
Answer(u) ==
    /\ call[u].at = "waiting" /\ ver[u].at = "idle"
    /\ call' = [call EXCEPT ![u] = Idle]
    /\ UNCHANGED <<wanted, bat, cache, fresh, ver, changes, faults, last, newest>>

Verifies(u, v) == ver' = [ver EXCEPT ![u] = v]

(* Does the context outlive the wait before a look?                           *)
SlipOutlives(u) == ~ver[u].dead /\ VerifyDelay < SiteDeadline
Outlives(u) == ~ver[u].dead /\ (call[u].sweep => VerifyDelay < SiteDeadline)

Wake(u) ==
    /\ ver[u].at = "sleeping"
    /\ IF Outlives(u) THEN Verifies(u, [ver[u] EXCEPT !.at = "looking"]) ELSE Verifies(u, Idle)
    /\ UNCHANGED <<wanted, bat, cache, fresh, call, changes, faults, last, newest>>

(* verifyBackupReserve reads the Powerwall, under the lock, and lets it go    *)
(* before it decides: all is well, too early to say, or post again. Has the   *)
(* state changed since SetModes read it, does the battery do as expected: the *)
(* house decides.                                                             *)
SlipTooEarly(v) == [v EXCEPT !.at = "sleeping"]
TooEarly(v) == IF v.n = 1 THEN [v EXCEPT !.at = "sleeping", !.n = 2] ELSE Idle

Look(u) ==
    LET v == ver[u]
        i == call[u].inst
        matches == bat.soc - v.expect \in -1..1 IN
    /\ v.at = "looking" /\ ~Locked(i)
    /\ \/ /\ cache' = [cache EXCEPT ![i] = bat] /\ fresh' = [fresh EXCEPT ![i] = TRUE]
          /\ \E changed, behaves \in BOOLEAN :
                Verifies(u, IF v.dead \/ (matches /\ behaves) THEN Idle
                            ELSE IF ~changed /\ ~matches THEN TooEarly(v)
                            ELSE [v EXCEPT !.at = "posting"])
          /\ UNCHANGED faults
       \/ Fault("read") /\ Verifies(u, Idle) /\ UNCHANGED <<cache, fresh>>
    /\ UNCHANGED <<wanted, bat, call, changes, last, newest>>

(* The reserve is posted again, without the lock and without remembering it.  *)
Repost(u) ==
    /\ ver[u].at = "posting"
    /\ \/ bat' = [bat EXCEPT !.soc = ver[u].expect] /\ UNCHANGED faults
       \/ Fault("refused") /\ UNCHANGED bat
    /\ Verifies(u, Idle)
    /\ UNCHANGED <<wanted, cache, fresh, call, changes, last, newest>>

Next ==
    \/ Change
    \/ \E i \in Instances : Age(i)
    \/ \E u \in Updates :
        \/ Begin(u) \/ BeginUnread(u) \/ Storm(u) \/ Post(u) \/ Return(u) \/ Finish(u) \/ Answer(u)
        \/ Wake(u) \/ Look(u) \/ Repost(u)

Spec == Init /\ [][Next]_vars

(* A call goes on, and its verification: the scheduler keeps calling, every   *)
(* call to the vendor is answered or times out, timers fire, a minute passes. *)
Goes(u) == Begin(u) \/ Post(u) \/ Return(u) \/ Finish(u) \/ Answer(u)
GoesOn(u) == Wake(u) \/ Repost(u)

Fairness ==
    /\ \A i \in Instances : WF_vars(Age(i))
    /\ \A u \in Updates : WF_vars(Goes(u)) /\ WF_vars(GoesOn(u)) /\ SF_vars(Look(u))

FairSpec == Spec /\ Fairness

-----------------------------------------------------------------------------
Quiet == \A u \in Updates : call[u].at = "idle" /\ ver[u].at = "idle"

(* SetModes that returned without an error has been obeyed, though a post     *)
(* before it may have failed half way.                                        *)
Obeyed == Quiet /\ last.ok => bat = last.to

(* What an instance takes for current is: the lock, and what each post        *)
(* remembers, keep it so when nobody else commands the Powerwall.             *)
CacheTrue == \A i \in Instances : fresh[i] => cache[i] = bat

(* "updating tesla backup reserve": the reserve at rest is the one last       *)
(* posted by a SetModes, never one that a later SetModes replaced.            *)
NewestReserve == Quiet => bat.soc = newest

(* The handler answers, whatever the verification finds.                      *)
EveryUpdateAnswers == \A u \in Updates : []<>(call[u].at # "waiting")

(* "Wait for any background verification goroutines before writing the HTTP   *)
(* response": a reserve that was posted is looked at before the answer.       *)
NotGivenUp == \A u \in Updates : ver[u].at = "sleeping" => ver'[u].at \in {"sleeping", "looking"}
ReserveIsVerified == [][NotGivenUp]_vars

(* The battery ends in what is wanted last, though posts fail, get lost or    *)
(* are ignored, and instances hold old readings of each other's commands.     *)
Healed == Needed(wanted, Settings, Level, bat, FALSE) = {}
Heals == <>[]Healed
=============================================================================
