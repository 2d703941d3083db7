------------------------------ MODULE Site_proofs ------------------------------
(* A site is swept in time and by one job, for any sites, groups, jobs and    *)
(* numbers of workers; its users are told once of an outage, and of its end   *)
(* after it, for any users; its history is whole, final and without gaps, for *)
(* any days; and what a step of these may not do, none does.                  *)
EXTENDS MCSite, FiniteSetTheorems, WellFoundedInduction, TLAPS

-----------------------------------------------------------------------------
(* What the jobs are, and whose sites they sweep.                             *)
JobRecords == [due : 0..2, on : BOOLEAN, left : SUBSET SweptSites, doing : SUBSET SweptSites]

JobSound(q) ==
    /\ q.left \cap q.doing = {} /\ (q.on \/ q.left \union q.doing = {})
    /\ IsFiniteSet(q.doing) /\ Cardinality(q.doing) <= SweepWorkers

JobsTyped ==
    /\ round \in 0..(SweepRounds - 1) /\ shuffle \in Sweeping!Shuffles
    /\ group \in [SweptSites -> Sweeping!Groups \union {Sweeping!Unset}]
    /\ job \in [Sweeping!Jobs -> JobRecords] /\ \A j \in Sweeping!Jobs : JobSound(job[j])
    /\ moved \subseteq SweptSites
    /\ tried \in [SweptSites -> 0..3] /\ waited \in [SweptSites -> 0..5]

OwnJob(s) == IF group[s] \in TouGroups THEN shuffle[group[s]] ELSE SweepJobs
Own(j) == {s \in SweptSites : group[s] # Sweeping!Unset /\ OwnJob(s) = j}

(* A job runs its own sites, and those that were moved since it listed them.  *)
RunsAreOwn == \A j \in Sweeping!Jobs : job[j].left \union job[j].doing \subseteq Own(j) \union moved

(* The rounds that a site may have waited, by the runs that its job is due: a *)
(* job that was late in the last round is not in this one, unless the hour is *)
(* new and the job another.                                                   *)
Pending(q, s) == q.on /\ s \in q.left
MayWait(due, r) ==
    IF due = 0 THEN 0
    ELSE IF due = 1 THEN (IF r = 0 THEN 2 ELSE 1)
    ELSE IF r = 1 THEN 3 ELSE 2
Waits ==
    \A s \in SweptSites : group[s] # Sweeping!Unset =>
        /\ waited[s] <= 3
        /\ Pending(job[OwnJob(s)], s) \/ waited[s] <= MayWait(job[OwnJob(s)].due, round)

JobsSound == JobsTyped /\ RunsAreOwn /\ (part \in {"onTime", "tardy"} => Waits)

LEMMA JobNumbers == SweepJobs \in Nat \ {0} /\ SweepWorkers \in Nat \ {0} /\ SweepRounds \in Nat \ {0}
BY PartsAssumption DEF Sweeping!Assumptions

LEMMA Cardinalities == \A S : Sweeping!Cardinality(S) = Cardinality(S)
BY DEF Sweeping!Cardinality, Cardinality

LEMMA ShuffleTypes == \A f \in Sweeping!Shuffles : f \in [TouGroups -> 0..(SweepJobs - 1)]
BY DEF Sweeping!Shuffles

LEMMA OwnJobs ==
    ASSUME JobsTyped, NEW s \in SweptSites
    PROVE  OwnJob(s) \in Sweeping!Jobs
<1>1. CASE group[s] \in TouGroups
  <2>1. shuffle[group[s]] \in 0..(SweepJobs - 1)
    BY <1>1, ShuffleTypes DEF JobsTyped
  <2> QED
    BY <1>1, <2>1, JobNumbers DEF OwnJob, Sweeping!Jobs
<1>2. CASE group[s] \notin TouGroups
  BY <1>2, JobNumbers DEF OwnJob, Sweeping!Jobs
<1> QED
  BY <1>1, <1>2

LEMMA ListedAreOwn ==
    ASSUME JobsTyped, NEW j \in Sweeping!Jobs
    PROVE  Sweeping!Listed(j) = Own(j)
<1>1. TouGroups \cap ComEdGroups = {} /\ Sweeping!Unset \notin TouGroups \union ComEdGroups
  BY PartsAssumption DEF Sweeping!Assumptions
<1>2. ASSUME NEW s \in SweptSites
      PROVE  s \in Sweeping!Listed(j) <=> s \in Own(j)
  <2>1. group[s] \in TouGroups \union ComEdGroups \union {Sweeping!Unset}
    BY DEF JobsTyped, Sweeping!Groups
  <2>2. CASE group[s] \in TouGroups
    <3>1. shuffle[group[s]] \in 0..(SweepJobs - 1)
      BY <2>2, ShuffleTypes DEF JobsTyped
    <3>2. shuffle[group[s]] # SweepJobs
      BY <3>1, JobNumbers, SMT
    <3> QED
      BY <3>2, <2>2, <1>1 DEF Sweeping!Listed, Own, OwnJob
  <2>3. CASE group[s] \notin TouGroups
    BY <2>1, <2>3, <1>1 DEF Sweeping!Listed, Own, OwnJob
  <2> QED
    BY <2>2, <2>3
<1> QED
  BY <1>2 DEF Sweeping!Listed, Own

(* One job changes: what it runs is still its own.                            *)
LEMMA OneJobChanges ==
    ASSUME JobsTyped, RunsAreOwn, NEW j \in Sweeping!Jobs, NEW q \in JobRecords, JobSound(q),
           q.left \union q.doing \subseteq Own(j) \union moved,
           job' = [job EXCEPT ![j] = q],
           round' = round, shuffle' = shuffle, group' = group, moved' = moved,
           tried' \in [SweptSites -> 0..3], waited' \in [SweptSites -> 0..5]
    PROVE  JobsTyped' /\ RunsAreOwn'
<1>1. \A i \in Sweeping!Jobs : job'[i] = IF i = j THEN q ELSE job[i]
  BY DEF JobsTyped
<1>2. job' \in [Sweeping!Jobs -> JobRecords] /\ \A i \in Sweeping!Jobs : JobSound(job'[i])
  BY <1>1 DEF JobsTyped
<1>3. \A i \in Sweeping!Jobs : Own(i)' = Own(i)
  BY DEF Own, OwnJob
<1>4. JobsTyped'
  BY <1>2 DEF JobsTyped, JobSound
<1>5. RunsAreOwn'
  BY <1>1, <1>3 DEF RunsAreOwn
<1> QED
  BY <1>4, <1>5

(* The same of how long its sites wait: each was taken, is listed, or was not *)
(* listed and its job as due as before.                                       *)
LEMMA OneJobWaits ==
    ASSUME JobsTyped, Waits, NEW j \in Sweeping!Jobs, NEW q \in JobRecords,
           job' = [job EXCEPT ![j] = q],
           round' = round, shuffle' = shuffle, group' = group, waited' \in [SweptSites -> 0..5],
           \A s \in SweptSites :
              waited'[s] = 0 \/
                /\ waited'[s] = waited[s]
                /\ s \in Own(j) => Pending(q, s) \/ (~Pending(job[j], s) /\ q.due = job[j].due)
    PROVE  Waits'
<1>1. \A i \in Sweeping!Jobs : job'[i] = IF i = j THEN q ELSE job[i]
  BY DEF JobsTyped
<1>2. SUFFICES ASSUME NEW s \in SweptSites, group[s] # Sweeping!Unset
               PROVE  /\ waited'[s] <= 3
                      /\ \/ Pending(job'[OwnJob(s)], s)
                         \/ waited'[s] <= MayWait(job'[OwnJob(s)].due, round)
  BY DEF Waits, OwnJob, Pending, MayWait
<1>3. OwnJob(s) \in Sweeping!Jobs
  BY OwnJobs
<1>4. job'[OwnJob(s)].due \in 0..2 /\ round \in Nat
  BY <1>1, <1>3 DEF JobsTyped, JobRecords
<1>5. CASE waited'[s] = 0
  BY <1>5, <1>4, SMT DEF MayWait
<1>6. CASE waited'[s] # 0
  <2>1. /\ waited'[s] = waited[s] /\ waited[s] <= 3
        /\ Pending(job[OwnJob(s)], s) \/ waited[s] <= MayWait(job[OwnJob(s)].due, round)
    BY <1>2, <1>6 DEF Waits
  <2>2. CASE OwnJob(s) = j
    <3>1. s \in Own(j)
      BY <1>2, <2>2 DEF Own
    <3>2. Pending(q, s) \/ (~Pending(job[j], s) /\ q.due = job[j].due)
      BY <1>6, <3>1
    <3> QED
      BY <1>1, <2>1, <2>2, <3>2
  <2>3. CASE OwnJob(s) # j
    BY <1>1, <1>3, <2>1, <2>3
  <2> QED
    BY <2>2, <2>3
<1> QED
  BY <1>5, <1>6

LEMMA CutsPreserve ==
    ASSUME JobsTyped, RunsAreOwn, NEW j \in Sweeping!Jobs, Sweeping!Cut(j)
    PROVE  JobsTyped' /\ RunsAreOwn'
<1> DEFINE q == [job[j] EXCEPT !.left = {}]
<1>1. job[j] \in JobRecords /\ JobSound(job[j]) /\ job[j].left \union job[j].doing \subseteq Own(j) \union moved
  BY DEF JobsTyped, RunsAreOwn
<1>2. /\ q \in JobRecords /\ q.left = {} /\ q.doing = job[j].doing /\ q.on = job[j].on
      /\ job' = [job EXCEPT ![j] = q]
  BY <1>1 DEF JobRecords, Sweeping!Cut, JobsTyped
<1> HIDE DEF q
<1>3. JobSound(q) /\ q.left \union q.doing \subseteq Own(j) \union moved
  BY <1>1, <1>2 DEF JobSound
<1>4. /\ round' = round /\ shuffle' = shuffle /\ group' = group /\ moved' = moved
      /\ tried' = tried /\ waited' = waited
  BY DEF Sweeping!Cut
<1> QED
  BY <1>2, <1>3, <1>4, OneJobChanges DEF JobsTyped

LEMMA StartsPreserve ==
    ASSUME JobsTyped, RunsAreOwn, NEW j \in Sweeping!Jobs, Sweeping!Start(j)
    PROVE  JobsTyped' /\ RunsAreOwn' /\ (Waits => Waits')
<1> DEFINE q == [due |-> job[j].due - 1, on |-> TRUE, left |-> Sweeping!Listed(j), doing |-> {}]
<1>1. Sweeping!Listed(j) = Own(j) /\ Own(j) \subseteq SweptSites
  BY ListedAreOwn DEF Own
<1>2. job[j].due \in 0..2 /\ job[j].due > 0
  BY DEF JobsTyped, JobRecords, Sweeping!Start
<1>3. q.on /\ q.left = Own(j) /\ q.doing = {} /\ job' = [job EXCEPT ![j] = q]
  BY <1>1 DEF Sweeping!Start, JobsTyped
<1>4. q \in JobRecords
  BY <1>1, <1>2 DEF JobRecords
<1> HIDE DEF q
<1>5. JobSound(q) /\ q.left \union q.doing \subseteq Own(j) \union moved
  <2>1. IsFiniteSet({}) /\ Cardinality({}) = 0
    BY FS_EmptySet
  <2> QED
    BY <1>3, <2>1, JobNumbers DEF JobSound
<1>6. /\ round' = round /\ shuffle' = shuffle /\ group' = group /\ moved' = moved
      /\ tried' = tried /\ waited' = waited
  BY DEF Sweeping!Start
<1>7. JobsTyped' /\ RunsAreOwn'
  BY <1>3, <1>4, <1>5, <1>6, OneJobChanges DEF JobsTyped
<1>8. \A s \in Own(j) : Pending(q, s)
  BY <1>3 DEF Pending
<1>9. ASSUME Waits PROVE Waits'
  BY <1>3, <1>4, <1>6, <1>8, <1>9, OneJobWaits DEF JobsTyped
<1> QED
  BY <1>7, <1>9

LEMMA TakesPreserve ==
    ASSUME JobsTyped, RunsAreOwn, NEW j \in Sweeping!Jobs, NEW s \in SweptSites, Sweeping!Take(j, s)
    PROVE  JobsTyped' /\ RunsAreOwn' /\ (Waits => Waits')
<1> DEFINE q == [job[j] EXCEPT !.left = job[j].left \ {s}, !.doing = job[j].doing \union {s}]
<1>1. job[j] \in JobRecords /\ JobSound(job[j]) /\ job[j].left \union job[j].doing \subseteq Own(j) \union moved
  BY DEF JobsTyped, RunsAreOwn
<1>2. s \in job[j].left /\ Cardinality(job[j].doing) < SweepWorkers
  BY Cardinalities DEF Sweeping!Take, Sweeping!MayTake
<1>3. job' = [job EXCEPT ![j] = q]
  BY DEF Sweeping!Take, JobsTyped, JobRecords
<1>4. /\ q \in JobRecords /\ q.on = job[j].on /\ q.due = job[j].due
      /\ q.left = job[j].left \ {s} /\ q.doing = job[j].doing \union {s}
  BY <1>1 DEF JobRecords
<1> HIDE DEF q
<1>5. q.left \cap q.doing = {} /\ q.on /\ q.left \union q.doing \subseteq Own(j) \union moved
  BY <1>1, <1>2, <1>4 DEF JobSound
<1>6. IsFiniteSet(q.doing) /\ Cardinality(q.doing) = Cardinality(job[j].doing) + 1
  <2> DEFINE doing == job[j].doing
  <2>1. s \notin doing /\ IsFiniteSet(doing) /\ q.doing = doing \union {s}
    BY <1>1, <1>2, <1>4 DEF JobSound
  <2> HIDE DEF doing
  <2>2. IsFiniteSet(doing \union {s}) /\ Cardinality(doing \union {s}) = Cardinality(doing) + 1
    BY <2>1, FS_AddElement
  <2> QED
    BY <2>1, <2>2 DEF doing
<1>7. JobSound(q)
  <2>1. Cardinality(job[j].doing) \in Nat
    BY <1>1, FS_CardinalityType DEF JobSound
  <2>2. Cardinality(q.doing) <= SweepWorkers
    BY <1>2, <1>6, <2>1, JobNumbers, SMT
  <2> QED
    BY <1>5, <1>6, <2>2 DEF JobSound
<1>8. round' = round /\ shuffle' = shuffle /\ group' = group /\ moved' = moved
  BY DEF Sweeping!Take
<1>9. tried' \in [SweptSites -> 0..3] /\ waited' = [waited EXCEPT ![s] = 0]
  BY DEF Sweeping!Take, JobsTyped
<1>10. waited' \in [SweptSites -> 0..5] /\ \A t \in SweptSites : waited'[t] = IF t = s THEN 0 ELSE waited[t]
  BY <1>9 DEF JobsTyped
<1>11. JobsTyped' /\ RunsAreOwn'
  BY <1>3, <1>4, <1>5, <1>7, <1>8, <1>9, <1>10, OneJobChanges
<1>12. ASSUME Waits PROVE Waits'
  <2>1. \A t \in SweptSites : t # s => (Pending(q, t) <=> Pending(job[j], t))
    BY <1>4 DEF Pending
  <2>2. \A t \in SweptSites :
          waited'[t] = 0 \/
            /\ waited'[t] = waited[t]
            /\ t \in Own(j) => Pending(q, t) \/ (~Pending(job[j], t) /\ q.due = job[j].due)
    BY <1>4, <1>10, <2>1
  <2> QED
    BY <1>3, <1>4, <1>8, <1>10, <1>12, <2>2, OneJobWaits
<1> QED
  BY <1>11, <1>12

LEMMA EndsPreserve ==
    ASSUME JobsTyped, RunsAreOwn, NEW j \in Sweeping!Jobs, NEW s \in SweptSites, Sweeping!End(j, s)
    PROVE  JobsTyped' /\ RunsAreOwn' /\ (Waits => Waits')
<1> DEFINE q == [job[j] EXCEPT !.doing = job[j].doing \ {s}]
<1>1. job[j] \in JobRecords /\ JobSound(job[j]) /\ job[j].left \union job[j].doing \subseteq Own(j) \union moved
  BY DEF JobsTyped, RunsAreOwn
<1>2. s \in job[j].doing /\ job' = [job EXCEPT ![j] = q]
  BY DEF Sweeping!End, JobsTyped, JobRecords
<1>3. /\ q \in JobRecords /\ q.on = job[j].on /\ q.due = job[j].due
      /\ q.left = job[j].left /\ q.doing = job[j].doing \ {s}
  BY <1>1 DEF JobRecords
<1> HIDE DEF q
<1>4. JobSound(q) /\ q.left \union q.doing \subseteq Own(j) \union moved
  <2>1. IsFiniteSet(job[j].doing) /\ Cardinality(job[j].doing) <= SweepWorkers
    BY <1>1 DEF JobSound
  <2>2. IsFiniteSet(q.doing) /\ Cardinality(q.doing) = Cardinality(job[j].doing) - 1
    BY <1>2, <1>3, <2>1, FS_RemoveElement
  <2>3. Cardinality(job[j].doing) \in Nat
    BY <2>1, FS_CardinalityType
  <2>4. Cardinality(q.doing) <= SweepWorkers
    BY <2>1, <2>2, <2>3, JobNumbers, SMT
  <2> QED
    BY <1>1, <1>2, <1>3, <2>2, <2>4 DEF JobSound
<1>5. /\ round' = round /\ shuffle' = shuffle /\ group' = group /\ moved' = moved
      /\ tried' = tried /\ waited' = waited
  BY DEF Sweeping!End
<1>6. JobsTyped' /\ RunsAreOwn'
  BY <1>2, <1>3, <1>4, <1>5, OneJobChanges DEF JobsTyped
<1>7. \A t \in SweptSites : Pending(q, t) <=> Pending(job[j], t)
  BY <1>3 DEF Pending
<1>8. ASSUME Waits PROVE Waits'
  BY <1>2, <1>3, <1>5, <1>7, <1>8, OneJobWaits DEF JobsTyped
<1> QED
  BY <1>6, <1>8

LEMMA FinishesPreserve ==
    ASSUME JobsTyped, RunsAreOwn, NEW j \in Sweeping!Jobs, Sweeping!Finish(j)
    PROVE  JobsTyped' /\ RunsAreOwn' /\ (Waits => Waits')
<1> DEFINE q == [job[j] EXCEPT !.on = FALSE]
<1>1. job[j] \in JobRecords /\ JobSound(job[j])
  BY DEF JobsTyped
<1>2. job[j].left = {} /\ job[j].doing = {} /\ job' = [job EXCEPT ![j] = q]
  BY DEF Sweeping!Finish, JobsTyped, JobRecords
<1>3. q \in JobRecords /\ q.due = job[j].due /\ q.left = {} /\ q.doing = {}
  BY <1>1, <1>2 DEF JobRecords
<1> HIDE DEF q
<1>4. JobSound(q) /\ q.left \union q.doing \subseteq Own(j) \union moved
  BY <1>1, <1>2, <1>3 DEF JobSound
<1>5. /\ round' = round /\ shuffle' = shuffle /\ group' = group /\ moved' = moved
      /\ tried' = tried /\ waited' = waited
  BY DEF Sweeping!Finish
<1>6. JobsTyped' /\ RunsAreOwn'
  BY <1>2, <1>3, <1>4, <1>5, OneJobChanges DEF JobsTyped
<1>7. \A t \in SweptSites : ~Pending(job[j], t)
  BY <1>2 DEF Pending
<1>8. ASSUME Waits PROVE Waits'
  BY <1>2, <1>3, <1>5, <1>7, <1>8, OneJobWaits DEF JobsTyped
<1> QED
  BY <1>6, <1>8

(* A site that moves is another job's, or had none: the one that listed it    *)
(* may still update it.                                                       *)
LEMMA MovesPreserve ==
    ASSUME JobsTyped, RunsAreOwn, NEW s \in SweptSites, Sweeping!Move(s)
    PROVE  JobsTyped' /\ RunsAreOwn' /\ group' # group
<1>1. PICK g \in Sweeping!Groups :
        /\ (g \in TouGroups) # (group[s] \in TouGroups) \/ group[s] = Sweeping!Unset
        /\ group' = [group EXCEPT ![s] = g]
  BY DEF Sweeping!Move
<1>2. Sweeping!Unset \notin Sweeping!Groups
  BY PartsAssumption DEF Sweeping!Assumptions, Sweeping!Groups
<1>3. \A t \in SweptSites : group'[t] = IF t = s THEN g ELSE group[t]
  BY <1>1 DEF JobsTyped
<1>4. /\ round' = round /\ shuffle' = shuffle /\ job' = job /\ moved' = moved \union {s}
      /\ tried' = tried /\ waited' = waited
  BY DEF Sweeping!Move
<1>5. JobsTyped'
  <2>1. group' \in [SweptSites -> Sweeping!Groups \union {Sweeping!Unset}]
    BY <1>1 DEF JobsTyped
  <2> QED
    BY <1>4, <2>1 DEF JobsTyped
<1>6. RunsAreOwn'
  <2>1. ASSUME NEW j \in Sweeping!Jobs
        PROVE  Own(j) \subseteq Own(j)' \union {s}
    BY <1>3, <1>4 DEF Own, OwnJob
  <2> QED
    BY <1>4, <2>1 DEF RunsAreOwn
<1>7. group' # group
  <2>1. g # group[s]
    BY <1>1, <1>2
  <2> QED
    BY <1>3, <2>1
<1> QED
  BY <1>5, <1>6, <1>7

(* Another round: every job is due once more, in an hour that may be new.     *)
LEMMA HoursTurn ==
    ASSUME NEW n \in Nat, NEW r \in 0..(n - 1), n >= 3
    PROVE  (r + 1) % n = IF r = n - 1 THEN 0 ELSE r + 1
<1>1. CASE r = n - 1
  BY <1>1, Z3
<1>2. CASE r # n - 1
  <2>1. r + 1 \in 0..(n - 1)
    BY <1>2
  <2> QED
    BY <2>1, <1>2, Z3
<1> QED
  BY <1>1, <1>2

LEMMA RoundsPreserve ==
    ASSUME JobsTyped, RunsAreOwn, Sweeping!NextRound
    PROVE  JobsTyped' /\ RunsAreOwn' /\ (Waits => Waits')
<1>1. \A j \in Sweeping!Jobs : ~job[j].on /\ job[j].due \in {0, 1} /\ job[j].left = {} /\ job[j].doing = {}
  <2>1. \A j \in Sweeping!Jobs : ~job[j].on /\ (job[j].due > 0 => job[j].due = 1)
    BY DEF Sweeping!NextRound
  <2>2. \A j \in Sweeping!Jobs : job[j] \in JobRecords /\ JobSound(job[j])
    BY DEF JobsTyped
  <2> QED
    BY <2>1, <2>2 DEF JobRecords, JobSound
<1>2. /\ round' = (round + 1) % SweepRounds /\ round \in 0..(SweepRounds - 1)
      /\ IF round' = 0 THEN shuffle' \in Sweeping!Shuffles ELSE shuffle' = shuffle
      /\ job' = [j \in Sweeping!Jobs |-> [job[j] EXCEPT !.due = job[j].due + 1]]
      /\ moved' = {} /\ tried' = [s \in SweptSites |-> 0] /\ group' = group
      /\ waited' = [s \in SweptSites |->
                      IF group[s] = Sweeping!Unset THEN 0
                      ELSE IF waited[s] < 5 THEN waited[s] + 1 ELSE 5]
  BY DEF Sweeping!NextRound, JobsTyped
<1>3. round' = IF round = SweepRounds - 1 THEN 0 ELSE round + 1
  BY <1>2, JobsAssumption, HoursTurn
<1>4. round' \in 0..(SweepRounds - 1)
  BY <1>2, <1>3, JobsAssumption
<1>5. ASSUME NEW j \in Sweeping!Jobs
      PROVE  /\ job'[j] \in JobRecords /\ job'[j].due = job[j].due + 1 /\ ~job'[j].on
             /\ job'[j].left = {} /\ job'[j].doing = {}
  <2> DEFINE q == [job[j] EXCEPT !.due = job[j].due + 1]
  <2>1. job'[j] = q /\ job[j] \in JobRecords
    BY <1>2 DEF JobsTyped
  <2>2. q \in JobRecords /\ q.due = job[j].due + 1 /\ q.on = job[j].on /\ q.left = job[j].left /\ q.doing = job[j].doing
    BY <1>1, <2>1 DEF JobRecords
  <2> QED
    BY <1>1, <2>1, <2>2
<1>6. JobsTyped'
  <2>1. shuffle' \in Sweeping!Shuffles
    BY <1>2 DEF JobsTyped
  <2>2. job' \in [Sweeping!Jobs -> JobRecords]
    BY <1>2, <1>5
  <2>3. \A j \in Sweeping!Jobs : JobSound(job'[j])
    <3>1. IsFiniteSet({}) /\ Cardinality({}) = 0
      BY FS_EmptySet
    <3>2. \A j \in Sweeping!Jobs : job'[j].left = {} /\ job'[j].doing = {}
      BY <1>5
    <3>3. 0 <= SweepWorkers
      BY JobNumbers
    <3> QED
      BY <3>1, <3>2, <3>3 DEF JobSound
  <2>4. tried' \in [SweptSites -> 0..3]
    BY <1>2
  <2>5. waited' \in [SweptSites -> 0..5]
    BY <1>2 DEF JobsTyped
  <2>6. group' = group /\ moved' = {}
    BY <1>2
  <2> QED
    BY <1>4, <2>1, <2>2, <2>3, <2>4, <2>5, <2>6 DEF JobsTyped, JobSound
<1>7. RunsAreOwn'
  BY <1>5 DEF RunsAreOwn
<1>8. ASSUME Waits PROVE Waits'
  <2> SUFFICES ASSUME NEW s \in SweptSites, group[s] # Sweeping!Unset
               PROVE  waited'[s] <= 3 /\ waited'[s] <= MayWait(job'[OwnJob(s)'].due, round')
    BY <1>2 DEF Waits
  <2> DEFINE old == job[OwnJob(s)].due
             new == job'[OwnJob(s)'].due
  <2>1. OwnJob(s) \in Sweeping!Jobs /\ OwnJob(s)' \in Sweeping!Jobs
    <3>1. ASSUME JobsTyped' PROVE OwnJob(s)' \in Sweeping!Jobs
      BY <3>1, OwnJobs, ShuffleTypes, JobNumbers DEF JobsTyped, OwnJob, Sweeping!Jobs
    <3> QED
      BY <1>6, <3>1, OwnJobs
  <2>2. old \in {0, 1} /\ new \in {1, 2}
    BY <1>1, <1>5, <2>1
  <2>3. waited[s] <= MayWait(old, round)
    BY <1>1, <1>8, <2>1 DEF Waits, Pending
  <2>4. round' # 0 => new = old + 1
    <3>1. ASSUME round' # 0 PROVE OwnJob(s)' = OwnJob(s)
      BY <1>2, <3>1 DEF OwnJob
    <3> QED
      BY <1>5, <2>1, <3>1
  <2>5. waited[s] \in 0..5 /\ waited'[s] = IF waited[s] < 5 THEN waited[s] + 1 ELSE 5
    BY <1>2 DEF JobsTyped
  <2> HIDE DEF old, new
  <2>6. ASSUME round' = 0
        PROVE  waited'[s] <= 3 /\ waited'[s] <= MayWait(new, round')
    <3>1. round # 0 /\ round # 1
      BY <1>2, <1>3, <2>6, JobsAssumption, SMT
    <3> QED
      BY <3>1, <2>2, <2>3, <2>5, <2>6, SMT DEF MayWait
  <2>7. ASSUME round' # 0
        PROVE  waited'[s] <= 3 /\ waited'[s] <= MayWait(new, round')
    <3>1. round' = round + 1 /\ new = old + 1 /\ round \in Nat
      BY <1>2, <1>3, <2>4, <2>7, JobsAssumption, SMT
    <3> QED
      BY <3>1, <2>2, <2>3, <2>5, <2>7, SMT DEF MayWait
  <2>8. waited'[s] <= 3 /\ waited'[s] <= MayWait(new, round')
    BY <2>6, <2>7
  <2> QED
    BY <2>8 DEF new
<1> QED
  BY <1>6, <1>7, <1>8

(* In the other parts nothing sweeps.                                         *)
LEMMA RestingJobs ==
    ASSUME JobsTyped, RunsAreOwn, UNCHANGED jobs
    PROVE  JobsTyped' /\ RunsAreOwn' /\ (Waits => Waits')
<1>1. /\ round' = round /\ shuffle' = shuffle /\ group' = group /\ job' = job /\ moved' = moved
      /\ tried' = tried /\ waited' = waited
  BY DEF jobs
<1> QED
  BY <1>1 DEF JobsTyped, RunsAreOwn, Waits, Own, OwnJob

LEMMA JobsStart == PartsInit => JobsSound
<1> SUFFICES ASSUME PartsInit PROVE JobsSound
  OBVIOUS
<1>1. /\ round = 0 /\ shuffle \in Sweeping!Shuffles
      /\ group \in [SweptSites -> Sweeping!Groups \union {Sweeping!Unset}]
      /\ job = [j \in Sweeping!Jobs |-> [Sweeping!Resting EXCEPT !.due = 1]]
      /\ moved = {} /\ tried = [s \in SweptSites |-> 0] /\ waited = [s \in SweptSites |-> 0]
  BY DEF PartsInit, Sweeping!Init
<1> DEFINE q == [Sweeping!Resting EXCEPT !.due = 1]
<1>2. q \in JobRecords /\ q.left = {} /\ q.doing = {} /\ q.due = 1 /\ q.on = FALSE
  <2> DEFINE r == Sweeping!Resting
  <2>1. r \in JobRecords /\ r.left = {} /\ r.doing = {} /\ r.on = FALSE
    BY DEF Sweeping!Resting, JobRecords
  <2>2. q = [r EXCEPT !.due = 1]
    OBVIOUS
  <2> HIDE DEF r, q
  <2> QED
    BY <2>1, <2>2 DEF JobRecords
<1>3. \A j \in Sweeping!Jobs : job[j] = q
  BY <1>1
<1> HIDE DEF q
<1>4. JobsTyped
  <2>1. JobSound(q)
    <3>1. IsFiniteSet({}) /\ Cardinality({}) = 0
      BY FS_EmptySet
    <3> QED
      BY <1>2, <3>1, JobNumbers DEF JobSound
  <2>2. 0 \in 0..(SweepRounds - 1)
    BY JobNumbers
  <2>3. job \in [Sweeping!Jobs -> JobRecords] /\ \A j \in Sweeping!Jobs : JobSound(job[j])
    BY <1>1, <1>2, <1>3, <2>1
  <2> QED
    BY <1>1, <2>2, <2>3 DEF JobsTyped
<1>5. RunsAreOwn
  BY <1>2, <1>3 DEF RunsAreOwn
<1>6. Waits
  <2>1. \A s \in SweptSites : OwnJob(s) \in Sweeping!Jobs
    BY <1>4, OwnJobs
  <2>2. \A s \in SweptSites : waited[s] = 0 /\ job[OwnJob(s)].due = 1
    BY <1>1, <1>2, <1>3, <2>1
  <2>3. MayWait(1, round) = 2
    BY <1>1 DEF MayWait
  <2> QED
    BY <2>2, <2>3 DEF Waits
<1> QED
  BY <1>4, <1>5, <1>6 DEF JobsSound

LEMMA SweepsPreserve ==
    ASSUME JobsTyped, RunsAreOwn, Sweeping!Next
    PROVE  /\ JobsTyped' /\ RunsAreOwn'
           /\ (Waits /\ Undisturbed => Waits')
<1>1. CASE Sweeping!NextRound
  BY <1>1, RoundsPreserve
<1>2. ASSUME NEW j \in Sweeping!Jobs, Sweeping!Start(j) \/ Sweeping!Finish(j)
      PROVE  JobsTyped' /\ RunsAreOwn' /\ (Waits => Waits')
  BY <1>2, StartsPreserve, FinishesPreserve
<1>3. ASSUME NEW j \in Sweeping!Jobs, Sweeping!Cut(j)
      PROVE  JobsTyped' /\ RunsAreOwn' /\ ~Undisturbed
  <2>1. ~Undisturbed
    BY <1>3 DEF Undisturbed
  <2> QED
    BY <1>3, <2>1, CutsPreserve
<1>4. ASSUME NEW j \in Sweeping!Jobs, NEW s \in SweptSites, Sweeping!Take(j, s) \/ Sweeping!End(j, s)
      PROVE  JobsTyped' /\ RunsAreOwn' /\ (Waits => Waits')
  BY <1>4, TakesPreserve, EndsPreserve
<1>5. ASSUME NEW s \in SweptSites, Sweeping!Move(s)
      PROVE  JobsTyped' /\ RunsAreOwn' /\ ~Undisturbed
  BY <1>5, MovesPreserve DEF Undisturbed
<1> QED
  BY <1>1, <1>2, <1>3, <1>4, <1>5 DEF Sweeping!Next

LEMMA JobsStep == JobsSound /\ [PartsNext]_vars => JobsSound'
<1> SUFFICES ASSUME JobsTyped, RunsAreOwn, part \in {"onTime", "tardy"} => Waits, [PartsNext]_vars
             PROVE  JobsTyped' /\ RunsAreOwn' /\ (part' \in {"onTime", "tardy"} => Waits')
  BY DEF JobsSound
<1>1. CASE part' = part /\ UNCHANGED jobs
  BY <1>1, RestingJobs
<1>2. CASE part \in {"onTime", "tardy"} /\ ForJobs(Sweeping!Next) /\ Undisturbed
  BY <1>2, SweepsPreserve DEF ForJobs
<1>3. CASE part = "moving" /\ ForJobs(Sweeping!Next)
  BY <1>3, SweepsPreserve DEF ForJobs
<1>4. CASE UNCHANGED vars
  BY <1>4, <1>1 DEF vars
<1>5. CASE PartsNext
  BY <1>5, <1>1, <1>2, <1>3 DEF PartsNext, ForUpdates, ForHistory, ForAlerts, ForDocument
<1> QED
  BY <1>4, <1>5

LEMMA JobsHold == JobsSound => JobsInv
<1> SUFFICES ASSUME JobsTyped, RunsAreOwn, part \in {"onTime", "tardy"} => Waits
             PROVE  JobsInv
  BY DEF JobsSound
<1>1. Sweeping!TypeOK
  <2>1. ASSUME NEW j \in Sweeping!Jobs
        PROVE  /\ job[j].due \in 0..2 /\ job[j].on \in BOOLEAN
               /\ job[j].left \union job[j].doing \subseteq SweptSites
               /\ job[j].left \cap job[j].doing = {}
               /\ Sweeping!Cardinality(job[j].doing) <= SweepWorkers
               /\ job[j].on \/ job[j].left \union job[j].doing = {}
    <3>1. job[j] \in JobRecords /\ JobSound(job[j])
      BY DEF JobsTyped
    <3>2. Sweeping!Cardinality(job[j].doing) = Cardinality(job[j].doing)
      BY Cardinalities
    <3> QED
      BY <3>1, <3>2 DEF JobRecords, JobSound
  <2> QED
    BY <2>1 DEF JobsTyped, Sweeping!TypeOK
<1>2. NoSiteInTwoRuns
  <2>1. ASSUME NEW i \in Sweeping!Jobs, NEW j \in Sweeping!Jobs, i # j
        PROVE  job[i].doing \cap job[j].doing \subseteq moved
    <3>1. Own(i) \cap Own(j) = {}
      BY <2>1 DEF Own
    <3> QED
      BY <3>1 DEF RunsAreOwn
  <2> QED
    BY <2>1 DEF NoSiteInTwoRuns, Sweeping!NoSiteInTwoRuns
<1>3. NoSiteWaitsAnHour
  <2>1. ASSUME Waits, NEW s \in SweptSites, group[s] # Sweeping!Unset
        PROVE  waited[s] <= SweepRounds
    BY <2>1, JobsAssumption DEF Waits, JobsTyped
  <2> QED
    BY <2>1 DEF NoSiteWaitsAnHour, Sweeping!NoSiteWaitsAnHour
<1> QED
  BY <1>1, <1>2, <1>3 DEF JobsInv

(* A site waits for no more than three rounds, an hour where it has no more,  *)
(* though jobs run a round late and the hour is shuffled anew; and no two jobs*)
(* update a site at once unless it was moved between their groups, though jobs*)
(* are cut short (server/update.go, handleUpdateSites).                         *)
THEOREM SitesAreSwept == PartsSpec => []JobsInv
<1>1. PartsSpec => []JobsSound
  BY JobsStart, JobsStep, PTL DEF PartsSpec
<1> QED
  BY <1>1, JobsHold, PTL

-----------------------------------------------------------------------------
(* What the updates are at, and whom they are about to tell of what.          *)
Events == [type : {"outage", "restored"}, muted : BOOLEAN, episode : Nat]
Read == [at : {"read"}, sweep : BOOLEAN, down : BOOLEAN]
Waiting == [at : {"waiting"}, sweep : BOOLEAN, left : 0..AlertDelay,
            send : SUBSET AlertUsers, mute : SUBSET AlertUsers]
Telling == [at : {"alerting"}, sweep : BOOLEAN, type : {"outage", "restored"},
            sent : SUBSET Alerting!InFlight, send : SUBSET AlertUsers, mute : SUBSET AlertUsers]

AlertSound(g) ==
    \/ g = Alerting!Idle
    \/ g \in Read
    \/ g \in Waiting /\ g.send \cap g.mute = {}
    \/ /\ g \in Telling /\ g.send \cap g.mute = {}
       /\ \A f, h \in g.sent : f = h

SentOf(g) == IF g.at = "alerting" THEN g.sent ELSE {}
Alertees(g) ==
    IF g.at = "waiting" THEN g.send \union g.mute
    ELSE IF g.at = "alerting" THEN (IF g.type = "outage" THEN g.send \union g.mute ELSE {})
    ELSE {}
Restorees(g) ==
    IF g.at = "alerting" THEN (IF g.type = "restored" THEN g.send \union g.mute ELSE {}) ELSE {}

AlertsTyped ==
    /\ down \in BOOLEAN /\ quiet \in BOOLEAN /\ asking \subseteq AlertUsers
    /\ log \in [AlertUsers -> SUBSET Alerting!Entries]
    /\ DOMAIN alert = AlertUpdates /\ \A p \in AlertUpdates : AlertSound(alert[p])
    /\ stamp \in Nat /\ flips \in 0..AlertFlips /\ unsent \in 0..AlertFaults
    /\ told \in [AlertUsers -> Seq(Events)]

(* What the log says of a user, or will when the push under way is logged.    *)
Known(u, e) ==
    \/ e \in log[u]
    \/ \E p \in AlertUpdates : \E f \in SentOf(alert[p]) : f.user = u /\ f.entry = e

(* Only who heard of an outage has an entry, and is told that it is over.     *)
Heard(u) == \E i \in DOMAIN told[u] : told[u][i].type = "outage"
Informed ==
    /\ \A u \in AlertUsers : \A e \in Alerting!Entries : Known(u, e) => Heard(u)
    /\ \A p \in AlertUpdates : \A u \in Restorees(alert[p]) : Heard(u)
    /\ Alerting!RestoredFollowsOutage

(* Who was told of an outage that is not over, as far as the user knows, is   *)
(* known to have been by the latest entry, and is not told of another.        *)
Open(u) == \E i \in DOMAIN told[u] :
    /\ told[u][i].type = "outage" /\ ~told[u][i].muted
    /\ \A k \in DOMAIN told[u] : i < k => told[u][k].type # "restored"
Latest(u, e) == Known(u, e) /\ \A f \in Alerting!Entries : Known(u, f) => f = e \/ f.stamp < e.stamp
Once ==
    /\ \A p \in AlertUpdates : p # FirstUpdate => alert[p] = Alerting!Idle
    /\ \A u \in AlertUsers : \A e \in Alerting!Entries : Known(u, e) => e.stamp <= stamp
    /\ \A u \in AlertUsers : Open(u) =>
        \E e \in Alerting!Entries : Latest(u, e) /\ e.type = "outage" /\ ~e.muted
    /\ \A p \in AlertUpdates : \A u \in Alertees(alert[p]) : ~Open(u)
    /\ Alerting!OutageToldOnce

AlertsSound == AlertsTyped /\ (part \in OfAlerts => Informed) /\ (part = "alerts" => Once)

LEMMA AlertNumbers ==
    /\ AlertDelay \in Nat /\ AlertAge \in Nat /\ AlertFlips \in Nat /\ AlertFaults \in Nat
    /\ QuietUsers \subseteq AlertUsers
BY PartsAssumption DEF Alerting!Assumptions

LEMMA AlertShapes ==
    ASSUME NEW g, AlertSound(g)
    PROVE  /\ g.at \in {"idle", "read", "waiting", "alerting"}
           /\ g.at = "idle" => g = Alerting!Idle
           /\ g.at = "read" => g \in Read
           /\ g.at = "waiting" => g \in Waiting /\ g.send \cap g.mute = {}
           /\ g.at = "alerting" => g \in Telling /\ g.send \cap g.mute = {} /\ \A f, h \in g.sent : f = h
           /\ SentOf(g) \subseteq Alerting!InFlight
           /\ Alertees(g) \subseteq AlertUsers /\ Restorees(g) \subseteq AlertUsers
BY DEF AlertSound, Alerting!Idle, Read, Waiting, Telling, SentOf, Alertees, Restorees

(* One update goes on, and nobody is told: what is known, and to whom, stays. *)
LEMMA NobodyIsTold ==
    ASSUME AlertsTyped, NEW p \in AlertUpdates, NEW g, AlertSound(g),
           alert' = [alert EXCEPT ![p] = g], log' = log, told' = told,
           stamp' \in Nat, stamp <= stamp', unsent' \in 0..AlertFaults,
           asking' = asking, down' = down, quiet' = quiet, flips' = flips,
           SentOf(g) \subseteq SentOf(alert[p])
    PROVE  /\ AlertsTyped'
           /\ Informed /\ (\A u \in Restorees(g) : Heard(u)) => Informed'
           /\ (/\ Once /\ (p # FirstUpdate => g = Alerting!Idle)
               /\ SentOf(g) = SentOf(alert[p]) /\ \A u \in Alertees(g) : ~Open(u)) => Once'
<1>1. DOMAIN alert' = AlertUpdates /\ \A i \in AlertUpdates : alert'[i] = IF i = p THEN g ELSE alert[i]
  BY DEF AlertsTyped
<1>2. AlertsTyped'
  BY <1>1 DEF AlertsTyped, AlertSound
<1>3. \A u \in AlertUsers : (Heard(u)' <=> Heard(u)) /\ (Open(u)' <=> Open(u))
  BY DEF Heard, Open
<1>4. \A u \in AlertUsers : \A e \in Alerting!Entries : Known(u, e)' => Known(u, e)
  BY <1>1 DEF Known, SentOf
<1>5. ASSUME Informed, \A u \in Restorees(g) : Heard(u)
      PROVE  Informed'
  <2>1. Alerting!RestoredFollowsOutage'
    BY <1>5 DEF Informed, Alerting!RestoredFollowsOutage, Alerting!Told
  <2>2. \A i \in AlertUpdates : \A u \in Restorees(alert'[i]) : Heard(u)'
    <3>1. \A i \in AlertUpdates : \A u \in Restorees(alert'[i]) : Heard(u)
      BY <1>1, <1>5 DEF Informed
    <3>2. \A i \in AlertUpdates : Restorees(alert'[i]) \subseteq AlertUsers
      BY <1>1, AlertShapes DEF AlertsTyped
    <3> QED
      BY <1>3, <3>1, <3>2
  <2>3. \A u \in AlertUsers : \A e \in Alerting!Entries : Known(u, e)' => Heard(u)'
    BY <1>3, <1>4, <1>5 DEF Informed
  <2> QED
    BY <2>1, <2>2, <2>3 DEF Informed, Restorees
<1>6. ASSUME Once, p # FirstUpdate => g = Alerting!Idle, SentOf(g) = SentOf(alert[p]),
             \A u \in Alertees(g) : ~Open(u)
      PROVE  Once'
  <2>1. \A i \in AlertUpdates : i # FirstUpdate => alert'[i] = Alerting!Idle
    BY <1>1, <1>6 DEF Once
  <2>2. \A u, e : Known(u, e)' <=> Known(u, e)
    BY <1>1, <1>6 DEF Known, SentOf
  <2>3. \A u \in AlertUsers : \A e \in Alerting!Entries : Known(u, e)' => e.stamp <= stamp'
    <3>1. \A e \in Alerting!Entries : e.stamp \in Nat
      BY DEF Alerting!Entries
    <3> QED
      BY <2>2, <3>1, <1>6 DEF Once, AlertsTyped
  <2>4. \A u, e : Latest(u, e)' <=> Latest(u, e)
    BY <2>2 DEF Latest
  <2>5. \A u \in AlertUsers : Open(u)' =>
            \E e \in Alerting!Entries : Latest(u, e)' /\ e.type = "outage" /\ ~e.muted
    BY <1>3, <2>4, <1>6 DEF Once
  <2>6. \A i \in AlertUpdates : \A u \in Alertees(alert'[i]) : ~Open(u)'
    <3>1. \A i \in AlertUpdates : \A u \in Alertees(alert'[i]) : ~Open(u)
      BY <1>1, <1>6 DEF Once
    <3>2. \A i \in AlertUpdates : Alertees(alert'[i]) \subseteq AlertUsers
      BY <1>1, AlertShapes DEF AlertsTyped
    <3> QED
      BY <1>3, <3>1, <3>2
  <2>7. Alerting!OutageToldOnce'
    BY <1>6 DEF Once, Alerting!OutageToldOnce, Alerting!Told
  <2> QED
    BY <2>1, <2>3, <2>5, <2>6, <2>7 DEF Once, Alertees
<1> QED
  BY <1>2, <1>5, <1>6

(* A user is told, or spared at night: the push, or the mute, and the entry   *)
(* that is about to be logged.                                                *)
LEMMA SomebodyIsTold ==
    ASSUME AlertsTyped, NEW p \in AlertUpdates, NEW u \in AlertUsers, NEW g, AlertSound(g),
           NEW e \in Alerting!Entries, NEW v \in Events,
           v.type = e.type, v.muted = e.muted, e.stamp = stamp + 1,
           alert' = [alert EXCEPT ![p] = g], log' = log, stamp' = stamp + 1,
           told' = [told EXCEPT ![u] = Append(told[u], v)],
           asking' = asking, down' = down, quiet' = quiet, flips' = flips, unsent' = unsent,
           alert[p] # Alerting!Idle, SentOf(alert[p]) = {}, SentOf(g) = {[user |-> u, entry |-> e]},
           Restorees(g) \subseteq Restorees(alert[p]), Alertees(g) \subseteq Alertees(alert[p]) \ {u},
           e.type = "restored" => u \in Restorees(alert[p]),
           e.type = "outage" => u \in Alertees(alert[p])
    PROVE  AlertsTyped' /\ (Informed => Informed') /\ (Once => Once')
<1> DEFINE n == Len(told[u])
<1>1. DOMAIN alert' = AlertUpdates /\ \A i \in AlertUpdates : alert'[i] = IF i = p THEN g ELSE alert[i]
  BY DEF AlertsTyped
<1>2. told[u] \in Seq(Events) /\ n \in Nat /\ DOMAIN told[u] = 1..n /\ \A i \in 1..n : told[u][i] \in Events
  BY DEF AlertsTyped
<1>3. /\ told' \in [AlertUsers -> Seq(Events)] /\ DOMAIN told'[u] = 1..(n + 1) /\ told'[u][n + 1] = v
      /\ \A i \in 1..n : told'[u][i] = told[u][i]
      /\ \A w \in AlertUsers : w # u => told'[w] = told[w]
  BY <1>2 DEF AlertsTyped
<1> HIDE DEF n
<1>4. e.type \in {"outage", "restored"} /\ e.muted \in BOOLEAN /\ v.muted \in BOOLEAN
  BY DEF Alerting!Entries
<1>5. AlertsTyped'
  BY <1>1, <1>3 DEF AlertsTyped, AlertSound
<1>6. \A w \in AlertUsers : \A d \in Alerting!Entries :
        Known(w, d)' <=> (Known(w, d) \/ (w = u /\ d = e))
  <2>1. ASSUME NEW w \in AlertUsers, NEW d \in Alerting!Entries
        PROVE  Known(w, d)' <=> (Known(w, d) \/ (w = u /\ d = e))
    <3>1. ASSUME Known(w, d)' PROVE Known(w, d) \/ (w = u /\ d = e)
      BY <1>1, <3>1 DEF Known, SentOf
    <3>2. ASSUME Known(w, d) PROVE Known(w, d)'
      <4>1. CASE d \in log[w]
        BY <4>1 DEF Known
      <4>2. CASE d \notin log[w]
        <5>1. PICK i \in AlertUpdates : \E f \in SentOf(alert[i]) : f.user = w /\ f.entry = d
          BY <3>2, <4>2 DEF Known
        <5>2. i # p
          BY <5>1
        <5>3. SentOf(alert'[i]) = SentOf(alert[i])
          BY <1>1, <5>2
        <5>4. \E f \in SentOf(alert'[i]) : f.user = w /\ f.entry = d
          BY <5>1, <5>3
        <5> QED
          BY <5>4 DEF Known, SentOf
      <4> QED
        BY <4>1, <4>2
    <3>3. Known(u, e)'
      <4>1. [user |-> u, entry |-> e] \in SentOf(alert'[p])
        BY <1>1
      <4> QED
        BY <4>1 DEF Known, SentOf
    <3> QED
      BY <3>1, <3>2, <3>3
  <2> QED
    BY <2>1
<1>7. \A w \in AlertUsers : Heard(w) => Heard(w)'
  BY <1>2, <1>3 DEF Heard
<1>8. ASSUME Informed PROVE Informed'
  <2>1. Heard(u)'
    <3>1. CASE e.type = "outage"
      <4>1. n + 1 \in DOMAIN told'[u] /\ told'[u][n + 1].type = "outage"
        BY <1>2, <1>3, <3>1
      <4> QED
        BY <4>1 DEF Heard
    <3>2. CASE e.type = "restored"
      BY <3>2, <1>7, <1>8 DEF Informed
    <3> QED
      BY <1>4, <3>1, <3>2
  <2>2. \A w \in AlertUsers : \A d \in Alerting!Entries : Known(w, d)' => Heard(w)'
    BY <1>6, <1>7, <1>8, <2>1 DEF Informed
  <2>3. \A i \in AlertUpdates : \A w \in Restorees(alert'[i]) : Heard(w)'
    <3>1. \A i \in AlertUpdates : \A w \in Restorees(alert'[i]) : Heard(w)
      BY <1>1, <1>8 DEF Informed
    <3>2. \A i \in AlertUpdates : Restorees(alert'[i]) \subseteq AlertUsers
      BY <1>1, AlertShapes DEF AlertsTyped
    <3> QED
      BY <1>7, <3>1, <3>2
  <2>4. ASSUME NEW w \in AlertUsers, NEW i \in DOMAIN told'[w], told'[w][i].type = "restored", ~told'[w][i].muted
        PROVE  \E j \in 1..(i - 1) : told'[w][j].type = "outage"
    <3>1. \A x \in AlertUsers : \A k \in DOMAIN told[x] : told[x][k].type = "restored" /\ ~told[x][k].muted =>
            \E j \in 1..(k - 1) : told[x][j].type = "outage"
      BY <1>8 DEF Informed, Alerting!RestoredFollowsOutage, Alerting!Told
    <3>2. CASE w # u
      BY <1>3, <2>4, <3>1, <3>2
    <3>3. CASE w = u /\ i \in 1..n
      <4>1. PICK j \in 1..(i - 1) : told[u][j].type = "outage"
        BY <1>2, <1>3, <2>4, <3>1, <3>3
      <4>2. j \in 1..n
        BY <1>2, <3>3
      <4> QED
        BY <1>3, <3>3, <4>1, <4>2
    <3>4. CASE w = u /\ i = n + 1
      <4>1. Heard(u)
        BY <1>3, <1>8, <2>4, <3>4 DEF Informed
      <4>2. PICK j \in 1..n : told[u][j].type = "outage"
        BY <1>2, <4>1 DEF Heard
      <4>3. j \in 1..(i - 1) /\ told'[u][j] = told[u][j]
        BY <1>2, <1>3, <3>4
      <4> QED
        BY <3>4, <4>2, <4>3
    <3> QED
      BY <1>2, <1>3, <2>4, <3>2, <3>3, <3>4
  <2>5. Alerting!RestoredFollowsOutage'
    BY <2>4 DEF Alerting!RestoredFollowsOutage, Alerting!Told
  <2> QED
    BY <2>2, <2>3, <2>5 DEF Informed, Restorees
<1>9. ASSUME Once PROVE Once'
  <2>1. p = FirstUpdate /\ \A i \in AlertUpdates : i # FirstUpdate => alert'[i] = Alerting!Idle
    BY <1>1, <1>9 DEF Once
  <2>2. \A w \in AlertUsers : \A d \in Alerting!Entries : Known(w, d) => d.stamp <= stamp
    BY <1>9 DEF Once
  <2>3. \A d \in Alerting!Entries : d.stamp \in Nat
    BY DEF Alerting!Entries
  <2>4. \A w \in AlertUsers : \A d \in Alerting!Entries : Known(w, d)' => d.stamp <= stamp'
    BY <1>6, <2>2, <2>3 DEF AlertsTyped
  <2>5. \A w \in AlertUsers : w # u => (Open(w)' <=> Open(w))
    BY <1>3 DEF Open
  <2>6. Open(u)' => e.type = "outage" /\ ~e.muted
    <3>1. ASSUME e.type = "restored" PROVE ~Open(u)'
      <4>1. n + 1 \in DOMAIN told'[u] /\ told'[u][n + 1].type = "restored" /\ \A i \in DOMAIN told'[u] : i < n + 1 \/ i = n + 1
        BY <1>2, <1>3, <3>1
      <4> QED
        BY <4>1 DEF Open
    <3>2. ASSUME e.type = "outage", e.muted PROVE ~Open(u)'
      <4>1. ~Open(u)
        BY <1>9, <3>2 DEF Once
      <4>2. SUFFICES ASSUME NEW i \in DOMAIN told'[u], told'[u][i].type = "outage", ~told'[u][i].muted
                     PROVE  \E k \in DOMAIN told'[u] : i < k /\ told'[u][k].type = "restored"
        BY DEF Open
      <4>3. i \in 1..n
        <5>1. i # n + 1
          BY <1>3, <3>2, <4>2, Zenon
        <5> QED
          BY <1>2, <1>3, <4>2, <5>1
      <4>4. PICK k \in 1..n : i < k /\ told[u][k].type = "restored"
        BY <1>2, <1>3, <4>1, <4>2, <4>3 DEF Open
      <4> QED
        BY <1>2, <1>3, <4>4
    <3> QED
      BY <1>4, <3>1, <3>2
  <2>7. ASSUME NEW w \in AlertUsers, Open(w)'
        PROVE  \E d \in Alerting!Entries : Latest(w, d)' /\ d.type = "outage" /\ ~d.muted
    <3>1. CASE w # u
      <4>1. PICK d \in Alerting!Entries : Latest(w, d) /\ d.type = "outage" /\ ~d.muted
        BY <1>9, <2>5, <2>7, <3>1 DEF Once
      <4>2. \A c \in Alerting!Entries : Known(w, c)' <=> Known(w, c)
        BY <1>6, <3>1
      <4> QED
        BY <4>1, <4>2 DEF Latest
    <3>2. CASE w = u
      <4>1. \A d \in Alerting!Entries : Known(u, d)' => d = e \/ d.stamp < e.stamp
        BY <1>6, <2>2, <2>3 DEF AlertsTyped
      <4>2. Known(u, e)'
        BY <1>6
      <4> QED
        BY <2>6, <2>7, <3>2, <4>1, <4>2 DEF Latest
    <3> QED
      BY <3>1, <3>2
  <2>8. \A i \in AlertUpdates : \A w \in Alertees(alert'[i]) : ~Open(w)'
    <3>1. Alertees(Alerting!Idle) = {}
      BY DEF Alertees, Alerting!Idle
    <3>2. ASSUME NEW w \in Alertees(g) PROVE ~Open(w)'
      <4>1. w # u /\ w \in AlertUsers /\ ~Open(w)
        BY <1>9, <3>2, AlertShapes DEF Once, AlertsTyped
      <4> QED
        BY <2>5, <4>1
    <3> QED
      BY <1>1, <2>1, <3>1, <3>2
  <2>9. ASSUME NEW w \in AlertUsers, NEW i \in DOMAIN told'[w], NEW j \in DOMAIN told'[w], i < j,
               told'[w][i].type = "outage", ~told'[w][i].muted,
               told'[w][j].type = "outage", ~told'[w][j].muted
        PROVE  \E k \in (i + 1)..(j - 1) : told'[w][k].type = "restored"
    <3>1. \A x \in AlertUsers : \A a, b \in DOMAIN told[x] :
            /\ a < b /\ told[x][a].type = "outage" /\ ~told[x][a].muted
            /\ told[x][b].type = "outage" /\ ~told[x][b].muted
            => \E k \in (a + 1)..(b - 1) : told[x][k].type = "restored"
      BY <1>9 DEF Once, Alerting!OutageToldOnce, Alerting!Told
    <3>2. CASE w # u
      BY <1>3, <2>9, <3>1, <3>2
    <3>3. CASE w = u /\ j \in 1..n
      <4>1. i \in 1..n
        BY <1>2, <1>3, <2>9, <3>3
      <4>2. PICK k \in (i + 1)..(j - 1) : told[u][k].type = "restored"
        BY <1>2, <1>3, <2>9, <3>1, <3>3, <4>1
      <4>3. k \in 1..n
        BY <1>2, <3>3, <4>1
      <4> QED
        BY <1>3, <3>3, <4>2, <4>3
    <3>4. CASE w = u /\ j = n + 1
      <4>1. ~Open(u)
        BY <1>3, <1>9, <2>9, <3>4 DEF Once
      <4>2. i \in 1..n
        BY <1>2, <1>3, <2>9, <3>4
      <4>3. PICK k \in 1..n : i < k /\ told[u][k].type = "restored"
        BY <1>2, <1>3, <2>9, <3>4, <4>1, <4>2 DEF Open
      <4> QED
        BY <1>2, <1>3, <3>4, <4>2, <4>3
    <3> QED
      BY <1>2, <1>3, <2>9, <3>2, <3>3, <3>4
  <2>10. Alerting!OutageToldOnce'
    BY <2>9 DEF Alerting!OutageToldOnce, Alerting!Told
  <2> QED
    BY <2>1, <2>4, <2>7, <2>8, <2>10 DEF Once, Alertees
<1> QED
  BY <1>5, <1>8, <1>9

(* The push is logged: what was about to be known is.                         *)
LEMMA EntriesAreLogged ==
    ASSUME AlertsTyped, NEW p \in AlertUpdates, Alerting!AppendLog(p)
    PROVE  AlertsTyped' /\ (Informed => Informed') /\ (Once => Once')
<1> DEFINE g == [alert[p] EXCEPT !.sent = {}]
<1>1. PICK f \in alert[p].sent : log' = [log EXCEPT ![f.user] = log[f.user] \union {f.entry}]
  BY DEF Alerting!AppendLog
<1>2. alert[p].at = "alerting" /\ alert' = [alert EXCEPT ![p] = g]
  BY DEF Alerting!AppendLog
<1>3. /\ alert[p] \in Telling /\ alert[p].send \cap alert[p].mute = {} /\ \A h \in alert[p].sent : h = f
      /\ f.user \in AlertUsers /\ f.entry \in Alerting!Entries
  <2>1. AlertSound(alert[p])
    BY DEF AlertsTyped
  <2>2. /\ alert[p] \in Telling /\ alert[p].send \cap alert[p].mute = {}
        /\ \A f1, f2 \in alert[p].sent : f1 = f2
        /\ SentOf(alert[p]) \subseteq Alerting!InFlight
    BY <1>2, <2>1, AlertShapes
  <2>3. f \in Alerting!InFlight
    BY <1>2, <2>2 DEF SentOf
  <2> QED
    BY <2>2, <2>3 DEF Alerting!InFlight
<1>4. /\ g \in Telling /\ g.at = "alerting" /\ g.type = alert[p].type /\ g.sent = {}
      /\ g.send = alert[p].send /\ g.mute = alert[p].mute
  BY <1>2, <1>3 DEF Telling
<1> HIDE DEF g
<1>5. AlertSound(g) /\ SentOf(g) = {} /\ Alertees(g) = Alertees(alert[p]) /\ Restorees(g) = Restorees(alert[p])
  BY <1>2, <1>3, <1>4 DEF AlertSound, SentOf, Alertees, Restorees
<1>6. DOMAIN alert' = AlertUpdates /\ \A i \in AlertUpdates : alert'[i] = IF i = p THEN g ELSE alert[i]
  BY <1>2 DEF AlertsTyped
<1>7. /\ \A u \in AlertUsers : log'[u] = IF u = f.user THEN log[u] \union {f.entry} ELSE log[u]
      /\ log' \in [AlertUsers -> SUBSET Alerting!Entries]
  BY <1>1, <1>3 DEF AlertsTyped
<1>8. /\ asking' = asking /\ down' = down /\ quiet' = quiet /\ stamp' = stamp /\ told' = told
      /\ flips' = flips /\ unsent' = unsent
  BY DEF Alerting!AppendLog
<1>9. AlertsTyped'
  BY <1>5, <1>6, <1>7, <1>8 DEF AlertsTyped, AlertSound
<1>10. \A u \in AlertUsers : \A e : Known(u, e)' <=> Known(u, e)
  <2>1. ASSUME NEW u \in AlertUsers, NEW e
        PROVE  Known(u, e)' <=> Known(u, e)
    <3>1. ASSUME Known(u, e) PROVE Known(u, e)'
      <4>1. CASE e \in log[u]
        BY <1>7, <4>1 DEF Known
      <4>2. CASE e \notin log[u]
        <5>1. PICK i \in AlertUpdates : \E h \in SentOf(alert[i]) : h.user = u /\ h.entry = e
          BY <3>1, <4>2 DEF Known
        <5>2. CASE i = p
          <6>1. f.user = u /\ f.entry = e
            BY <1>2, <1>3, <5>1, <5>2 DEF SentOf
          <6> QED
            BY <1>7, <6>1 DEF Known
        <5>3. CASE i # p
          <6>1. SentOf(alert'[i]) = SentOf(alert[i])
            BY <1>6, <5>3
          <6>2. \E h \in SentOf(alert'[i]) : h.user = u /\ h.entry = e
            BY <5>1, <6>1
          <6> QED
            BY <6>2 DEF Known, SentOf
        <5> QED
          BY <5>2, <5>3
      <4> QED
        BY <4>1, <4>2
    <3>2. ASSUME Known(u, e)' PROVE Known(u, e)
      <4>1. CASE e \in log'[u]
        <5>1. e \in log[u] \/ (u = f.user /\ e = f.entry)
          BY <1>7, <4>1
        <5>2. f \in SentOf(alert[p])
          BY <1>2 DEF SentOf
        <5> QED
          BY <5>1, <5>2 DEF Known
      <4>2. CASE e \notin log'[u]
        <5>1. PICK i \in AlertUpdates : \E h \in SentOf(alert'[i]) : h.user = u /\ h.entry = e
          BY <3>2, <4>2 DEF Known, SentOf
        <5>2. i # p /\ SentOf(alert'[i]) = SentOf(alert[i])
          BY <1>5, <1>6, <5>1
        <5> QED
          BY <5>1, <5>2 DEF Known
      <4> QED
        BY <4>1, <4>2
    <3> QED
      BY <3>1, <3>2
  <2> QED
    BY <2>1
<1>11. \A u \in AlertUsers : (Heard(u)' <=> Heard(u)) /\ (Open(u)' <=> Open(u))
  BY <1>8 DEF Heard, Open
<1>12. \A i \in AlertUpdates :
          Alertees(alert'[i]) = Alertees(alert[i]) /\ Restorees(alert'[i]) = Restorees(alert[i])
  BY <1>5, <1>6
<1>13. \A i \in AlertUpdates : Alertees(alert[i]) \subseteq AlertUsers /\ Restorees(alert[i]) \subseteq AlertUsers
  BY AlertShapes DEF AlertsTyped
<1>14. ASSUME Informed PROVE Informed'
  <2>1. \A u \in AlertUsers : \A e \in Alerting!Entries : Known(u, e)' => Heard(u)'
    BY <1>10, <1>11, <1>14 DEF Informed
  <2>2. \A i \in AlertUpdates : \A u \in Restorees(alert'[i]) : Heard(u)'
    BY <1>11, <1>12, <1>13, <1>14 DEF Informed
  <2>3. Alerting!RestoredFollowsOutage'
    BY <1>8, <1>14 DEF Informed, Alerting!RestoredFollowsOutage, Alerting!Told
  <2> QED
    BY <2>1, <2>2, <2>3 DEF Informed, Restorees
<1>15. ASSUME Once PROVE Once'
  <2>1. p = FirstUpdate
    BY <1>2, <1>15 DEF Once, Alerting!Idle
  <2>2. \A i \in AlertUpdates : i # FirstUpdate => alert'[i] = Alerting!Idle
    BY <1>6, <1>15, <2>1 DEF Once
  <2>3. \A u \in AlertUsers : \A e \in Alerting!Entries : Known(u, e)' => e.stamp <= stamp'
    BY <1>8, <1>10, <1>15 DEF Once
  <2>4. \A u \in AlertUsers : \A e : Latest(u, e)' <=> Latest(u, e)
    BY <1>10 DEF Latest
  <2>5. \A u \in AlertUsers : Open(u)' =>
            \E e \in Alerting!Entries : Latest(u, e)' /\ e.type = "outage" /\ ~e.muted
    BY <1>11, <1>15, <2>4 DEF Once
  <2>6. \A i \in AlertUpdates : \A u \in Alertees(alert'[i]) : ~Open(u)'
    BY <1>11, <1>12, <1>13, <1>15 DEF Once
  <2>7. Alerting!OutageToldOnce'
    BY <1>8, <1>15 DEF Once, Alerting!OutageToldOnce, Alerting!Told
  <2> QED
    BY <2>2, <2>3, <2>5, <2>6, <2>7 DEF Once, Alertees
<1> QED
  BY <1>9, <1>14, <1>15

(* Time passes, while nobody is being told: entries age.                      *)
Aged(e) == [e EXCEPT !.age = IF e.age <= AlertAge THEN e.age + 1 ELSE e.age]

LEMMA EntriesAge ==
    ASSUME NEW e \in Alerting!Entries
    PROVE  /\ Aged(e) \in Alerting!Entries /\ Aged(e).type = e.type
           /\ Aged(e).muted = e.muted /\ Aged(e).stamp = e.stamp
<1>1. e.age \in 0..(AlertAge + 1) /\ AlertAge \in Nat
  BY AlertNumbers DEF Alerting!Entries
<1>2. (IF e.age <= AlertAge THEN e.age + 1 ELSE e.age) \in 0..(AlertAge + 1)
  BY <1>1
<1> QED
  BY <1>2 DEF Aged, Alerting!Entries

LEMMA TimePasses ==
    ASSUME AlertsTyped, Alerting!Tick
    PROVE  AlertsTyped' /\ (Informed => Informed') /\ (Once => Once')
<1>1. /\ \A p \in AlertUpdates : alert[p].at \in {"idle", "waiting"}
      /\ \A p \in AlertUpdates : alert[p].at = "waiting" => alert[p].left > 0
      /\ alert' = [p \in AlertUpdates |->
                    IF alert[p].at = "waiting" THEN [alert[p] EXCEPT !.left = alert[p].left - 1] ELSE alert[p]]
      /\ log' = [u \in AlertUsers |-> {Aged(e) : e \in log[u]}]
      /\ asking' = asking /\ down' = down /\ quiet' = quiet /\ stamp' = stamp /\ told' = told
      /\ flips' = flips /\ unsent' = unsent
  BY DEF Alerting!Tick, Aged
<1>2. ASSUME NEW p \in AlertUpdates
      PROVE  /\ AlertSound(alert'[p]) /\ SentOf(alert[p]) = {} /\ SentOf(alert'[p]) = {}
             /\ Alertees(alert'[p]) = Alertees(alert[p]) /\ Restorees(alert'[p]) = {}
             /\ alert[p] = Alerting!Idle => alert'[p] = Alerting!Idle
  <2>1. AlertSound(alert[p])
    BY DEF AlertsTyped
  <2>2. CASE alert[p].at = "idle"
    <3>1. alert[p] = Alerting!Idle /\ alert'[p] = alert[p]
      BY <1>1, <2>1, <2>2, AlertShapes
    <3> QED
      BY <2>1, <2>2, <3>1 DEF SentOf, Restorees
  <2>3. CASE alert[p].at = "waiting"
    <3> DEFINE g == [alert[p] EXCEPT !.left = alert[p].left - 1]
    <3>1. alert[p] \in Waiting /\ alert[p].send \cap alert[p].mute = {} /\ alert'[p] = g
      BY <1>1, <2>1, <2>3, AlertShapes
    <3>2. alert[p].left - 1 \in 0..AlertDelay
      BY <1>1, <2>3, <3>1, AlertNumbers DEF Waiting
    <3>3. g \in Waiting /\ g.at = "waiting" /\ g.send = alert[p].send /\ g.mute = alert[p].mute
      BY <2>3, <3>1, <3>2 DEF Waiting
    <3> HIDE DEF g
    <3> QED
      BY <2>3, <3>1, <3>3 DEF AlertSound, SentOf, Alertees, Restorees, Alerting!Idle
  <2> QED
    BY <1>1, <2>2, <2>3
<1>3. \A u \in AlertUsers : log'[u] = {Aged(e) : e \in log[u]} /\ log[u] \subseteq Alerting!Entries
  BY <1>1 DEF AlertsTyped
<1>4. AlertsTyped'
  <2>1. log' \in [AlertUsers -> SUBSET Alerting!Entries]
    BY <1>1, <1>3, EntriesAge
  <2>2. DOMAIN alert' = AlertUpdates /\ \A p \in AlertUpdates : AlertSound(alert'[p])
    BY <1>1, <1>2
  <2> QED
    BY <1>1, <2>1, <2>2 DEF AlertsTyped, AlertSound
<1>5. \A u \in AlertUsers : \A e : Known(u, e) <=> e \in log[u]
  BY <1>2 DEF Known
<1>6. \A u \in AlertUsers : \A e : Known(u, e)' <=> e \in log'[u]
  BY <1>2 DEF Known, SentOf
<1>7. \A u \in AlertUsers : \A e \in Alerting!Entries : Known(u, e)' =>
        \E d \in Alerting!Entries : Known(u, d) /\ e = Aged(d)
  BY <1>3, <1>5, <1>6
<1>8. \A u \in AlertUsers : (Heard(u)' <=> Heard(u)) /\ (Open(u)' <=> Open(u))
  BY <1>1 DEF Heard, Open
<1>9. ASSUME Informed PROVE Informed'
  <2>1. \A u \in AlertUsers : \A e \in Alerting!Entries : Known(u, e)' => Heard(u)'
    BY <1>7, <1>8, <1>9 DEF Informed
  <2>2. \A p \in AlertUpdates : \A u \in Restorees(alert'[p]) : Heard(u)'
    BY <1>2
  <2>3. Alerting!RestoredFollowsOutage'
    BY <1>1, <1>9 DEF Informed, Alerting!RestoredFollowsOutage, Alerting!Told
  <2> QED
    BY <2>1, <2>2, <2>3 DEF Informed, Restorees
<1>10. ASSUME Once PROVE Once'
  <2>1. \A p \in AlertUpdates : p # FirstUpdate => alert'[p] = Alerting!Idle
    BY <1>2, <1>10 DEF Once
  <2>2. \A u \in AlertUsers : \A e \in Alerting!Entries : Known(u, e)' => e.stamp <= stamp'
    BY <1>1, <1>7, <1>10, EntriesAge DEF Once
  <2>3. ASSUME NEW u \in AlertUsers, Open(u)'
        PROVE  \E e \in Alerting!Entries : Latest(u, e)' /\ e.type = "outage" /\ ~e.muted
    <3>1. PICK d \in Alerting!Entries : Latest(u, d) /\ d.type = "outage" /\ ~d.muted
      BY <1>8, <1>10, <2>3 DEF Once
    <3>2. /\ Aged(d) \in Alerting!Entries /\ Aged(d).type = "outage" /\ ~Aged(d).muted
          /\ Aged(d).stamp = d.stamp
      BY <3>1, EntriesAge
    <3>3. Known(u, Aged(d))'
      BY <1>3, <1>5, <1>6, <3>1 DEF Latest
    <3>4. ASSUME NEW f \in Alerting!Entries, Known(u, f)'
          PROVE  f = Aged(d) \/ f.stamp < Aged(d).stamp
      <4>1. PICK c \in Alerting!Entries : Known(u, c) /\ f = Aged(c)
        BY <1>7, <3>4
      <4>2. c = d \/ c.stamp < d.stamp
        BY <3>1, <4>1 DEF Latest
      <4> QED
        BY <3>2, <4>1, <4>2, EntriesAge
    <3> QED
      BY <3>2, <3>3, <3>4 DEF Latest
  <2>4. \A p \in AlertUpdates : \A u \in Alertees(alert'[p]) : ~Open(u)'
    <3>1. \A p \in AlertUpdates : Alertees(alert[p]) \subseteq AlertUsers
      BY AlertShapes DEF AlertsTyped
    <3> QED
      BY <1>2, <1>8, <1>10, <3>1 DEF Once
  <2>5. Alerting!OutageToldOnce'
    BY <1>1, <1>10 DEF Once, Alerting!OutageToldOnce, Alerting!Told
  <2> QED
    BY <2>1, <2>2, <2>3, <2>4, <2>5 DEF Once, Alertees
<1> QED
  BY <1>4, <1>9, <1>10

(* What the updates do, one step each.                                        *)
LEMMA UpdatesBegin ==
    ASSUME AlertsTyped, NEW p \in AlertUpdates, Alerting!Begin(p), AlertsNarrowed'
    PROVE  AlertsTyped' /\ (Informed => Informed') /\ (part' = "alerts" /\ Once => Once')
<1>1. PICK s \in {TRUE, FALSE} : alert' = [alert EXCEPT ![p] = [at |-> "read", sweep |-> s, down |-> down]]
  BY DEF Alerting!Begin
<1> DEFINE g == [at |-> "read", sweep |-> s, down |-> down]
<1>2. g \in Read /\ g.at = "read" /\ g # Alerting!Idle
  BY DEF AlertsTyped, Read, Alerting!Idle
<1>3. alert' = [alert EXCEPT ![p] = g]
  BY <1>1
<1> HIDE DEF g
<1>4. AlertSound(g) /\ SentOf(g) = {} /\ Alertees(g) = {} /\ Restorees(g) = {}
  BY <1>2 DEF AlertSound, SentOf, Alertees, Restorees
<1>5. /\ alert[p] = Alerting!Idle /\ log' = log /\ told' = told /\ stamp' = stamp /\ unsent' = unsent
      /\ asking' = asking /\ down' = down /\ quiet' = quiet /\ flips' = flips
  BY DEF Alerting!Begin
<1>6. SentOf(alert[p]) = {} /\ stamp' \in Nat /\ stamp <= stamp' /\ unsent' \in 0..AlertFaults
  BY <1>5 DEF AlertsTyped, SentOf, Alerting!Idle
<1>7. part' = "alerts" => p = FirstUpdate
  BY <1>2, <1>3 DEF AlertsNarrowed, AlertsTyped
<1> QED
  BY <1>3, <1>4, <1>5, <1>6, <1>7, NobodyIsTold

LEMMA LatestIsKnown ==
    ASSUME AlertsTyped, NEW u \in AlertUsers, \A p \in AlertUpdates : SentOf(alert[p]) = {}, Once, Open(u)
    PROVE  Alerting!Latest(u).type = "outage" /\ ~Alerting!Latest(u).muted
<1>1. PICK e \in Alerting!Entries : Latest(u, e) /\ e.type = "outage" /\ ~e.muted
  BY DEF Once
<1>2. e \in log[u] /\ \A f \in log[u] : f = e \/ f.stamp < e.stamp
  <2>1. log[u] \subseteq Alerting!Entries
    BY DEF AlertsTyped
  <2> QED
    BY <1>1, <2>1 DEF Latest, Known
<1>3. \A f \in log[u] : f.stamp \in Nat
  BY DEF AlertsTyped, Alerting!Entries
<1>4. \A f \in log[u] : (\A h \in log[u] : h.stamp <= f.stamp) <=> f = e
  BY <1>2, <1>3
<1>5. Alerting!Latest(u) = CHOOSE f \in log[u] : \A h \in log[u] : h.stamp <= f.stamp
  BY <1>2 DEF Alerting!Latest
<1>6. Alerting!Latest(u) = e
  BY <1>2, <1>4, <1>5
<1> QED
  BY <1>1, <1>6

LEMMA UpdatesEvaluate ==
    ASSUME AlertsTyped, NEW p \in AlertUpdates, Alerting!Evaluate(p)
    PROVE  AlertsTyped' /\ (Informed => Informed') /\ (Once => Once')
<1> DEFINE all == IF alert[p].down THEN {u \in asking : Alerting!Alertable(u)}
                  ELSE {u \in asking : Alerting!Restorable(u)}
           mute == {u \in all : Alerting!Quiet(u)}
           wait == [at |-> "waiting", sweep |-> alert[p].sweep, left |-> AlertDelay,
                    send |-> all \ mute, mute |-> mute]
           tell == [at |-> "alerting", sweep |-> alert[p].sweep, type |-> "restored", sent |-> {},
                    send |-> all \ mute, mute |-> mute]
           g == IF all = {} THEN Alerting!Idle ELSE IF alert[p].down THEN wait ELSE tell
<1>1. /\ alert[p].at = "read" /\ alert' = [alert EXCEPT ![p] = g]
      /\ log' = log /\ told' = told /\ stamp' = stamp /\ unsent' = unsent
      /\ asking' = asking /\ down' = down /\ quiet' = quiet /\ flips' = flips
  BY DEF Alerting!Evaluate
<1>2. alert[p] \in Read /\ asking \subseteq AlertUsers
  BY <1>1, AlertShapes DEF AlertsTyped
<1>3. all \subseteq AlertUsers /\ mute \subseteq all
  BY <1>2
<1>4. alert[p].down => \A u \in all : Alerting!Alertable(u)
  OBVIOUS
<1>5. ~alert[p].down => \A u \in all : Alerting!Restorable(u)
  OBVIOUS
<1> HIDE DEF all, mute
<1>6. /\ wait \in Waiting /\ wait.at = "waiting" /\ wait.send \cap wait.mute = {}
      /\ wait.send \union wait.mute = all
  BY <1>2, <1>3, AlertNumbers DEF Waiting, Read
<1>7. /\ tell \in Telling /\ tell.at = "alerting" /\ tell.type = "restored" /\ tell.sent = {}
      /\ tell.send \cap tell.mute = {} /\ tell.send \union tell.mute = all
  BY <1>2, <1>3 DEF Telling, Read
<1> HIDE DEF wait, tell
<1>8. AlertSound(wait) /\ SentOf(wait) = {} /\ Alertees(wait) = all /\ Restorees(wait) = {}
  BY <1>6 DEF AlertSound, SentOf, Alertees, Restorees
<1>9. AlertSound(tell) /\ SentOf(tell) = {} /\ Alertees(tell) = {} /\ Restorees(tell) = all
  BY <1>7 DEF AlertSound, SentOf, Alertees, Restorees
<1>10. /\ AlertSound(Alerting!Idle) /\ SentOf(Alerting!Idle) = {}
       /\ Alertees(Alerting!Idle) = {} /\ Restorees(Alerting!Idle) = {}
  BY DEF AlertSound, SentOf, Alertees, Restorees, Alerting!Idle
<1>11. AlertSound(g) /\ SentOf(g) = {}
  BY <1>8, <1>9, <1>10
<1>12. (\A u \in Alertees(g) : Alerting!Alertable(u)) /\ (\A u \in Restorees(g) : Alerting!Restorable(u))
  BY <1>4, <1>5, <1>8, <1>9, <1>10
<1> HIDE DEF g
<1>13. Alertees(g) \subseteq AlertUsers /\ Restorees(g) \subseteq AlertUsers
  BY <1>11, AlertShapes
<1>14. SentOf(alert[p]) = {} /\ stamp' \in Nat /\ stamp <= stamp' /\ unsent' \in 0..AlertFaults
  BY <1>1 DEF AlertsTyped, SentOf
<1>15. ASSUME Informed PROVE \A u \in Restorees(g) : Heard(u)
  <2>1. ASSUME NEW u \in Restorees(g) PROVE Heard(u)
    <3>1. log[u] # {}
      <4>1. Alerting!Latest(u).type \in {"outage", "restored"}
        BY <1>12, <2>1 DEF Alerting!Restorable
      <4> QED
        BY <4>1 DEF Alerting!Latest, Alerting!Nothing
    <3>2. \E e \in Alerting!Entries : e \in log[u]
      BY <1>13, <2>1, <3>1 DEF AlertsTyped
    <3> QED
      BY <1>13, <1>15, <2>1, <3>2 DEF Informed, Known
  <2> QED
    BY <2>1
<1>16. ASSUME Once
       PROVE  (p # FirstUpdate => g = Alerting!Idle) /\ \A u \in Alertees(g) : ~Open(u)
  <2>1. p = FirstUpdate
    BY <1>1, <1>16 DEF Once, Alerting!Idle
  <2>2. \A q \in AlertUpdates : SentOf(alert[q]) = {}
    BY <1>10, <1>14, <1>16, <2>1 DEF Once
  <2>3. \A u \in Alertees(g) : ~Open(u)
    BY <1>12, <1>13, <1>16, <2>2, LatestIsKnown DEF Alerting!Alertable
  <2> QED
    BY <2>1, <2>3
<1> QED
  BY <1>1, <1>11, <1>14, <1>15, <1>16, NobodyIsTold

(* An update is done with, cancelled, or finds the grid up after all.         *)
LEMMA UpdatesRest ==
    ASSUME AlertsTyped, NEW p \in AlertUpdates, alert' = [alert EXCEPT ![p] = Alerting!Idle],
           SentOf(alert[p]) = {}, log' = log, told' = told, stamp' = stamp, unsent' \in 0..AlertFaults,
           asking' = asking, down' = down, quiet' = quiet, flips' = flips
    PROVE  AlertsTyped' /\ (Informed => Informed') /\ (Once => Once')
<1>1. /\ AlertSound(Alerting!Idle) /\ SentOf(Alerting!Idle) = {}
      /\ Alertees(Alerting!Idle) = {} /\ Restorees(Alerting!Idle) = {}
  BY DEF AlertSound, SentOf, Alertees, Restorees, Alerting!Idle
<1>2. stamp' \in Nat /\ stamp <= stamp'
  BY DEF AlertsTyped
<1> QED
  BY <1>1, <1>2, NobodyIsTold

LEMMA UpdatesEnd ==
    ASSUME AlertsTyped, NEW p \in AlertUpdates, Alerting!Cancelled(p) \/ Alerting!Finish(p)
    PROVE  AlertsTyped' /\ (Informed => Informed') /\ (Once => Once')
<1>1. /\ alert' = [alert EXCEPT ![p] = Alerting!Idle] /\ SentOf(alert[p]) = {}
      /\ log' = log /\ told' = told /\ stamp' = stamp
      /\ asking' = asking /\ down' = down /\ quiet' = quiet /\ flips' = flips
  BY DEF Alerting!Cancelled, Alerting!Finish, SentOf
<1>2. unsent' = unsent \/ (unsent < AlertFaults /\ unsent' = unsent + 1)
  BY DEF Alerting!Cancelled, Alerting!Finish, Alerting!Fault
<1>3. unsent' \in 0..AlertFaults
  BY <1>2, AlertNumbers DEF AlertsTyped
<1> QED
  BY <1>1, <1>3, UpdatesRest

LEMMA UpdatesVerify ==
    ASSUME AlertsTyped, NEW p \in AlertUpdates, Alerting!Verify(p)
    PROVE  AlertsTyped' /\ (Informed => Informed') /\ (Once => Once')
<1> DEFINE g == [at |-> "alerting", sweep |-> FALSE, type |-> "outage", sent |-> {},
                 send |-> alert[p].send, mute |-> alert[p].mute]
<1>1. /\ alert[p].at = "waiting" /\ alert' = [alert EXCEPT ![p] = IF ~down THEN Alerting!Idle ELSE g]
      /\ log' = log /\ told' = told /\ stamp' = stamp /\ unsent' = unsent
      /\ asking' = asking /\ down' = down /\ quiet' = quiet /\ flips' = flips
  BY DEF Alerting!Verify
<1>2. alert[p] \in Waiting /\ alert[p].send \cap alert[p].mute = {}
  BY <1>1, AlertShapes DEF AlertsTyped
<1>3. /\ g \in Telling /\ g.at = "alerting" /\ g.type = "outage" /\ g.sent = {}
      /\ g.send = alert[p].send /\ g.mute = alert[p].mute
  BY <1>2 DEF Telling, Waiting
<1> HIDE DEF g
<1>4. AlertSound(g) /\ SentOf(g) = {} /\ Alertees(g) = Alertees(alert[p]) /\ Restorees(g) = {}
  BY <1>1, <1>2, <1>3 DEF AlertSound, SentOf, Alertees, Restorees
<1>5. SentOf(alert[p]) = {} /\ stamp' \in Nat /\ stamp <= stamp' /\ unsent' \in 0..AlertFaults
  BY <1>1 DEF AlertsTyped, SentOf
<1>6. CASE down
  <2>1. Once => p = FirstUpdate /\ \A u \in Alertees(g) : ~Open(u)
    BY <1>1, <1>4 DEF Once, Alerting!Idle
  <2> QED
    BY <1>1, <1>4, <1>5, <1>6, <2>1, NobodyIsTold
<1>7. CASE ~down
  BY <1>1, <1>5, <1>7, UpdatesRest
<1> QED
  BY <1>6, <1>7

LEMMA UpdatesSend ==
    ASSUME AlertsTyped, NEW p \in AlertUpdates, NEW u \in AlertUsers, Alerting!Send(p, u)
    PROVE  AlertsTyped' /\ (Informed => Informed') /\ (Once => Once')
<1> DEFINE e == Alerting!Entry(p, FALSE, TRUE)
           g == [alert[p] EXCEPT !.send = alert[p].send \ {u}, !.sent = {[user |-> u, entry |-> e]}]
           h == [alert[p] EXCEPT !.send = alert[p].send \ {u}]
<1>1. /\ alert[p].at = "alerting" /\ alert[p].sent = {} /\ u \in alert[p].send
      /\ log' = log /\ stamp' = stamp + 1
      /\ asking' = asking /\ down' = down /\ quiet' = quiet /\ flips' = flips
  BY DEF Alerting!Send
<1>2. \/ /\ told' = [told EXCEPT ![u] = Append(told[u], Alerting!Event(p, FALSE))]
         /\ alert' = [alert EXCEPT ![p] = g] /\ unsent' = unsent
      \/ /\ told' = told /\ alert' = [alert EXCEPT ![p] = h]
         /\ unsent < AlertFaults /\ unsent' = unsent + 1
  BY DEF Alerting!Send, Alerting!Fault
<1>3. /\ alert[p] \in Telling /\ alert[p].send \cap alert[p].mute = {}
      /\ alert[p] # Alerting!Idle /\ SentOf(alert[p]) = {}
  BY <1>1, AlertShapes DEF AlertsTyped, Alerting!Idle, SentOf
<1>4. /\ e \in Alerting!Entries /\ e.type = alert[p].type /\ e.muted = FALSE /\ e.stamp = stamp + 1
      /\ alert[p].type \in {"outage", "restored"}
  BY <1>3, AlertNumbers DEF Alerting!Entry, Alerting!Entries, AlertsTyped, Telling
<1>5. /\ Alerting!Event(p, FALSE) \in Events /\ Alerting!Event(p, FALSE).type = alert[p].type
      /\ Alerting!Event(p, FALSE).muted = FALSE
  BY <1>3, AlertNumbers DEF Alerting!Event, Events, AlertsTyped, Telling
<1> HIDE DEF e
<1>6. [user |-> u, entry |-> e] \in Alerting!InFlight
  BY <1>4 DEF Alerting!InFlight
<1>7. /\ g \in Telling /\ g.at = "alerting" /\ g.type = alert[p].type
      /\ g.sent = {[user |-> u, entry |-> e]} /\ g.send = alert[p].send \ {u} /\ g.mute = alert[p].mute
  BY <1>1, <1>3, <1>6 DEF Telling
<1>8. /\ h \in Telling /\ h.at = "alerting" /\ h.type = alert[p].type
      /\ h.sent = {} /\ h.send = alert[p].send \ {u} /\ h.mute = alert[p].mute
  BY <1>1, <1>3 DEF Telling
<1> HIDE DEF g, h
<1>9. /\ AlertSound(g) /\ SentOf(g) = {[user |-> u, entry |-> e]}
      /\ Restorees(g) \subseteq Restorees(alert[p]) /\ Alertees(g) \subseteq Alertees(alert[p]) \ {u}
  BY <1>1, <1>3, <1>7 DEF AlertSound, SentOf, Alertees, Restorees
<1>10. /\ AlertSound(h) /\ SentOf(h) = {}
       /\ Restorees(h) \subseteq Restorees(alert[p]) /\ Alertees(h) \subseteq Alertees(alert[p])
  BY <1>1, <1>3, <1>8 DEF AlertSound, SentOf, Alertees, Restorees
<1>11. /\ e.type = "restored" => u \in Restorees(alert[p])
       /\ e.type = "outage" => u \in Alertees(alert[p])
  BY <1>1, <1>4 DEF Alertees, Restorees
<1>12. CASE /\ told' = [told EXCEPT ![u] = Append(told[u], Alerting!Event(p, FALSE))]
            /\ alert' = [alert EXCEPT ![p] = g] /\ unsent' = unsent
  <2> DEFINE v == Alerting!Event(p, FALSE)
  <2>1. /\ v \in Events /\ v.type = e.type /\ v.muted = e.muted
        /\ told' = [told EXCEPT ![u] = Append(told[u], v)] /\ alert' = [alert EXCEPT ![p] = g]
    BY <1>3, <1>4, <1>5, <1>12
  <2>2. /\ AlertSound(g) /\ e \in Alerting!Entries /\ e.stamp = stamp + 1
        /\ log' = log /\ stamp' = stamp + 1 /\ unsent' = unsent
        /\ asking' = asking /\ down' = down /\ quiet' = quiet /\ flips' = flips
    BY <1>1, <1>4, <1>9, <1>12
  <2>3. /\ alert[p] # Alerting!Idle /\ SentOf(alert[p]) = {} /\ SentOf(g) = {[user |-> u, entry |-> e]}
        /\ Restorees(g) \subseteq Restorees(alert[p]) /\ Alertees(g) \subseteq Alertees(alert[p]) \ {u}
        /\ e.type = "restored" => u \in Restorees(alert[p])
        /\ e.type = "outage" => u \in Alertees(alert[p])
    BY <1>3, <1>9, <1>11
  <2> HIDE DEF v
  <2> QED  BY <2>1, <2>2, <2>3, SomebodyIsTold
<1>13. CASE /\ told' = told /\ alert' = [alert EXCEPT ![p] = h]
            /\ unsent < AlertFaults /\ unsent' = unsent + 1
  <2>1. stamp' \in Nat /\ stamp <= stamp' /\ unsent' \in 0..AlertFaults
    BY <1>1, <1>13, AlertNumbers DEF AlertsTyped
  <2>2. Informed => \A w \in Restorees(h) : Heard(w)
    BY <1>10 DEF Informed
  <2>3. Once => p = FirstUpdate /\ \A w \in Alertees(h) : ~Open(w)
    BY <1>3, <1>10 DEF Once
  <2> QED
    BY <1>1, <1>3, <1>10, <1>13, <2>1, <2>2, <2>3, NobodyIsTold
<1> QED
  BY <1>2, <1>12, <1>13

LEMMA UpdatesMute ==
    ASSUME AlertsTyped, NEW p \in AlertUpdates, NEW u \in AlertUsers, Alerting!Mute(p, u)
    PROVE  AlertsTyped' /\ (Informed => Informed') /\ (Once => Once')
<1> DEFINE e == Alerting!Entry(p, TRUE, FALSE)
           g == [alert[p] EXCEPT !.mute = alert[p].mute \ {u}, !.sent = {[user |-> u, entry |-> e]}]
<1>1. /\ alert[p].at = "alerting" /\ alert[p].sent = {} /\ u \in alert[p].mute
      /\ told' = [told EXCEPT ![u] = Append(told[u], Alerting!Event(p, TRUE))]
      /\ alert' = [alert EXCEPT ![p] = g] /\ unsent' = unsent
      /\ log' = log /\ stamp' = stamp + 1
      /\ asking' = asking /\ down' = down /\ quiet' = quiet /\ flips' = flips
  BY DEF Alerting!Mute
<1>2. /\ alert[p] \in Telling /\ alert[p].send \cap alert[p].mute = {}
      /\ alert[p] # Alerting!Idle /\ SentOf(alert[p]) = {}
  BY <1>1, AlertShapes DEF AlertsTyped, Alerting!Idle, SentOf
<1>3. /\ e \in Alerting!Entries /\ e.type = alert[p].type /\ e.muted = TRUE /\ e.stamp = stamp + 1
      /\ alert[p].type \in {"outage", "restored"}
  BY <1>2, AlertNumbers DEF Alerting!Entry, Alerting!Entries, AlertsTyped, Telling
<1>4. /\ Alerting!Event(p, TRUE) \in Events /\ Alerting!Event(p, TRUE).type = alert[p].type
      /\ Alerting!Event(p, TRUE).muted = TRUE
  BY <1>2, AlertNumbers DEF Alerting!Event, Events, AlertsTyped, Telling
<1> HIDE DEF e
<1>5. [user |-> u, entry |-> e] \in Alerting!InFlight
  BY <1>3 DEF Alerting!InFlight
<1>6. /\ g \in Telling /\ g.at = "alerting" /\ g.type = alert[p].type
      /\ g.sent = {[user |-> u, entry |-> e]} /\ g.send = alert[p].send /\ g.mute = alert[p].mute \ {u}
  BY <1>1, <1>2, <1>5 DEF Telling
<1> HIDE DEF g
<1>7. /\ AlertSound(g) /\ SentOf(g) = {[user |-> u, entry |-> e]}
      /\ Restorees(g) \subseteq Restorees(alert[p]) /\ Alertees(g) \subseteq Alertees(alert[p]) \ {u}
  BY <1>1, <1>2, <1>6 DEF AlertSound, SentOf, Alertees, Restorees
<1>8. /\ e.type = "restored" => u \in Restorees(alert[p])
      /\ e.type = "outage" => u \in Alertees(alert[p])
  BY <1>1, <1>3 DEF Alertees, Restorees
<1> QED
  BY <1>1, <1>2, <1>3, <1>4, <1>7, <1>8, SomebodyIsTold

(* The entry is not written: the user is not known to have been told.         *)
LEMMA EntriesFail ==
    ASSUME AlertsTyped, NEW p \in AlertUpdates, Alerting!LogFails(p)
    PROVE  AlertsTyped' /\ (Informed => Informed')
<1> DEFINE g == [alert[p] EXCEPT !.sent = {}]
<1>1. /\ alert[p].at = "alerting" /\ alert' = [alert EXCEPT ![p] = g]
      /\ unsent < AlertFaults /\ unsent' = unsent + 1
      /\ log' = log /\ told' = told /\ stamp' = stamp
      /\ asking' = asking /\ down' = down /\ quiet' = quiet /\ flips' = flips
  BY DEF Alerting!LogFails, Alerting!Fault
<1>2. alert[p] \in Telling /\ alert[p].send \cap alert[p].mute = {}
  BY <1>1, AlertShapes DEF AlertsTyped
<1>3. /\ g \in Telling /\ g.at = "alerting" /\ g.type = alert[p].type /\ g.sent = {}
      /\ g.send = alert[p].send /\ g.mute = alert[p].mute
  BY <1>1, <1>2 DEF Telling
<1> HIDE DEF g
<1>4. AlertSound(g) /\ SentOf(g) = {} /\ Restorees(g) = Restorees(alert[p])
  BY <1>1, <1>2, <1>3 DEF AlertSound, SentOf, Restorees
<1>5. stamp' \in Nat /\ stamp <= stamp' /\ unsent' \in 0..AlertFaults
  BY <1>1, AlertNumbers DEF AlertsTyped
<1>6. Informed => \A w \in Restorees(g) : Heard(w)
  BY <1>4 DEF Informed
<1> QED
  BY <1>1, <1>4, <1>5, <1>6, NobodyIsTold

(* The grid and the hour change, or nothing does.                             *)
LEMMA AlertsRest ==
    ASSUME AlertsTyped, UNCHANGED <<alert, log, told, stamp, asking, unsent>>,
           down' \in BOOLEAN, quiet' \in BOOLEAN, flips' \in 0..AlertFlips
    PROVE  AlertsTyped' /\ (Informed => Informed') /\ (Once => Once')
<1>1. AlertsTyped'
  BY DEF AlertsTyped
<1>2. Informed => Informed'
  BY DEF Informed, Known, Heard, Alerting!RestoredFollowsOutage, Alerting!Told
<1>3. Once => Once'
  BY DEF Once, Known, Latest, Open, Alerting!OutageToldOnce, Alerting!Told
<1> QED
  BY <1>1, <1>2, <1>3

LEMMA AlertsPreserve ==
    ASSUME AlertsTyped, Alerting!Next, AlertsNarrowed'
    PROVE  /\ AlertsTyped' /\ (Informed => Informed')
           /\ (part' = "alerts" /\ Logged /\ Once => Once')
<1>1. CASE Alerting!GridChanges \/ Alerting!NightChanges
  <2>1. UNCHANGED <<alert, log, told, stamp, asking, unsent>>
    BY <1>1 DEF Alerting!GridChanges, Alerting!NightChanges
  <2>2. down' \in BOOLEAN /\ quiet' \in BOOLEAN
    BY <1>1 DEF Alerting!GridChanges, Alerting!NightChanges, AlertsTyped
  <2>3. flips' \in 0..AlertFlips
    BY <1>1, AlertNumbers DEF Alerting!GridChanges, Alerting!NightChanges, AlertsTyped
  <2> QED
    BY <2>1, <2>2, <2>3, AlertsRest
<1>2. CASE Alerting!Tick
  BY <1>2, TimePasses
<1>3. ASSUME NEW p \in AlertUpdates, Alerting!Proceed(p) \/ Alerting!Cancelled(p)
      PROVE  /\ AlertsTyped' /\ (Informed => Informed')
             /\ (part' = "alerts" /\ Logged /\ Once => Once')
  <2>1. CASE Alerting!LogFails(p)
    <3>1. ~Logged
      BY <2>1 DEF Logged
    <3> QED
      BY <2>1, <3>1, EntriesFail
  <2>2. CASE Alerting!Begin(p)
    BY <2>2, UpdatesBegin
  <2>3. CASE Alerting!Evaluate(p) \/ Alerting!Verify(p) \/ Alerting!AppendLog(p)
    BY <2>3, UpdatesEvaluate, UpdatesVerify, EntriesAreLogged
  <2>4. CASE Alerting!Finish(p) \/ Alerting!Cancelled(p)
    BY <2>4, UpdatesEnd
  <2>5. CASE \E u \in AlertUsers : Alerting!Send(p, u) \/ Alerting!Mute(p, u)
    BY <2>5, UpdatesSend, UpdatesMute
  <2> QED
    BY <1>3, <2>1, <2>2, <2>3, <2>4, <2>5 DEF Alerting!Proceed
<1> QED
  BY <1>1, <1>2, <1>3 DEF Alerting!Next

LEMMA AlertsStart == PartsInit => AlertsSound
<1> SUFFICES ASSUME PartsInit PROVE AlertsSound
  OBVIOUS
<1>1. /\ down = FALSE /\ quiet = FALSE /\ asking \in SUBSET AlertUsers
      /\ log = [u \in AlertUsers |-> {}] /\ alert = [p \in AlertUpdates |-> Alerting!Idle]
      /\ stamp = 0 /\ told = [u \in AlertUsers |-> <<>>] /\ flips = 0 /\ unsent = 0
  BY DEF PartsInit, Alerting!Init
<1>2. /\ AlertSound(Alerting!Idle) /\ SentOf(Alerting!Idle) = {}
      /\ Alertees(Alerting!Idle) = {} /\ Restorees(Alerting!Idle) = {}
  BY DEF AlertSound, SentOf, Alertees, Restorees, Alerting!Idle
<1>3. AlertsTyped
  <2>1. told \in [AlertUsers -> Seq(Events)]
    <3>1. <<>> \in Seq(Events)
      OBVIOUS
    <3> QED
      BY <1>1, <3>1
  <2>2. log \in [AlertUsers -> SUBSET Alerting!Entries]
    BY <1>1
  <2>3. DOMAIN alert = AlertUpdates /\ \A p \in AlertUpdates : AlertSound(alert[p])
    BY <1>1, <1>2, Zenon
  <2>4. down \in BOOLEAN /\ quiet \in BOOLEAN /\ asking \subseteq AlertUsers
    BY <1>1
  <2>5. stamp \in Nat /\ flips \in 0..AlertFlips /\ unsent \in 0..AlertFaults
    BY <1>1, AlertNumbers
  <2> QED
    BY <2>1, <2>2, <2>3, <2>4, <2>5 DEF AlertsTyped
<1>4. \A u \in AlertUsers : DOMAIN told[u] = {} /\ \A e : ~Known(u, e)
  BY <1>1, <1>2 DEF Known
<1>5. Informed
  BY <1>1, <1>2, <1>4 DEF Informed, Alerting!RestoredFollowsOutage
<1>6. Once
  BY <1>1, <1>2, <1>4 DEF Once, Open, Alerting!OutageToldOnce
<1> QED
  BY <1>3, <1>5, <1>6 DEF AlertsSound

LEMMA AlertsStep == AlertsSound /\ [PartsNext]_vars => AlertsSound'
<1> SUFFICES ASSUME AlertsTyped, part \in OfAlerts => Informed, part = "alerts" => Once, [PartsNext]_vars
             PROVE  AlertsTyped' /\ (part' \in OfAlerts => Informed') /\ (part' = "alerts" => Once')
  BY DEF AlertsSound
<1>1. CASE part' = part /\ UNCHANGED alerts
  <2>1. UNCHANGED <<alert, log, told, stamp, asking, unsent>> /\ down' = down /\ quiet' = quiet /\ flips' = flips
    BY <1>1 DEF alerts
  <2>2. down' \in BOOLEAN /\ quiet' \in BOOLEAN /\ flips' \in 0..AlertFlips
    BY <2>1 DEF AlertsTyped
  <2> QED
    BY <1>1, <2>1, <2>2, AlertsRest
<1>2. CASE part = "alerts" /\ ForAlerts(Alerting!Next) /\ Logged
  BY <1>2, AlertsPreserve DEF ForAlerts, OfAlerts
<1>3. CASE part = "pairs" /\ ForAlerts(Alerting!Next)
  BY <1>3, AlertsPreserve DEF ForAlerts, OfAlerts
<1>4. CASE UNCHANGED vars
  BY <1>4, <1>1 DEF vars
<1>5. CASE PartsNext
  BY <1>5, <1>1, <1>2, <1>3 DEF PartsNext, ForUpdates, ForHistory, ForJobs, ForDocument
<1> QED
  BY <1>4, <1>5

LEMMA AlertsHold == AlertsSound => OutagesInv
<1> SUFFICES ASSUME AlertsTyped, part \in OfAlerts => Informed, part = "alerts" => Once
             PROVE  OutagesInv
  BY DEF AlertsSound
<1>1. Alerting!TypeOK
  <2>1. ASSUME NEW p \in AlertUpdates, alert[p] # Alerting!Idle
        PROVE  /\ alert[p].at \in {"read", "waiting", "alerting"} /\ alert[p].sweep \in BOOLEAN
               /\ (alert[p].at = "read" => alert[p].down \in BOOLEAN)
               /\ (alert[p].at = "waiting" => alert[p].left \in 0..AlertDelay)
               /\ (alert[p].at = "alerting" =>
                    \/ alert[p].sent = {}
                    \/ \E f \in alert[p].sent : alert[p].sent = {f} /\ f.user \in AlertUsers
                                                /\ f.entry \in Alerting!Entries)
               /\ (alert[p].at \in {"waiting", "alerting"} =>
                    alert[p].send \union alert[p].mute \subseteq AlertUsers)
    <3>1. AlertSound(alert[p])
      BY DEF AlertsTyped
    <3>2. CASE alert[p] \in Read
      BY <3>2 DEF Read
    <3>3. CASE alert[p] \in Waiting
      BY <3>3 DEF Waiting
    <3>4. CASE alert[p] \in Telling /\ \A f, h \in alert[p].sent : f = h
      BY <3>4 DEF Telling, Alerting!InFlight
    <3> QED
      BY <2>1, <3>1, <3>2, <3>3, <3>4 DEF AlertSound
  <2>2. \A u \in AlertUsers : log[u] \subseteq Alerting!Entries
    BY DEF AlertsTyped
  <2>3. \A u \in AlertUsers : \A i \in DOMAIN told[u] : told[u][i].type \in {"outage", "restored"}
    <3>1. \A u \in AlertUsers : told[u] \in Seq(Events)
      BY DEF AlertsTyped
    <3>2. \A u \in AlertUsers : \A i \in DOMAIN told[u] : told[u][i] \in Events
      BY <3>1
    <3> QED
      BY <3>2 DEF Events
  <2> QED
    BY <2>1, <2>2, <2>3 DEF Alerting!TypeOK, AlertsTyped
<1>2. OutageToldOnce /\ RestoredFollowsOutage
  BY DEF OutageToldOnce, RestoredFollowsOutage, Once, Informed
<1> QED
  BY <1>1, <1>2 DEF OutagesInv

(* No user is told twice of one outage where one update runs at a time and    *)
(* what was pushed is logged, though pushes are lost, clients go away and     *)
(* nights fall; and the end of an outage is told only to users who were told  *)
(* of one, or were spared that at night, with any number of updates at once   *)
(* and entries that are not logged (server/notifications.go,                  *)
(* handleGridOutageNotifications).                                            *)
THEOREM OutagesAreToldOnce == PartsSpec => []OutagesInv
<1>1. PartsSpec => []AlertsSound
  BY AlertsStart, AlertsStep, PTL DEF PartsSpec
<1> QED
  BY <1>1, AlertsHold, PTL

-----------------------------------------------------------------------------
(* The history. The parts differ in their days, bounds and faults: what a    *)
(* step does is said for n days, an update that goes back lb days at least,  *)
(* and a month that ends with day me.                                        *)
DayParts(n) == [0..(n - 1) -> 0..3]
Nothing(n) == [d \in 0..(n - 1) |-> 0]
Top(n, parts) ==
    IF \E d \in 0..(n - 1) : parts[d] > 0
    THEN CHOOSE d \in 0..(n - 1) : parts[d] > 0 /\ \A e \in 0..(n - 1) : parts[e] > 0 => e <= d
    ELSE -1

LEMMA TopIs ==
    ASSUME NEW n \in Nat, NEW parts \in DayParts(n)
    PROVE  /\ Top(n, parts) \in Int /\ -1 <= Top(n, parts) /\ Top(n, parts) < n
           /\ Top(n, parts) >= 0 => Top(n, parts) \in 0..(n - 1) /\ parts[Top(n, parts)] > 0
           /\ \A d \in 0..(n - 1) : parts[d] > 0 => d <= Top(n, parts)
<1> DEFINE S == {d \in 0..(n - 1) : parts[d] > 0}
<1>1. CASE S = {}
  <2>1. ~\E d \in 0..(n - 1) : parts[d] > 0  BY <1>1
  <2>2. Top(n, parts) = -1  BY <2>1 DEF Top
  <2> QED  BY <2>1, <2>2
<1>2. CASE S # {}
  <2> DEFINE Left == {k \in Nat : n - k \in S}
             R == {ss \in Nat \X Nat : ss[1] < ss[2]}
  <2>1. IsWellFoundedOn(R, Nat)  BY NatLessThanWellFounded DEF OpToRel
  <2>2. Left # {} /\ Left \in SUBSET Nat
    <3>1. PICK d \in S : TRUE  BY <1>2
    <3>2. n - d \in Nat /\ n - (n - d) = d  BY <3>1
    <3>3. n - d \in Left  BY <3>1, <3>2
    <3> QED  BY <3>3
  <2>3. PICK k \in Left : \A m \in Left : <<m, k>> \notin R
    <3> HIDE DEF R, Left
    <3> QED  BY <2>1, <2>2, WFMin
  <2>4. n - k \in S /\ \A e \in S : e <= n - k
    <3>1. n - k \in S /\ k \in Nat  OBVIOUS
    <3>2. ASSUME NEW e \in S PROVE e <= n - k
      <4>1. n - e \in Nat /\ n - (n - e) = e  OBVIOUS
      <4>2. n - e \in Left  BY <4>1, <3>2
      <4>3. ~(n - e < k)  BY <2>3, <4>2, <3>1
      <4> QED  BY <3>1, <4>1, <4>3
    <3> QED  BY <3>1, <3>2
  <2>5. \E d \in 0..(n - 1) : parts[d] > 0 /\ \A e \in 0..(n - 1) : parts[e] > 0 => e <= d
    <3>1. n - k \in 0..(n - 1) /\ parts[n - k] > 0  BY <2>4
    <3>2. \A e \in 0..(n - 1) : parts[e] > 0 => e <= n - k  BY <2>4
    <3> QED  BY <3>1, <3>2
  <2>6. \E d \in 0..(n - 1) : parts[d] > 0  BY <2>5
  <2>7. Top(n, parts) = CHOOSE d \in 0..(n - 1) : parts[d] > 0 /\ \A e \in 0..(n - 1) : parts[e] > 0 => e <= d
    BY <2>6 DEF Top
  <2>8. /\ Top(n, parts) \in 0..(n - 1) /\ parts[Top(n, parts)] > 0
        /\ \A e \in 0..(n - 1) : parts[e] > 0 => e <= Top(n, parts)
    BY <2>5, <2>7
  <2> QED  BY <2>8
<1> QED  BY <1>1, <1>2

(* With more days, or the same, in store the last of them is no earlier.      *)
LEMMA TopGrows ==
    ASSUME NEW n \in Nat, NEW old \in DayParts(n), NEW new \in DayParts(n),
           \A d \in 0..(n - 1) : old[d] > 0 => new[d] > 0
    PROVE  Top(n, old) <= Top(n, new)
<1> DEFINE a == Top(n, old)
           b == Top(n, new)
<1>1. a \in Int /\ -1 <= a /\ (a >= 0 => a \in 0..(n - 1) /\ old[a] > 0)  BY TopIs
<1>2. b \in Int /\ -1 <= b /\ \A d \in 0..(n - 1) : new[d] > 0 => d <= b  BY TopIs
<1> HIDE DEF a, b
<1>3. a >= 0 => a <= b  BY <1>1, <1>2
<1> QED  BY <1>1, <1>2, <1>3 DEF a, b

-----------------------------------------------------------------------------
(* Where an update of the history is.                                        *)
Rest == Delayed!Idle
SyncPhases == {"fetched", "synced", "commit", "combine", "given"}
Syncs(n) == [at : SyncPhases, over : BOOLEAN, left : SUBSET {1, 2}, sums : DayParts(n), data : DayParts(n)]
Sync(at, over, left, sums, data) ==
    [at |-> at, over |-> over, left |-> left, sums |-> sums, data |-> data]

HistoryTyped(U, n, F) ==
    /\ now \in 0..(3 * n - 1) /\ delivered \in 3..now
    /\ stored \in DayParts(n) /\ summary \in DayParts(n) /\ ran \in BOOLEAN /\ missed \in 0..F
    /\ sync \in [U -> {Rest} \cup Syncs(n)]

LEMMA RestIs == Rest.at = "idle" /\ \A n : \A s \in Syncs(n) : s # Rest
<1>1. Rest.at = "idle"  BY DEF Rest, Delayed!Idle
<1> QED  BY <1>1 DEF Syncs, SyncPhases

LEMMA SyncIs ==
    ASSUME NEW n, NEW at \in SyncPhases, NEW over \in BOOLEAN, NEW left \in SUBSET {1, 2},
           NEW sums \in DayParts(n), NEW data \in DayParts(n)
    PROVE  /\ Sync(at, over, left, sums, data) \in Syncs(n)
           /\ Sync(at, over, left, sums, data).at = at /\ Sync(at, over, left, sums, data).over = over
           /\ Sync(at, over, left, sums, data).left = left /\ Sync(at, over, left, sums, data).sums = sums
           /\ Sync(at, over, left, sums, data).data = data
<1> QED  BY DEF Sync, Syncs

LEMMA SyncFields ==
    ASSUME NEW n, NEW s \in Syncs(n)
    PROVE  /\ s.at \in SyncPhases /\ s.over \in BOOLEAN /\ s.left \in SUBSET {1, 2}
           /\ s.sums \in DayParts(n) /\ s.data \in DayParts(n)
           /\ s = [f \in {"at", "over", "left", "sums", "data"} |-> s[f]]
<1> QED  BY DEF Syncs
LEMMA SyncWhole ==
    ASSUME NEW a, NEW o, NEW l, NEW m, NEW d
    PROVE  Sync(a, o, l, m, d) = [f \in {"at", "over", "left", "sums", "data"} |->
               IF f = "at" THEN a ELSE IF f = "over" THEN o ELSE IF f = "left" THEN l
               ELSE IF f = "sums" THEN m ELSE d]
<1> QED  BY DEF Sync

-----------------------------------------------------------------------------
(* What the steps do.                                                        *)
Changes(u, s) == sync' = [sync EXCEPT ![u] = s]
SyncFrom(n, lb) == IF Top(n, stored) > now \div 3 - lb THEN Top(n, stored) ELSE now \div 3 - lb
Arrived(d) == IF delivered < 3 * d THEN 0 ELSE IF delivered >= 3 * d + 2 THEN 3 ELSE delivered - 3 * d + 1
Given(n, lb) == [d \in 0..(n - 1) |-> IF d >= SyncFrom(n, lb) /\ d <= now \div 3 THEN Arrived(d) ELSE 0]
Eligible(d) == stored[d] = 3 \/ now >= 3 * (d + 1) + 1
Completed(n, from) == {d \in 0..(n - 1) : d >= from /\ d < now \div 3 /\ \A e \in from..d : Eligible(e)}
MonthOf(me, d) == IF d <= me THEN 1 ELSE 2
Replaced(n, days, old, new) == [d \in 0..(n - 1) |-> IF d \in days THEN new[d] ELSE old[d]]
MonthMerged(n, me, old, new, m) ==
    [d \in 0..(n - 1) |-> IF MonthOf(me, d) = m /\ new[d] > 0 THEN new[d] ELSE old[d]]
Without(left, m) == left \ {m}
Filled(n, old, new) == [d \in 0..(n - 1) |-> IF new[d] > 0 THEN new[d] ELSE old[d]]
Fails(F) == missed < F /\ missed' = missed + 1

Elapses(U, n, F) ==
    /\ now + 1 < 3 * n /\ now' = now + 1 /\ ran = TRUE /\ ran' = FALSE
    /\ \A u \in U : sync[u] # Rest => sync[u].over = FALSE
    /\ sync' = [u \in U |-> IF sync[u] = Rest THEN Rest ELSE
                    Sync(sync[u].at, TRUE, sync[u].left, sync[u].sums, sync[u].data)]
    /\ (delivered' = now + 1 /\ missed' = missed) \/ (Fails(F) /\ delivered' = delivered)
    /\ stored' = stored /\ summary' = summary
Fetches(u, n, lb) ==
    /\ sync[u] = Rest /\ Changes(u, Sync("fetched", FALSE, {}, Nothing(n), Given(n, lb)))
    /\ missed' = missed /\ UNCHANGED <<now, delivered, stored, summary, ran>>
FetchFails(u, n, F) ==
    /\ sync[u] = Rest /\ Changes(u, Sync("synced", FALSE, {}, Nothing(n), Nothing(n)))
    /\ Fails(F) /\ UNCHANGED <<now, delivered, stored, summary, ran>>
Stores(u, n, days) ==
    /\ sync[u].at = "fetched" /\ \A d \in days : sync[u].data[d] > 0
    /\ stored' = Replaced(n, days, stored, sync[u].data)
    /\ Changes(u, Sync("synced", sync[u].over, sync[u].left, sync[u].sums, Nothing(n)))
    /\ UNCHANGED <<now, delivered, summary, ran>>
StoresAll(u, n) ==
    /\ missed' = missed
    /\ \E days \in SUBSET (0..(n - 1)) : Stores(u, n, days) /\ \A d \in 0..(n - 1) : sync[u].data[d] > 0 => d \in days
StoresSome(u, n, F) == Fails(F) /\ \E days \in SUBSET (0..(n - 1)) : Stores(u, n, days)
MonthsOf(me, days) == {MonthOf(me, d) : d \in days}
StoredOf(n, days) == [d \in 0..(n - 1) |-> IF d \in days THEN stored[d] ELSE 0]
Unsummarised(n) == Completed(n, Top(n, summary) + 1)
Summarises(u, n, me) ==
    /\ sync[u].at = "synced" /\ Changes(u, Sync("commit", sync[u].over, MonthsOf(me, Unsummarised(n)), summary,
                                                 StoredOf(n, Unsummarised(n))))
    /\ missed' = missed /\ UNCHANGED <<now, delivered, stored, summary, ran>>
Commits(u, n, me, m) ==
    /\ sync[u].at = "commit" /\ m \in sync[u].left
    /\ summary' = MonthMerged(n, me, summary, sync[u].data, m)
    /\ Changes(u, Sync("commit", sync[u].over, Without(sync[u].left, m), sync[u].sums, sync[u].data))
    /\ missed' = missed /\ UNCHANGED <<now, delivered, stored, ran>>
CommitFails(u, n, F) ==
    /\ sync[u].at = "commit"
    /\ Changes(u, Sync("combine", sync[u].over, {}, sync[u].sums, Nothing(n)))
    /\ Fails(F) /\ UNCHANGED <<now, delivered, stored, summary, ran>>
Committed(u, n) ==
    /\ sync[u].at = "commit" /\ sync[u].left = {}
    /\ Changes(u, Sync("combine", sync[u].over, sync[u].left,
                       Filled(n, sync[u].sums, sync[u].data), Nothing(n)))
    /\ missed' = missed /\ UNCHANGED <<now, delivered, stored, summary, ran>>
Combines(u, n) ==
    /\ sync[u].at = "combine"
    /\ \E data \in DayParts(n) : Changes(u, Sync("given", sync[u].over, sync[u].left, sync[u].sums, data))
    /\ missed' = missed /\ UNCHANGED <<now, delivered, stored, summary, ran>>
Finishes(u) ==
    /\ sync[u].at = "given" /\ Changes(u, Rest) /\ ran' = TRUE
    /\ missed' = missed /\ UNCHANGED <<now, delivered, stored, summary>>

Moves(u, n, me, lb) ==
    \/ Fetches(u, n, lb) \/ StoresAll(u, n) \/ Summarises(u, n, me)
    \/ (\E m \in {1, 2} : Commits(u, n, me, m)) \/ Committed(u, n) \/ Combines(u, n) \/ Finishes(u)

LEMMA SyncLeft ==
    ASSUME NEW U, NEW n, sync \in [U -> {Rest} \cup Syncs(n)], NEW u \in U, sync[u] # Rest, NEW l
    PROVE  [sync EXCEPT ![u].left = l] = [sync EXCEPT ![u] = Sync(sync[u].at, sync[u].over, l, sync[u].sums, sync[u].data)]
<1> DEFINE s == sync[u]
           r == [s EXCEPT !.left = l]
<1>1. s \in Syncs(n)  OBVIOUS
<1>2. s = [f \in {"at", "over", "left", "sums", "data"} |-> s[f]]  BY <1>1, SyncFields
<1>3. Sync(s.at, s.over, l, s.sums, s.data) = [f \in {"at", "over", "left", "sums", "data"} |-> IF f = "left" THEN l ELSE s[f]]
  BY SyncWhole
<1>4. r = Sync(s.at, s.over, l, s.sums, s.data)  BY <1>2, <1>3
<1>5. [sync EXCEPT ![u].left = l] = [sync EXCEPT ![u] = r]  OBVIOUS
<1> QED  BY <1>4, <1>5
LEMMA SyncGoes ==
    ASSUME NEW U, NEW n, sync \in [U -> {Rest} \cup Syncs(n)], NEW u \in U, sync[u] # Rest, NEW a, NEW d
    PROVE  [sync EXCEPT ![u].at = a, ![u].data = d] = [sync EXCEPT ![u] = Sync(a, sync[u].over, sync[u].left, sync[u].sums, d)]
<1> DEFINE s == sync[u]
           r == [s EXCEPT !.at = a, !.data = d]
<1>1. s \in Syncs(n)  OBVIOUS
<1>2. s = [f \in {"at", "over", "left", "sums", "data"} |-> s[f]]  BY <1>1, SyncFields
<1>3. Sync(a, s.over, s.left, s.sums, d) = [f \in {"at", "over", "left", "sums", "data"} |-> IF f = "at" THEN a ELSE IF f = "data" THEN d ELSE s[f]]
  BY SyncWhole
<1>4. r = Sync(a, s.over, s.left, s.sums, d)  BY <1>2, <1>3
<1>5. [sync EXCEPT ![u].at = a, ![u].data = d] = [sync EXCEPT ![u] = r]  OBVIOUS
<1> QED  BY <1>4, <1>5
LEMMA SyncOver ==
    ASSUME NEW n, NEW s \in Syncs(n)
    PROVE  [s EXCEPT !.over = TRUE] = Sync(s.at, TRUE, s.left, s.sums, s.data)
<1>1. s = [f \in {"at", "over", "left", "sums", "data"} |-> s[f]]  BY SyncFields
<1>2. Sync(s.at, TRUE, s.left, s.sums, s.data) =
          [f \in {"at", "over", "left", "sums", "data"} |-> IF f = "over" THEN TRUE ELSE s[f]]
  BY SyncWhole
<1> QED  BY <1>1, <1>2

-----------------------------------------------------------------------------
(* The types of the history, kept by every step.                             *)
LEMMA ChangesAre ==
    ASSUME NEW U, NEW n, sync \in [U -> {Rest} \cup Syncs(n)], NEW u \in U, NEW s \in {Rest} \cup Syncs(n),
           Changes(u, s)
    PROVE  /\ sync' \in [U -> {Rest} \cup Syncs(n)] /\ sync'[u] = s
           /\ \A w \in U : w # u => sync'[w] = sync[w]
<1> QED  BY DEF Changes

LEMMA NothingIs ==
    ASSUME NEW n \in Nat
    PROVE  Nothing(n) \in DayParts(n) /\ \A d \in 0..(n - 1) : Nothing(n)[d] = 0
<1> QED  BY DEF Nothing, DayParts

LEMMA DayOf ==
    ASSUME NEW k \in Nat
    PROVE  k \div 3 \in Nat /\ 3 * (k \div 3) <= k /\ k <= 3 * (k \div 3) + 2
<1> QED  OBVIOUS

LEMMA ArrivedIs ==
    ASSUME NEW d \in Nat, delivered \in Int
    PROVE  /\ Arrived(d) \in 0..3
           /\ Arrived(d) > 0 => 3 * d + Arrived(d) - 1 <= delivered
           /\ delivered >= 3 * d + 2 => Arrived(d) = 3
           /\ delivered >= 3 * d /\ delivered <= 3 * d + 2 => Arrived(d) = delivered - 3 * d + 1
<1>1. CASE delivered < 3 * d  BY <1>1 DEF Arrived
<1>2. CASE delivered >= 3 * d + 2  BY <1>2 DEF Arrived
<1>3. CASE delivered = 3 * d  BY <1>3 DEF Arrived
<1>4. CASE delivered = 3 * d + 1  BY <1>4 DEF Arrived
<1> QED  BY <1>1, <1>2, <1>3, <1>4

LEMMA GivenTyped ==
    ASSUME NEW n \in Nat, NEW lb \in Nat, now \in Nat, delivered \in Int, stored \in DayParts(n)
    PROVE  /\ Given(n, lb) \in DayParts(n)
           /\ SyncFrom(n, lb) \in Int /\ SyncFrom(n, lb) >= Top(n, stored)
           /\ \A d \in 0..(n - 1) :
                  /\ Given(n, lb)[d] > 0 => d >= SyncFrom(n, lb) /\ 3 * d <= now /\ Given(n, lb)[d] = Arrived(d)
                  /\ d >= SyncFrom(n, lb) /\ 3 * d <= now => Given(n, lb)[d] = Arrived(d)
<1> DEFINE t == now \div 3
           from == SyncFrom(n, lb)
<1>1. t \in Nat /\ 3 * t <= now /\ now <= 3 * t + 2  BY DayOf
<1>2. Top(n, stored) \in Int  BY TopIs
<1>3. from = IF Top(n, stored) > t - lb THEN Top(n, stored) ELSE t - lb  BY DEF SyncFrom
<1> HIDE DEF t
<1>4. from \in Int /\ from >= Top(n, stored)  BY <1>1, <1>2, <1>3
<1>5. Given(n, lb) = [d \in 0..(n - 1) |-> IF d >= from /\ d <= t THEN Arrived(d) ELSE 0]
  BY DEF Given, t
<1> HIDE DEF from
<1>6. \A d \in 0..(n - 1) : Arrived(d) \in 0..3  BY ArrivedIs
<1>7. Given(n, lb) \in DayParts(n)  BY <1>5, <1>6 DEF DayParts
<1>8. ASSUME NEW d \in 0..(n - 1)
      PROVE  /\ Given(n, lb)[d] > 0 => d >= from /\ 3 * d <= now /\ Given(n, lb)[d] = Arrived(d)
             /\ d >= from /\ 3 * d <= now => Given(n, lb)[d] = Arrived(d)
  <2>1. Given(n, lb)[d] = IF d >= from /\ d <= t THEN Arrived(d) ELSE 0  BY <1>5
  <2>2. 3 * d <= now <=> d <= t  BY <1>1
  <2> HIDE DEF t
  <2> QED  BY <2>1, <2>2
<1> QED  BY <1>4, <1>7, <1>8 DEF from

LEMMA ReplacedTyped ==
    ASSUME NEW n, NEW days, NEW old \in DayParts(n), NEW new \in DayParts(n)
    PROVE  Replaced(n, days, old, new) \in DayParts(n)
<1> QED  BY DEF Replaced, DayParts
LEMMA MergedTyped ==
    ASSUME NEW n, NEW me, NEW m, NEW old \in DayParts(n), NEW new \in DayParts(n)
    PROVE  MonthMerged(n, me, old, new, m) \in DayParts(n)
<1> QED  BY DEF MonthMerged, DayParts
LEMMA FilledTyped ==
    ASSUME NEW n, NEW old \in DayParts(n), NEW new \in DayParts(n)
    PROVE  Filled(n, old, new) \in DayParts(n)
<1> QED  BY DEF Filled, DayParts

LEMMA TimeTyped ==
    ASSUME NEW U, NEW n \in Nat, NEW F \in Nat, HistoryTyped(U, n, F), Elapses(U, n, F)
    PROVE  HistoryTyped(U, n, F)'
<1>1. sync' \in [U -> {Rest} \cup Syncs(n)]
  <2>1. \A u \in U : sync[u] = Rest \/ sync[u] \in Syncs(n)  BY DEF HistoryTyped
  <2>2. ASSUME NEW u \in U, sync[u] # Rest
        PROVE  Sync(sync[u].at, TRUE, sync[u].left, sync[u].sums, sync[u].data) \in Syncs(n)
    <3>1. sync[u] \in Syncs(n)  BY <2>1, <2>2
    <3> QED  BY <3>1, SyncFields, SyncIs
  <2> QED  BY <2>2 DEF Elapses
<1>2. now' \in 0..(3 * n - 1) /\ delivered' \in 3..now' /\ missed' \in 0..F
  BY DEF HistoryTyped, Elapses, Fails
<1> QED  BY <1>1, <1>2 DEF HistoryTyped, Elapses

LEMMA StoresTyped ==
    ASSUME NEW U, NEW n \in Nat, NEW F, HistoryTyped(U, n, F), NEW u \in U, NEW days, Stores(u, n, days)
    PROVE  /\ stored' \in DayParts(n)
           /\ sync[u] \in Syncs(n) /\ sync[u].data \in DayParts(n)
           /\ sync' \in [U -> {Rest} \cup Syncs(n)]
           /\ sync'[u] = Sync("synced", sync[u].over, sync[u].left, sync[u].sums, Nothing(n))
           /\ \A w \in U : w # u => sync'[w] = sync[w]
<1>1. sync[u] \in Syncs(n)  BY RestIs DEF Stores, HistoryTyped
<1>2. sync[u].data \in DayParts(n)  BY <1>1, SyncFields
<1>3. stored' \in DayParts(n)  BY <1>2, ReplacedTyped DEF Stores, HistoryTyped
<1>4. Sync("synced", sync[u].over, sync[u].left, sync[u].sums, Nothing(n)) \in Syncs(n)
  BY <1>1, SyncFields, SyncIs, NothingIs DEF SyncPhases
<1> HIDE DEF Rest
<1> DEFINE s == Sync("synced", sync[u].over, sync[u].left, sync[u].sums, Nothing(n))
<1>5. Changes(u, s) /\ s \in {Rest} \cup Syncs(n)  BY <1>4 DEF Stores
<1> HIDE DEF s
<1>6. /\ sync' \in [U -> {Rest} \cup Syncs(n)] /\ sync'[u] = s
      /\ \A w \in U : w # u => sync'[w] = sync[w]
  BY <1>5, ChangesAre DEF HistoryTyped
<1> QED  BY <1>1, <1>2, <1>3, <1>6 DEF s

LEMMA SyncParts ==
    ASSUME NEW a, NEW o, NEW l, NEW m, NEW d
    PROVE  /\ Sync(a, o, l, m, d).at = a /\ Sync(a, o, l, m, d).over = o /\ Sync(a, o, l, m, d).left = l
           /\ Sync(a, o, l, m, d).sums = m /\ Sync(a, o, l, m, d).data = d
<1> QED  BY DEF Sync

LEMMA FetchesTyped ==
    ASSUME NEW U, NEW n \in Nat, NEW F \in Nat, HistoryTyped(U, n, F), NEW u \in U, NEW lb \in Nat, Fetches(u, n, lb)
    PROVE  /\ HistoryTyped(U, n, F)'
           /\ \A w \in U : w # u => sync'[w] = sync[w]
<1> DEFINE s == Sync("fetched", FALSE, {}, Nothing(n), Given(n, lb))
<1>t. /\ now \in 0..(3 * n - 1) /\ delivered \in 3..now /\ missed \in 0..F /\ ran \in BOOLEAN
      /\ stored \in DayParts(n) /\ summary \in DayParts(n) /\ sync \in [U -> {Rest} \cup Syncs(n)]
  BY DEF HistoryTyped
<1>2. Nothing(n) \in DayParts(n)  BY NothingIs
<1>g. Given(n, lb) \in DayParts(n)
  <2>1. now \in Nat /\ delivered \in Int  BY <1>t
  <2> QED  BY <1>t, <2>1, GivenTyped
<1>3. s \in Syncs(n)
  <2>1. "fetched" \in SyncPhases /\ FALSE \in BOOLEAN /\ {} \in SUBSET {1, 2}  BY DEF SyncPhases
  <2> QED  BY <1>2, <1>g, <2>1, SyncIs, Zenon
<1>4. Changes(u, s)  BY DEF Fetches
<1> HIDE DEF s
<1>5. /\ sync' \in [U -> {Rest} \cup Syncs(n)] /\ sync'[u] = s
      /\ \A w \in U : w # u => sync'[w] = sync[w]
  BY <1>t, <1>3, <1>4, ChangesAre
<1>6. missed' \in 0..F /\ ran' = ran /\ now' = now /\ delivered' = delivered /\ stored' = stored
  BY <1>t DEF Fetches, Fails
<1>7. summary' \in DayParts(n)  BY <1>t DEF Fetches
<1>8. HistoryTyped(U, n, F)'  BY <1>t, <1>5, <1>6, <1>7 DEF HistoryTyped
<1> QED  BY <1>5, <1>8

LEMMA OneFetches ==
    ASSUME NEW n \in Nat, NEW F \in Nat, HistoryTyped({1}, n, F), NEW lb \in Nat, Fetches(1, n, lb)
    PROVE  HistoryTyped({1}, n, F)' /\ sync'[1] = Sync("fetched", FALSE, {}, Nothing(n), Given(n, lb))
<1>1. 1 \in {1}  OBVIOUS
<1>2. HistoryTyped({1}, n, F)'  BY <1>1, FetchesTyped
<1>3. sync'[1] = Sync("fetched", FALSE, {}, Nothing(n), Given(n, lb))  BY DEF Fetches, Changes, HistoryTyped
<1> QED  BY <1>2, <1>3

LEMMA SomeFetches ==
    ASSUME NEW U, NEW n \in Nat, HistoryTyped(U, n, 0), NEW u \in U, NEW lb \in Nat, Fetches(u, n, lb)
    PROVE  HistoryTyped(U, n, 0)' /\ \A w \in U : w # u => sync'[w] = sync[w]
<1>1. 0 \in Nat  OBVIOUS
<1> QED  BY <1>1, FetchesTyped

LEMMA FetchFailsTyped ==
    ASSUME NEW U, NEW n \in Nat, NEW F \in Nat, HistoryTyped(U, n, F), NEW u \in U, FetchFails(u, n, F)
    PROVE  /\ HistoryTyped(U, n, F)'
           /\ sync'[u] = Sync("synced", FALSE, {}, Nothing(n), Nothing(n))
           /\ \A w \in U : w # u => sync'[w] = sync[w]
<1> DEFINE s == Sync("synced", FALSE, {}, Nothing(n), Nothing(n))
<1>t. /\ now \in 0..(3 * n - 1) /\ delivered \in 3..now /\ missed \in 0..F /\ ran \in BOOLEAN
      /\ stored \in DayParts(n) /\ summary \in DayParts(n) /\ sync \in [U -> {Rest} \cup Syncs(n)]
  BY DEF HistoryTyped
<1>2. Nothing(n) \in DayParts(n)  BY NothingIs
<1>3. s \in Syncs(n)
  <2>1. "synced" \in SyncPhases /\ FALSE \in BOOLEAN /\ {} \in SUBSET {1, 2}  BY DEF SyncPhases
  <2> QED  BY <1>2, <2>1, SyncIs, Zenon
<1>4. Changes(u, s)  BY DEF FetchFails
<1> HIDE DEF s
<1>5. /\ sync' \in [U -> {Rest} \cup Syncs(n)] /\ sync'[u] = s
      /\ \A w \in U : w # u => sync'[w] = sync[w]
  BY <1>t, <1>3, <1>4, ChangesAre
<1>6. missed' \in 0..F /\ ran' = ran /\ now' = now /\ delivered' = delivered /\ stored' = stored
  BY <1>t DEF FetchFails, Fails
<1>7. summary' \in DayParts(n)  BY <1>t DEF FetchFails
<1>8. HistoryTyped(U, n, F)'  BY <1>t, <1>5, <1>6, <1>7 DEF HistoryTyped
<1> QED  BY <1>5, <1>8 DEF s

LEMMA SummarisesTyped ==
    ASSUME NEW U, NEW n \in Nat, NEW F \in Nat, HistoryTyped(U, n, F), NEW u \in U, NEW me \in Nat, Summarises(u, n, me)
    PROVE  /\ HistoryTyped(U, n, F)'
           /\ sync[u] \in Syncs(n) /\ sync[u].data \in DayParts(n) /\ sync[u].sums \in DayParts(n)
           /\ sync'[u] = Sync("commit", sync[u].over, MonthsOf(me, Unsummarised(n)), summary, StoredOf(n, Unsummarised(n)))
           /\ \A w \in U : w # u => sync'[w] = sync[w]
<1> DEFINE s == Sync("commit", sync[u].over, MonthsOf(me, Unsummarised(n)), summary, StoredOf(n, Unsummarised(n)))
<1>t. /\ now \in 0..(3 * n - 1) /\ delivered \in 3..now /\ missed \in 0..F /\ ran \in BOOLEAN
      /\ stored \in DayParts(n) /\ summary \in DayParts(n) /\ sync \in [U -> {Rest} \cup Syncs(n)]
  BY DEF HistoryTyped
<1>1. sync[u] \in Syncs(n)  BY <1>t, RestIs DEF Summarises
<1>2. sync[u].data \in DayParts(n) /\ sync[u].sums \in DayParts(n) /\ sync[u].over \in BOOLEAN /\ sync[u].left \in SUBSET {1, 2}
  BY <1>1, SyncFields
<1>3. s \in Syncs(n)
  <2>1. MonthsOf(me, Unsummarised(n)) \in SUBSET {1, 2}  BY DEF MonthsOf, MonthOf
  <2>2. StoredOf(n, Unsummarised(n)) \in DayParts(n)  BY <1>t DEF DayParts, StoredOf
  <2> QED  BY <1>t, <1>2, <2>1, <2>2, SyncIs DEF SyncPhases
<1>4. Changes(u, s)  BY DEF Summarises
<1> HIDE DEF s
<1>5. /\ sync' \in [U -> {Rest} \cup Syncs(n)] /\ sync'[u] = s
      /\ \A w \in U : w # u => sync'[w] = sync[w]
  BY <1>t, <1>3, <1>4, ChangesAre
<1>6. missed' \in 0..F /\ ran' = ran /\ now' = now /\ delivered' = delivered /\ stored' = stored
  BY <1>t DEF Summarises, Fails
<1>7. summary' \in DayParts(n)  BY <1>t DEF Summarises
<1>8. HistoryTyped(U, n, F)'  BY <1>t, <1>5, <1>6, <1>7 DEF HistoryTyped
<1> QED  BY <1>1, <1>2, <1>5, <1>8 DEF s

LEMMA CommitsSets ==
    ASSUME NEW U, NEW n, sync \in [U -> {Rest} \cup Syncs(n)], NEW u \in U, NEW me, NEW m, Commits(u, n, me, m)
    PROVE  /\ sync[u] \in Syncs(n) /\ sync[u].data \in DayParts(n)
           /\ sync'[u] = Sync("commit", sync[u].over, Without(sync[u].left, m), sync[u].sums, sync[u].data)
           /\ \A w \in U : w # u => sync'[w] = sync[w]
<1>1. sync[u] \in Syncs(n)  BY RestIs DEF Commits
<1>2. sync[u].data \in DayParts(n)  BY <1>1, SyncFields
<1>3. Changes(u, Sync("commit", sync[u].over, Without(sync[u].left, m), sync[u].sums, sync[u].data))  BY DEF Commits
<1> QED  BY <1>1, <1>2, <1>3 DEF Changes

LEMMA CommitsTyped ==
    ASSUME NEW U, NEW n \in Nat, NEW F \in Nat, HistoryTyped(U, n, F), NEW u \in U, NEW me \in Nat, NEW m \in {1, 2}, Commits(u, n, me, m)
    PROVE  HistoryTyped(U, n, F)'
<1> DEFINE s == Sync("commit", sync[u].over, Without(sync[u].left, m), sync[u].sums, sync[u].data)
<1>t. /\ now \in 0..(3 * n - 1) /\ delivered \in 3..now /\ missed \in 0..F /\ ran \in BOOLEAN
      /\ stored \in DayParts(n) /\ summary \in DayParts(n) /\ sync \in [U -> {Rest} \cup Syncs(n)]
  BY DEF HistoryTyped
<1>1. sync[u] \in Syncs(n)  BY <1>t, RestIs DEF Commits
<1>2. sync[u].data \in DayParts(n) /\ sync[u].sums \in DayParts(n) /\ sync[u].over \in BOOLEAN /\ sync[u].left \in SUBSET {1, 2}
  BY <1>1, SyncFields
<1>3. s \in Syncs(n)  BY <1>2, SyncIs DEF SyncPhases, Without
<1>4. Changes(u, s)  BY DEF Commits
<1> HIDE DEF s
<1>5. /\ sync' \in [U -> {Rest} \cup Syncs(n)] /\ sync'[u] = s
      /\ \A w \in U : w # u => sync'[w] = sync[w]
  BY <1>t, <1>3, <1>4, ChangesAre
<1>6. missed' \in 0..F /\ ran' = ran /\ now' = now /\ delivered' = delivered /\ stored' = stored
  BY <1>t DEF Commits, Fails
<1>7. summary' \in DayParts(n)  BY <1>t, <1>2, MergedTyped DEF Commits
<1>8. HistoryTyped(U, n, F)'  BY <1>t, <1>5, <1>6, <1>7 DEF HistoryTyped
<1> QED  BY <1>8

LEMMA CommitFailsTyped ==
    ASSUME NEW U, NEW n \in Nat, NEW F \in Nat, HistoryTyped(U, n, F), NEW u \in U, CommitFails(u, n, F)
    PROVE  /\ HistoryTyped(U, n, F)'
           /\ sync[u] \in Syncs(n) /\ sync[u].data \in DayParts(n) /\ sync[u].sums \in DayParts(n)
           /\ sync'[u] = Sync("combine", sync[u].over, {}, sync[u].sums, Nothing(n))
           /\ \A w \in U : w # u => sync'[w] = sync[w]
<1> DEFINE s == Sync("combine", sync[u].over, {}, sync[u].sums, Nothing(n))
<1>t. /\ now \in 0..(3 * n - 1) /\ delivered \in 3..now /\ missed \in 0..F /\ ran \in BOOLEAN
      /\ stored \in DayParts(n) /\ summary \in DayParts(n) /\ sync \in [U -> {Rest} \cup Syncs(n)]
  BY DEF HistoryTyped
<1>1. sync[u] \in Syncs(n)  BY <1>t, RestIs DEF CommitFails
<1>2. sync[u].data \in DayParts(n) /\ sync[u].sums \in DayParts(n) /\ sync[u].over \in BOOLEAN /\ sync[u].left \in SUBSET {1, 2}
  BY <1>1, SyncFields
<1>3. s \in Syncs(n)  BY <1>2, SyncIs, NothingIs DEF SyncPhases
<1>4. Changes(u, s)  BY DEF CommitFails
<1> HIDE DEF s
<1>5. /\ sync' \in [U -> {Rest} \cup Syncs(n)] /\ sync'[u] = s
      /\ \A w \in U : w # u => sync'[w] = sync[w]
  BY <1>t, <1>3, <1>4, ChangesAre
<1>6. missed' \in 0..F /\ ran' = ran /\ now' = now /\ delivered' = delivered /\ stored' = stored
  BY <1>t DEF CommitFails, Fails
<1>7. summary' \in DayParts(n)  BY <1>t DEF CommitFails
<1>8. HistoryTyped(U, n, F)'  BY <1>t, <1>5, <1>6, <1>7 DEF HistoryTyped
<1> QED  BY <1>1, <1>2, <1>5, <1>8 DEF s

LEMMA CommittedTyped ==
    ASSUME NEW U, NEW n \in Nat, NEW F \in Nat, HistoryTyped(U, n, F), NEW u \in U, Committed(u, n)
    PROVE  /\ HistoryTyped(U, n, F)'
           /\ sync[u] \in Syncs(n) /\ sync[u].data \in DayParts(n) /\ sync[u].sums \in DayParts(n)
           /\ sync'[u] = Sync("combine", sync[u].over, sync[u].left, Filled(n, sync[u].sums, sync[u].data), Nothing(n))
           /\ \A w \in U : w # u => sync'[w] = sync[w]
<1> DEFINE s == Sync("combine", sync[u].over, sync[u].left, Filled(n, sync[u].sums, sync[u].data), Nothing(n))
<1>t. /\ now \in 0..(3 * n - 1) /\ delivered \in 3..now /\ missed \in 0..F /\ ran \in BOOLEAN
      /\ stored \in DayParts(n) /\ summary \in DayParts(n) /\ sync \in [U -> {Rest} \cup Syncs(n)]
  BY DEF HistoryTyped
<1>1. sync[u] \in Syncs(n)  BY <1>t, RestIs DEF Committed
<1>2. sync[u].data \in DayParts(n) /\ sync[u].sums \in DayParts(n) /\ sync[u].over \in BOOLEAN /\ sync[u].left \in SUBSET {1, 2}
  BY <1>1, SyncFields
<1>3. s \in Syncs(n)  BY <1>2, SyncIs, FilledTyped, NothingIs DEF SyncPhases
<1>4. Changes(u, s)  BY DEF Committed
<1> HIDE DEF s
<1>5. /\ sync' \in [U -> {Rest} \cup Syncs(n)] /\ sync'[u] = s
      /\ \A w \in U : w # u => sync'[w] = sync[w]
  BY <1>t, <1>3, <1>4, ChangesAre
<1>6. missed' \in 0..F /\ ran' = ran /\ now' = now /\ delivered' = delivered /\ stored' = stored
  BY <1>t DEF Committed, Fails
<1>7. summary' \in DayParts(n)  BY <1>t DEF Committed
<1>8. HistoryTyped(U, n, F)'  BY <1>t, <1>5, <1>6, <1>7 DEF HistoryTyped
<1> QED  BY <1>1, <1>2, <1>5, <1>8 DEF s

LEMMA CombinesTyped ==
    ASSUME NEW U, NEW n \in Nat, NEW F \in Nat, HistoryTyped(U, n, F), NEW u \in U, Combines(u, n)
    PROVE  /\ HistoryTyped(U, n, F)'
           /\ sync'[u].at = "given" /\ sync'[u].over = sync[u].over
           /\ \A w \in U : w # u => sync'[w] = sync[w]
<1>1. sync[u] \in Syncs(n)  BY RestIs DEF Combines, HistoryTyped
<1>2. sync[u].sums \in DayParts(n) /\ sync[u].over \in BOOLEAN /\ sync[u].left \in SUBSET {1, 2}
  BY <1>1, SyncFields
<1>3. PICK data \in DayParts(n) : Changes(u, Sync("given", sync[u].over, sync[u].left, sync[u].sums, data))
  BY DEF Combines
<1> DEFINE s == Sync("given", sync[u].over, sync[u].left, sync[u].sums, data)
<1>4. s \in Syncs(n)  BY <1>2, SyncIs DEF SyncPhases
<1>5. s.at = "given" /\ s.over = sync[u].over  BY SyncParts
<1>6. Changes(u, s)  BY <1>3
<1> HIDE DEF s
<1>7. /\ sync' \in [U -> {Rest} \cup Syncs(n)] /\ sync'[u] = s
      /\ \A w \in U : w # u => sync'[w] = sync[w]
  BY <1>4, <1>6, ChangesAre DEF HistoryTyped
<1>8. HistoryTyped(U, n, F)'  BY <1>7 DEF HistoryTyped, Combines
<1> QED  BY <1>5, <1>7, <1>8

LEMMA FinishesTyped ==
    ASSUME NEW U, NEW n \in Nat, NEW F \in Nat, HistoryTyped(U, n, F), NEW u \in U, Finishes(u)
    PROVE  /\ HistoryTyped(U, n, F)' /\ sync'[u] = Rest
           /\ \A w \in U : w # u => sync'[w] = sync[w]
<1>1. /\ sync' \in [U -> {Rest} \cup Syncs(n)] /\ sync'[u] = Rest
      /\ \A w \in U : w # u => sync'[w] = sync[w]
  BY ChangesAre DEF HistoryTyped, Finishes
<1> QED  BY <1>1 DEF HistoryTyped, Finishes

-----------------------------------------------------------------------------
(* A store of whole days up to the last; the last part that it reaches; and  *)
(* what an update fetches for it from the last day on.                       *)
WholeTo(n, parts) == \A d \in 0..(n - 1) : d < Top(n, parts) => parts[d] = 3
Reach(n, parts) == IF Top(n, parts) = -1 THEN 2 ELSE 3 * Top(n, parts) + parts[Top(n, parts)] - 1
Within(n, parts, k) == \A d \in 0..(n - 1) : parts[d] > 0 => 3 * d + parts[d] - 1 <= k
Reaches(n, parts, k) == \E d \in 0..(n - 1) : parts[d] > 0 /\ 3 * d + parts[d] - 1 >= k
Continues(n, parts, data) ==
    /\ \A d \in 0..(n - 1) : data[d] > 0 => d >= Top(n, parts)
    /\ \A d, e \in 0..(n - 1) : d >= Top(n, parts) /\ d < e /\ data[e] > 0 => data[d] = 3
Overlaid(n, parts, data, new) ==
    \A d \in 0..(n - 1) : new[d] = IF data[d] > 0 THEN data[d] ELSE parts[d]

LEMMA ReachIs ==
    ASSUME NEW n \in Nat, NEW parts \in DayParts(n)
    PROVE  /\ Reach(n, parts) \in Nat
           /\ \A d \in 0..(n - 1) : parts[d] > 0 => 3 * d + parts[d] - 1 <= Reach(n, parts)
           /\ Top(n, parts) >= 0 => Reach(n, parts) <= 3 * Top(n, parts) + 2
           /\ Top(n, parts) = -1 => Reach(n, parts) = 2
           /\ Top(n, parts) >= 0 => Reach(n, parts) = 3 * Top(n, parts) + parts[Top(n, parts)] - 1
<1> DEFINE L == Top(n, parts)
<1>1. /\ L \in Int /\ -1 <= L /\ L < n /\ (L >= 0 => L \in 0..(n - 1) /\ parts[L] > 0)
      /\ \A d \in 0..(n - 1) : parts[d] > 0 => d <= L
  BY TopIs
<1>2. Reach(n, parts) = IF L = -1 THEN 2 ELSE 3 * L + parts[L] - 1  BY DEF Reach
<1>3. \A d \in 0..(n - 1) : parts[d] \in 0..3  BY DEF DayParts
<1> HIDE DEF L
<1>4. CASE L = -1  BY <1>1, <1>2, <1>4 DEF L
<1>5. CASE L >= 0
  <2> DEFINE p == parts[L]
  <2>1. p \in 1..3  BY <1>1, <1>3, <1>5
  <2>2. Reach(n, parts) = 3 * L + p - 1  BY <1>2, <1>5
  <2>3. ASSUME NEW d \in 0..(n - 1), parts[d] > 0 PROVE 3 * d + parts[d] - 1 <= Reach(n, parts)
    <3>1. d <= L /\ parts[d] \in 0..3  BY <1>1, <1>3, <2>3
    <3>2. CASE d = L
      <4>1. parts[d] = p  BY <3>2
      <4> HIDE DEF p
      <4> QED  BY <1>1, <2>1, <2>2, <3>2, <4>1
    <3>3. CASE d < L
      <4> HIDE DEF p
      <4> QED  BY <1>1, <2>1, <2>2, <3>1, <3>3
    <3> QED  BY <1>1, <3>1, <3>2, <3>3
  <2>4. Reach(n, parts) \in Nat /\ Reach(n, parts) <= 3 * L + 2
    <3> HIDE DEF p
    <3> QED  BY <1>1, <1>5, <2>1, <2>2
  <2> QED  BY <1>5, <2>2, <2>3, <2>4 DEF L
<1> QED  BY <1>1, <1>4, <1>5

(* A whole day more, and those after it, leave the store whole.              *)
LEMMA OverlaidIs ==
    ASSUME NEW n \in Nat, NEW parts \in DayParts(n), NEW data \in DayParts(n), NEW new \in DayParts(n),
           NEW k \in Int, NEW h \in Int,
           WholeTo(n, parts), Within(n, parts, k), Continues(n, parts, data), Within(n, data, k),
           Reaches(n, data, h), Overlaid(n, parts, data, new)
    PROVE  WholeTo(n, new) /\ Within(n, new, k) /\ Reach(n, new) >= h /\ Top(n, new) >= 0 /\ Reach(n, new) <= k
<1> DEFINE L == Top(n, parts)
           T == Top(n, new)
           D == 0..(n - 1)
<1>1. /\ L \in Int /\ -1 <= L /\ L < n /\ (L >= 0 => L \in D /\ parts[L] > 0)
      /\ \A d \in D : parts[d] > 0 => d <= L
  BY TopIs
<1>2. /\ T \in Int /\ -1 <= T /\ T < n /\ (T >= 0 => T \in D /\ new[T] > 0)
      /\ \A d \in D : new[d] > 0 => d <= T
  BY TopIs
<1>3. /\ Reach(n, new) \in Nat
      /\ \A d \in D : new[d] > 0 => 3 * d + new[d] - 1 <= Reach(n, new)
      /\ T >= 0 => Reach(n, new) = 3 * T + new[T] - 1
  BY ReachIs
<1>4. \A d \in D : d < L => parts[d] = 3  BY DEF WholeTo
<1>5. /\ \A d \in D : data[d] > 0 => d >= L
      /\ \A d, e \in D : d >= L /\ d < e /\ data[e] > 0 => data[d] = 3
  BY DEF Continues
<1>6. \A d \in D : new[d] = IF data[d] > 0 THEN data[d] ELSE parts[d]  BY DEF Overlaid
<1>7. \A d \in D : parts[d] \in 0..3 /\ data[d] \in 0..3 /\ new[d] \in 0..3  BY DEF DayParts
<1>8. Within(n, new, k)  BY <1>6 DEF Within
<1> HIDE DEF L, T
<1>9. PICK x \in D : data[x] > 0 /\ 3 * x + data[x] - 1 >= h  BY DEF Reaches
<1>10. new[x] = data[x] /\ new[x] > 0  BY <1>6, <1>9
<1>11. T >= 0 /\ T \in D  BY <1>2, <1>10
<1>12. Reach(n, new) >= h  BY <1>3, <1>7, <1>9, <1>10
<1>13. ASSUME NEW d \in D, d < T PROVE new[d] = 3
  <2>1. new[T] > 0  BY <1>2, <1>11
  <2>2. CASE data[T] > 0
    <3>1. CASE d >= L
      <4>1. data[d] = 3  BY <1>5, <1>11, <1>13, <2>2, <3>1
      <4> QED  BY <1>6, <4>1
    <3>2. CASE d < L
      <4>1. parts[d] = 3 /\ ~(data[d] > 0)  BY <1>1, <1>4, <1>5, <3>2
      <4> QED  BY <1>6, <4>1
    <3> QED  BY <1>1, <3>1, <3>2
  <2>3. CASE ~(data[T] > 0)
    <3>1. parts[T] > 0  BY <1>6, <1>11, <2>1, <2>3
    <3>2. d < L  BY <1>1, <1>2, <1>11, <1>13, <3>1
    <3>3. parts[d] = 3 /\ ~(data[d] > 0)  BY <1>1, <1>4, <1>5, <3>2
    <3> QED  BY <1>6, <3>3
  <2> QED  BY <2>2, <2>3
<1>14. Reach(n, new) <= k
  <2>1. new[T] > 0 /\ Reach(n, new) = 3 * T + new[T] - 1  BY <1>2, <1>3, <1>11
  <2> QED  BY <1>8, <1>11, <2>1 DEF Within
<1>15. WholeTo(n, new)  BY <1>13 DEF WholeTo, T
<1> QED  BY <1>8, <1>11, <1>12, <1>14, <1>15 DEF T

LEMMA StoresOverlay ==
    ASSUME NEW n \in Nat, NEW u, StoresAll(u, n)
    PROVE  \E days \in SUBSET (0..(n - 1)) : Stores(u, n, days) /\ Overlaid(n, stored, sync[u].data, stored')
<1>1. PICK days \in SUBSET (0..(n - 1)) :
          Stores(u, n, days) /\ \A d \in 0..(n - 1) : sync[u].data[d] > 0 => d \in days
  BY DEF StoresAll
<1>2. stored' = Replaced(n, days, stored, sync[u].data) /\ \A d \in days : sync[u].data[d] > 0
  BY <1>1 DEF Stores
<1>3. ASSUME NEW d \in 0..(n - 1)
      PROVE  stored'[d] = IF sync[u].data[d] > 0 THEN sync[u].data[d] ELSE stored[d]
  <2>1. stored'[d] = IF d \in days THEN sync[u].data[d] ELSE stored[d]  BY <1>2 DEF Replaced
  <2>2. d \in days <=> sync[u].data[d] > 0  BY <1>1, <1>2
  <2> QED  BY <2>1, <2>2
<1>4. Overlaid(n, stored, sync[u].data, stored')  BY <1>3 DEF Overlaid
<1> QED  BY <1>1, <1>4

(* An update that goes back far enough fetches all from the last day on.     *)
LEMMA GivenContinues ==
    ASSUME NEW n \in Nat, NEW lb \in Nat, now \in 0..(3 * n - 1), delivered \in 0..now, stored \in DayParts(n),
           Within(n, stored, delivered), now <= Reach(n, stored) + 3 * lb
    PROVE  /\ Continues(n, stored, Given(n, lb)) /\ Within(n, Given(n, lb), delivered)
           /\ Reaches(n, Given(n, lb), delivered)
<1> DEFINE L == Top(n, stored)
           t == now \div 3
           from == SyncFrom(n, lb)
           D == 0..(n - 1)
           data == Given(n, lb)
<1>1. /\ L \in Int /\ -1 <= L /\ L < n /\ (L >= 0 => L \in D /\ stored[L] > 0)
      /\ \A d \in D : stored[d] > 0 => d <= L
  BY TopIs
<1>2. t \in Nat /\ 3 * t <= now /\ now <= 3 * t + 2  BY DayOf
<1>3. /\ data \in DayParts(n) /\ from \in Int /\ from >= L
      /\ \A d \in D : /\ data[d] > 0 => d >= from /\ 3 * d <= now /\ data[d] = Arrived(d)
                      /\ d >= from /\ 3 * d <= now => data[d] = Arrived(d)
  <2>1. now \in Nat /\ delivered \in Int  OBVIOUS
  <2> QED  BY <2>1, GivenTyped
<1>4. /\ L >= 0 => Reach(n, stored) <= 3 * L + 2 /\ Reach(n, stored) = 3 * L + stored[L] - 1
      /\ L = -1 => Reach(n, stored) = 2
      /\ Reach(n, stored) \in Nat
  BY ReachIs
<1>5. from = IF L > t - lb THEN L ELSE t - lb  BY DEF SyncFrom
<1> HIDE DEF L, t, from, data
<1>6. IF L = -1 THEN from <= 0 ELSE from = L
  <2>1. CASE L = -1  BY <1>2, <1>4, <1>5, <2>1
  <2>2. CASE L >= 0
    <3>1. t - lb <= L  BY <1>1, <1>2, <1>4, <2>2
    <3> QED  BY <1>1, <1>2, <1>5, <2>2, <3>1
  <2> QED  BY <1>1, <2>1, <2>2
<1>7. \A d \in D : d >= L => d >= from  BY <1>1, <1>3, <1>6
<1>a. \A d \in D : /\ Arrived(d) \in 0..3
                   /\ Arrived(d) > 0 => 3 * d + Arrived(d) - 1 <= delivered
                   /\ delivered >= 3 * d + 2 => Arrived(d) = 3
                   /\ delivered >= 3 * d /\ delivered <= 3 * d + 2 => Arrived(d) = delivered - 3 * d + 1
  BY ArrivedIs
<1>8. Within(n, data, delivered)  BY <1>3, <1>a DEF Within
<1>9. Continues(n, stored, data)
  <2>1. \A d \in D : data[d] > 0 => d >= L  BY <1>1, <1>3
  <2>2. ASSUME NEW d \in D, NEW e \in D, d >= L, d < e, data[e] > 0 PROVE data[d] = 3
    <3>1. 3 * e <= now /\ Arrived(e) > 0 /\ Arrived(e) \in 0..3  BY <1>3, <1>a, <2>2
    <3>2. 3 * e <= delivered  BY <1>a, <3>1
    <3>3. delivered >= 3 * d + 2 /\ 3 * d <= now  BY <2>2, <3>1, <3>2
    <3>4. Arrived(d) = 3  BY <1>a, <3>3
    <3> QED  BY <1>3, <1>7, <2>2, <3>3, <3>4
  <2> QED  BY <2>1, <2>2 DEF Continues, L
<1>10. Reaches(n, data, delivered)
  <2> DEFINE x == delivered \div 3
  <2>1. x \in Nat /\ 3 * x <= delivered /\ delivered <= 3 * x + 2  BY DayOf
  <2> HIDE DEF x
  <2>2. x \in D /\ 3 * x <= now  BY <2>1
  <2>3. x >= L
    <3>1. CASE L = -1  BY <2>1, <3>1
    <3>2. CASE L >= 0
      <4>1. 3 * L + stored[L] - 1 <= delivered /\ stored[L] > 0  BY <1>1, <3>2 DEF Within
      <4>2. stored[L] \in 0..3  BY <1>1, <3>2 DEF DayParts
      <4>3. 3 * L <= delivered  BY <4>1, <4>2, <1>1
      <4> QED  BY <1>1, <2>1, <4>3
    <3> QED  BY <1>1, <3>1, <3>2
  <2>4. data[x] = Arrived(x) /\ Arrived(x) = delivered - 3 * x + 1  BY <1>3, <1>7, <1>a, <2>1, <2>2, <2>3
  <2>5. data[x] > 0 /\ 3 * x + data[x] - 1 >= delivered  BY <2>1, <2>4
  <2> QED  BY <2>2, <2>5 DEF Reaches
<1> QED  BY <1>8, <1>9, <1>10 DEF data

-----------------------------------------------------------------------------
(* Where the cloud is late, the store lags behind it by the parts missed and  *)
(* three more, one less where an update was done in this part, and one less   *)
(* again where it has stored what it fetched.                                 *)
Slip(s) == IF s.over = TRUE THEN 1 ELSE 0
Stored == {"synced", "commit", "combine", "given"}
Ended(n, parts, k) == \A d \in 0..(n - 1) : parts[d] > 0 => 3 * d + 3 <= k
LateStore(n) ==
    /\ now - delivered <= missed
    /\ WholeTo(n, stored) /\ Within(n, stored, delivered) /\ Ended(n, summary, now)
    /\ now <= Reach(n, stored) + missed + 3
    /\ ran = TRUE => now <= Reach(n, stored) + missed + 2
LateSync(n, s) ==
    /\ s.at = "fetched" => /\ Continues(n, stored, s.data) /\ Within(n, s.data, delivered)
                           /\ Reaches(n, s.data, now - missed - Slip(s))
    /\ s.at \in Stored => /\ now <= Reach(n, stored) + missed + 2
                          /\ ran = TRUE /\ s.over = FALSE => now <= Reach(n, stored) + missed + 1
    /\ s.at = "commit" => Ended(n, s.data, now)
LateSafe(n) == LateStore(n) /\ LateSync(n, sync[1])

LEMMA LateTime ==
    ASSUME NEW n \in Nat, NEW F \in Nat, HistoryTyped({1}, n, F), LateSafe(n), Elapses({1}, n, F)
    PROVE  LateSafe(n)'
<1> DEFINE s == sync[1]
<1>t. /\ now \in 0..(3 * n - 1) /\ delivered \in 3..now /\ missed \in 0..F /\ stored \in DayParts(n)
      /\ summary \in DayParts(n) /\ (s = Rest \/ s \in Syncs(n))
  BY DEF HistoryTyped
<1>1. /\ now' = now + 1 /\ ran = TRUE /\ ran' = FALSE /\ stored' = stored /\ summary' = summary
      /\ delivered' \in Int /\ delivered' >= delivered /\ missed' \in Nat /\ missed' >= missed
      /\ now' - delivered' <= missed'
  BY <1>t DEF Elapses, Fails, LateSafe, LateStore
<1>2. Reach(n, stored) \in Nat  BY <1>t, ReachIs
<1>3. Reach(n, stored') = Reach(n, stored)  BY <1>1
<1>4. /\ WholeTo(n, stored) /\ Within(n, stored, delivered) /\ Ended(n, summary, now)
      /\ now <= Reach(n, stored) + missed + 2
  BY <1>1 DEF LateSafe, LateStore
<1>n. now \in Int /\ now' = now + 1 /\ missed \in Int /\ missed' \in Int /\ missed' >= missed
  BY <1>1, <1>t
<1>5. \A parts \in DayParts(n) : Within(n, parts, delivered) => Within(n, parts, delivered')
  BY <1>1, <1>t DEF Within, DayParts
<1>6. \A parts \in DayParts(n) : Ended(n, parts, now) => Ended(n, parts, now')
  BY <1>1, <1>t DEF Ended, DayParts
<1>7. LateStore(n)'
  <2>1. WholeTo(n, stored)'  BY <1>1, <1>4 DEF WholeTo
  <2>2. Within(n, stored', delivered')  BY <1>1, <1>4, <1>5, <1>t
  <2>3. Ended(n, summary', now')  BY <1>1, <1>4, <1>6, <1>t DEF Ended
  <2>4. now' <= Reach(n, stored) + missed' + 3
    <3>1. Reach(n, stored) \in Int /\ now <= Reach(n, stored) + missed + 2  BY <1>2, <1>4
    <3> QED  BY <1>n, <3>1
  <2> QED  BY <1>1, <1>3, <2>1, <2>2, <2>3, <2>4 DEF LateStore
<1>8. CASE s = Rest
  <2>1. sync'[1] = Rest  BY <1>8 DEF Elapses
  <2>2. LateSync(n, sync[1])'  BY <2>1, RestIs DEF LateSync, Stored
  <2> QED  BY <1>7, <2>2 DEF LateSafe
<1>9. CASE s # Rest
  <2>1. s \in Syncs(n) /\ s.over = FALSE /\ sync'[1] = Sync(s.at, TRUE, s.left, s.sums, s.data)
    BY <1>9, <1>t DEF Elapses
  <2>2. sync'[1].at = s.at /\ sync'[1].over = TRUE /\ sync'[1].data = s.data  BY <2>1 DEF Sync
  <2>3. s.data \in DayParts(n)  BY <2>1, SyncFields
  <2>4. LateSync(n, s)  BY DEF LateSafe
  <2>5. ASSUME s.at = "fetched"
        PROVE  /\ Continues(n, stored', s.data) /\ Within(n, s.data, delivered')
               /\ Reaches(n, s.data, now' - missed' - 1)
    <3>1. Continues(n, stored, s.data) /\ Within(n, s.data, delivered) /\ Reaches(n, s.data, now - missed)
      BY <2>1, <2>4, <2>5, <1>t DEF LateSync, Slip
    <3>2. PICK d \in 0..(n - 1) : s.data[d] > 0 /\ 3 * d + s.data[d] - 1 >= now - missed
      BY <3>1 DEF Reaches
    <3>3. s.data[d] \in 0..3  BY <2>3 DEF DayParts
    <3>4. 3 * d + s.data[d] - 1 >= now' - missed' - 1  BY <1>1, <1>t, <3>2, <3>3
    <3>5. Reaches(n, s.data, now' - missed' - 1)  BY <3>2, <3>4 DEF Reaches
    <3> QED  BY <1>1, <1>5, <2>3, <3>1, <3>5
  <2>6. ASSUME s.at \in Stored PROVE now' <= Reach(n, stored') + missed' + 2
    <3>1. now <= Reach(n, stored) + missed + 1  BY <1>1, <2>1, <2>4, <2>6 DEF LateSync
    <3>0. Reach(n, stored) \in Int  BY <1>2
    <3>2. now' <= Reach(n, stored) + missed' + 2  BY <1>n, <3>0, <3>1
    <3> QED  BY <1>1, <3>2
  <2>7. s.at = "commit" => Ended(n, s.data, now')
    BY <1>6, <2>3, <2>4 DEF LateSync
  <2>8. Slip(sync'[1]) = 1  BY <2>2 DEF Slip
  <2>9. LateSync(n, sync[1])'  BY <1>1, <2>2, <2>5, <2>6, <2>7, <2>8 DEF LateSync
  <2> QED  BY <1>7, <2>9 DEF LateSafe
<1> QED  BY <1>8, <1>9

LEMMA CompletedIs ==
    ASSUME NEW n \in Nat, now \in Nat, NEW from \in Int, NEW d \in Completed(n, from)
    PROVE  /\ d \in 0..(n - 1) /\ d >= from /\ 3 * d + 3 <= now /\ Eligible(d)
           /\ \A e \in 0..(n - 1) : e >= from /\ e <= d => e \in Completed(n, from)
<1>1. d \in 0..(n - 1) /\ d >= from /\ d < now \div 3 /\ \A e \in from..d : Eligible(e)  BY DEF Completed
<1>2. 3 * (now \div 3) <= now /\ now \div 3 \in Nat  BY DayOf
<1>3. d \in from..d  BY <1>1
<1>4. ASSUME NEW e \in 0..(n - 1), e >= from, e <= d PROVE e \in Completed(n, from)
  <2>1. e < now \div 3  BY <1>1, <1>2, <1>4
  <2>2. \A g \in from..e : g \in from..d  BY <1>1, <1>4
  <2> QED  BY <1>1, <1>4, <2>1, <2>2 DEF Completed
<1> QED  BY <1>1, <1>2, <1>3, <1>4

LEMMA LateMoves ==
    ASSUME NEW n \in Nat, NEW F \in Nat, NEW lb \in Nat, NEW me \in Nat, F + 3 <= 3 * lb,
           HistoryTyped({1}, n, F), LateSafe(n), Moves(1, n, me, lb) \/ FetchFails(1, n, F)
    PROVE  HistoryTyped({1}, n, F)' /\ LateSafe(n)'
<1> DEFINE s == sync[1]
<1>t. /\ now \in 0..(3 * n - 1) /\ delivered \in 3..now /\ missed \in 0..F /\ stored \in DayParts(n)
      /\ summary \in DayParts(n) /\ ran \in BOOLEAN
      /\ sync \in [{1} -> {Rest} \cup Syncs(n)] /\ (s = Rest \/ s \in Syncs(n))
  BY DEF HistoryTyped
<1>n. now \in Nat /\ delivered \in Int /\ missed \in Nat  BY <1>t
<1>r. Reach(n, stored) \in Nat  BY <1>t, ReachIs
<1>i. /\ now - delivered <= missed
      /\ WholeTo(n, stored) /\ Within(n, stored, delivered) /\ Ended(n, summary, now)
      /\ now <= Reach(n, stored) + missed + 3
      /\ ran = TRUE => now <= Reach(n, stored) + missed + 2
      /\ s.at = "fetched" => /\ Continues(n, stored, s.data) /\ Within(n, s.data, delivered)
                             /\ Reaches(n, s.data, now - missed - Slip(s))
      /\ s.at \in Stored => /\ now <= Reach(n, stored) + missed + 2
                            /\ ran = TRUE /\ s.over = FALSE => now <= Reach(n, stored) + missed + 1
      /\ s.at = "commit" => Ended(n, s.data, now)
  BY DEF LateSafe, LateStore, LateSync
<1>1. CASE Fetches(1, n, lb)
  <2>1. HistoryTyped({1}, n, F)' /\ sync'[1] = Sync("fetched", FALSE, {}, Nothing(n), Given(n, lb))
    BY <1>1, OneFetches
  <2>2. sync'[1].at = "fetched" /\ sync'[1].over = FALSE /\ sync'[1].data = Given(n, lb)  BY <2>1 DEF Sync
  <2>3. now <= Reach(n, stored) + 3 * lb  BY <1>i, <1>r, <1>t
  <2>4. /\ Continues(n, stored, Given(n, lb)) /\ Within(n, Given(n, lb), delivered)
        /\ Reaches(n, Given(n, lb), delivered)
    <3>1. delivered \in 0..now  BY <1>t
    <3> QED  BY <1>t, <1>i, <2>3, <3>1, GivenContinues
  <2>5. Given(n, lb) \in DayParts(n)  BY <1>n, <1>t, GivenTyped
  <2>6. Reaches(n, Given(n, lb), now - missed - 0)
    <3>1. PICK d \in 0..(n - 1) : Given(n, lb)[d] > 0 /\ 3 * d + Given(n, lb)[d] - 1 >= delivered
      BY <2>4 DEF Reaches
    <3>2. Given(n, lb)[d] \in 0..3  BY <2>5 DEF DayParts
    <3>3. 3 * d + Given(n, lb)[d] - 1 >= now - missed - 0  BY <1>i, <1>n, <3>1, <3>2
    <3> QED  BY <3>1, <3>3 DEF Reaches
  <2>7. UNCHANGED <<now, delivered, stored, summary, ran, missed>>  BY <1>1 DEF Fetches
  <2>8. Slip(sync'[1]) = 0  BY <2>2 DEF Slip
  <2>9. LateSync(n, sync[1])'  BY <2>2, <2>4, <2>6, <2>7, <2>8 DEF LateSync, Stored
  <2> QED  BY <1>i, <2>1, <2>7, <2>9 DEF LateSafe, LateStore
<1>2. CASE FetchFails(1, n, F)
  <2>1. HistoryTyped({1}, n, F)' /\ sync'[1] = Sync("synced", FALSE, {}, Nothing(n), Nothing(n))
    BY <1>2, FetchFailsTyped
  <2>2. sync'[1].at = "synced"  BY <2>1 DEF Sync
  <2>3. UNCHANGED <<now, delivered, stored, summary, ran>> /\ missed' = missed + 1  BY <1>2 DEF FetchFails, Fails
  <2>4. /\ now <= Reach(n, stored) + missed' + 2
        /\ ran = TRUE => now <= Reach(n, stored) + missed' + 1
        /\ now - delivered <= missed'
    BY <1>i, <1>n, <1>r, <2>3
  <2>5. now <= Reach(n, stored) + missed' + 3 /\ (ran = TRUE => now <= Reach(n, stored) + missed' + 2)
    BY <1>i, <1>n, <1>r, <2>3
  <2>6. LateSync(n, sync[1])'  BY <2>2, <2>3, <2>4 DEF LateSync, Stored
  <2> QED  BY <1>i, <2>1, <2>3, <2>4, <2>5, <2>6 DEF LateSafe, LateStore
<1>3. CASE StoresAll(1, n)
  <2>1. PICK days \in SUBSET (0..(n - 1)) : Stores(1, n, days) /\ Overlaid(n, stored, s.data, stored')
    BY <1>3, StoresOverlay
  <2>2. /\ s.data \in DayParts(n) /\ stored' \in DayParts(n)
        /\ sync' \in [{1} -> {Rest} \cup Syncs(n)]
        /\ sync'[1] = Sync("synced", s.over, s.left, s.sums, Nothing(n))
    BY <2>1, StoresTyped
  <2>3. UNCHANGED <<now, delivered, summary, ran, missed>> /\ s.at = "fetched"  BY <1>3, <2>1 DEF Stores, StoresAll
  <2>4. HistoryTyped({1}, n, F)'  BY <1>t, <2>2, <2>3 DEF HistoryTyped
  <2>5. sync'[1].at = "synced" /\ sync'[1].over = s.over  BY <2>2 DEF Sync
  <2>6. Slip(s) \in 0..1  BY DEF Slip
  <2>7. /\ WholeTo(n, stored') /\ Within(n, stored', delivered)
        /\ Reach(n, stored') >= now - missed - Slip(s)
    <3>1. now - missed - Slip(s) \in Int  BY <1>n, <2>6
    <3> QED  BY <1>i, <1>n, <1>t, <2>1, <2>2, <2>3, <3>1, OverlaidIs
  <2>8. Reach(n, stored') \in Nat  BY <2>2, ReachIs
  <2>9. now <= Reach(n, stored') + missed + 1  BY <1>n, <2>6, <2>7, <2>8
  <2>10. now <= Reach(n, stored') + missed + 2 /\ now <= Reach(n, stored') + missed + 3  BY <1>n, <2>8, <2>9
  <2>11. LateSync(n, sync[1])'  BY <2>3, <2>5, <2>9, <2>10 DEF LateSync, Stored
  <2> QED  BY <1>i, <2>3, <2>4, <2>7, <2>10, <2>11 DEF LateSafe, LateStore
<1>4. CASE Summarises(1, n, me)
  <2> DEFINE days == Unsummarised(n)
             left == MonthsOf(me, days)
             data == StoredOf(n, days)
  <2>1. HistoryTyped({1}, n, F)' /\ sync'[1] = Sync("commit", s.over, left, summary, data)
    BY <1>4, SummarisesTyped
  <2>2. sync'[1].at = "commit" /\ sync'[1].over = s.over /\ sync'[1].data = data  BY <2>1 DEF Sync
  <2>3. Top(n, summary) + 1 \in Int  BY <1>t, TopIs
  <2>4. \A d \in days : 3 * d + 3 <= now  BY <1>n, <2>3, CompletedIs DEF Unsummarised
  <2>5. Ended(n, data, now)
    <3>1. \A d \in 0..(n - 1) : data[d] > 0 => d \in days  BY DEF StoredOf
    <3> HIDE DEF data, days
    <3> QED  BY <2>4, <3>1 DEF Ended
  <2>6. UNCHANGED <<now, delivered, stored, summary, ran, missed>> /\ s.at = "synced"  BY <1>4 DEF Summarises
  <2> HIDE DEF data
  <2>7. LateSync(n, sync[1])'  BY <1>i, <2>2, <2>5, <2>6 DEF LateSync, Stored
  <2> QED  BY <1>i, <2>1, <2>6, <2>7 DEF LateSafe, LateStore
<1>5. ASSUME NEW m \in {1, 2}, Commits(1, n, me, m) PROVE HistoryTyped({1}, n, F)' /\ LateSafe(n)'
  <2>1. /\ HistoryTyped({1}, n, F)' /\ s.data \in DayParts(n)
        /\ sync'[1] = Sync("commit", s.over, Without(s.left, m), s.sums, s.data)
    <3>1. HistoryTyped({1}, n, F)'  BY <1>5, CommitsTyped
    <3>2. /\ s.data \in DayParts(n)
          /\ sync'[1] = Sync("commit", s.over, Without(s.left, m), s.sums, s.data)
      BY <1>5, <1>t, CommitsSets
    <3> QED  BY <3>1, <3>2
  <2>2. sync'[1].at = "commit" /\ sync'[1].over = s.over /\ sync'[1].data = s.data  BY <2>1 DEF Sync
  <2>3. UNCHANGED <<now, delivered, stored, ran, missed>> /\ s.at = "commit"  BY <1>5 DEF Commits
  <2>4. Ended(n, summary', now)
    <3>1. ASSUME NEW d \in 0..(n - 1), summary'[d] > 0 PROVE summary[d] > 0 \/ s.data[d] > 0
      BY <1>5, <3>1 DEF Commits, MonthMerged
    <3> QED  BY <1>i, <2>3, <3>1 DEF Ended
  <2>5. LateSync(n, sync[1])'  BY <1>i, <2>2, <2>3 DEF LateSync, Stored
  <2> QED  BY <1>i, <2>1, <2>3, <2>4, <2>5 DEF LateSafe, LateStore
<1>6. CASE Committed(1, n)
  <2>1. HistoryTyped({1}, n, F)' /\ sync'[1] = Sync("combine", s.over, s.left, Filled(n, s.sums, s.data), Nothing(n))
    BY <1>6, CommittedTyped
  <2>2. sync'[1].at = "combine" /\ sync'[1].over = s.over  BY <2>1 DEF Sync
  <2>3. UNCHANGED <<now, delivered, stored, summary, ran, missed>> /\ s.at = "commit"  BY <1>6 DEF Committed
  <2>4. LateSync(n, sync[1])'  BY <1>i, <2>2, <2>3 DEF LateSync, Stored
  <2> QED  BY <1>i, <2>1, <2>3, <2>4 DEF LateSafe, LateStore
<1>7. CASE Combines(1, n)
  <2>1. HistoryTyped({1}, n, F)' /\ sync'[1].at = "given" /\ sync'[1].over = s.over  BY <1>7, CombinesTyped
  <2>2. UNCHANGED <<now, delivered, stored, summary, ran, missed>> /\ s.at = "combine"  BY <1>7 DEF Combines
  <2>3. LateSync(n, sync[1])'  BY <1>i, <2>1, <2>2 DEF LateSync, Stored
  <2> QED  BY <1>i, <2>1, <2>2, <2>3 DEF LateSafe, LateStore
<1>8. CASE Finishes(1)
  <2>1. HistoryTyped({1}, n, F)' /\ sync'[1] = Rest  BY <1>8, FinishesTyped
  <2>2. UNCHANGED <<now, delivered, stored, summary, missed>> /\ s.at = "given"  BY <1>8 DEF Finishes
  <2>3. LateSync(n, sync[1])'  BY <2>1, RestIs DEF LateSync, Stored
  <2>4. now <= Reach(n, stored) + missed + 2  BY <1>i, <2>2 DEF Stored
  <2> QED  BY <1>i, <2>1, <2>2, <2>3, <2>4 DEF LateSafe, LateStore
<1> QED  BY <1>1, <1>2, <1>3, <1>4, <1>5, <1>6, <1>7, <1>8 DEF Moves

-----------------------------------------------------------------------------
(* Where writes fail, within one month: a summarised day is in store, and a   *)
(* stored day before a summarised one, or one about to be, is summarised, or  *)
(* about to be.                                                               *)
NoneSkipped(n) ==
    /\ \A d \in 0..(n - 1) : summary[d] > 0 => stored[d] > 0
    /\ \A d \in 0..(n - 1) : d < Top(n, summary) /\ stored[d] > 0 => summary[d] > 0
NoneSkippedBy(n, s) ==
    /\ s.at = "fetched" => \A d \in 0..(n - 1) : s.data[d] > 0 => d >= Top(n, stored)
    /\ s.at = "commit" =>
        /\ \A d \in 0..(n - 1) : s.data[d] > 0 => stored[d] > 0
        /\ \A d, e \in 0..(n - 1) : d < e /\ s.data[e] > 0 /\ stored[d] > 0 => summary[d] > 0 \/ s.data[d] > 0
        /\ s.left \subseteq {1}
SkipSafe(n) == NoneSkipped(n) /\ NoneSkippedBy(n, sync[1])

LEMMA SkipTime ==
    ASSUME NEW n \in Nat, NEW F \in Nat, HistoryTyped({1}, n, F), SkipSafe(n), Elapses({1}, n, F)
    PROVE  SkipSafe(n)'
<1>1. stored' = stored /\ summary' = summary  BY DEF Elapses
<1>2. CASE sync[1] = Rest
  <2>1. sync'[1] = Rest  BY <1>2 DEF Elapses
  <2> QED  BY <1>1, <2>1, RestIs DEF SkipSafe, NoneSkipped, NoneSkippedBy
<1>3. CASE sync[1] # Rest
  <2>1. sync'[1] = Sync(sync[1].at, TRUE, sync[1].left, sync[1].sums, sync[1].data)  BY <1>3 DEF Elapses
  <2>2. sync'[1].at = sync[1].at /\ sync'[1].data = sync[1].data /\ sync'[1].left = sync[1].left
    BY <2>1 DEF Sync
  <2> QED  BY <1>1, <2>2 DEF SkipSafe, NoneSkipped, NoneSkippedBy
<1> QED  BY <1>2, <1>3

LEMMA SkipStores ==
    ASSUME NEW n \in Nat, NEW F \in Nat, HistoryTyped({1}, n, F), SkipSafe(n),
           NEW days \in SUBSET (0..(n - 1)), Stores(1, n, days), missed' \in 0..F
    PROVE  HistoryTyped({1}, n, F)' /\ SkipSafe(n)'
<1> DEFINE s == sync[1]
<1>1. /\ s.data \in DayParts(n) /\ stored' \in DayParts(n)
      /\ sync' \in [{1} -> {Rest} \cup Syncs(n)]
      /\ sync'[1] = Sync("synced", s.over, s.left, s.sums, Nothing(n))
  BY StoresTyped
<1>2. /\ UNCHANGED <<now, delivered, summary, ran>> /\ s.at = "fetched"
      /\ \A d \in days : s.data[d] > 0
      /\ stored' = Replaced(n, days, stored, s.data)
  BY DEF Stores
<1>3. HistoryTyped({1}, n, F)'  BY <1>1, <1>2 DEF HistoryTyped
<1>4. sync'[1].at = "synced"  BY <1>1 DEF Sync
<1>5. /\ Top(n, stored) \in Int /\ Top(n, summary) \in Int
      /\ Top(n, summary) >= 0 => Top(n, summary) \in 0..(n - 1) /\ summary[Top(n, summary)] > 0
      /\ \A d \in 0..(n - 1) : stored[d] > 0 => d <= Top(n, stored)
  BY TopIs DEF HistoryTyped
<1>6. /\ \A d \in 0..(n - 1) : summary[d] > 0 => stored[d] > 0
      /\ \A d \in 0..(n - 1) : d < Top(n, summary) /\ stored[d] > 0 => summary[d] > 0
      /\ \A d \in 0..(n - 1) : s.data[d] > 0 => d >= Top(n, stored)
  BY <1>2 DEF SkipSafe, NoneSkipped, NoneSkippedBy
<1>7. \A d \in 0..(n - 1) : stored'[d] = IF d \in days THEN s.data[d] ELSE stored[d]  BY <1>2 DEF Replaced
<1>8. \A d \in 0..(n - 1) : summary[d] > 0 => stored'[d] > 0  BY <1>2, <1>6, <1>7
<1>9. ASSUME NEW d \in 0..(n - 1), d < Top(n, summary), stored'[d] > 0 PROVE summary[d] > 0
  <2>1. Top(n, summary) <= Top(n, stored)  BY <1>5, <1>6, <1>9
  <2>2. d \notin days  BY <1>2, <1>5, <1>6, <1>9, <2>1
  <2> QED  BY <1>6, <1>7, <1>9, <2>2
<1>10. NoneSkipped(n)'  BY <1>2, <1>8, <1>9 DEF NoneSkipped
<1>11. NoneSkippedBy(n, sync[1])'  BY <1>4 DEF NoneSkippedBy
<1> QED  BY <1>3, <1>10, <1>11 DEF SkipSafe

LEMMA SkipMoves ==
    ASSUME NEW n \in Nat, NEW F \in Nat, NEW lb \in Nat, HistoryTyped({1}, n, F), SkipSafe(n),
           \/ Moves(1, n, n, lb)
           \/ FetchFails(1, n, F) \/ StoresSome(1, n, F) \/ CommitFails(1, n, F)
    PROVE  HistoryTyped({1}, n, F)' /\ SkipSafe(n)'
<1> DEFINE s == sync[1]
           D == 0..(n - 1)
<1>t. /\ now \in 0..(3 * n - 1) /\ delivered \in 3..now /\ missed \in 0..F /\ stored \in DayParts(n)
      /\ summary \in DayParts(n) /\ ran \in BOOLEAN
      /\ sync \in [{1} -> {Rest} \cup Syncs(n)] /\ (s = Rest \/ s \in Syncs(n))
  BY DEF HistoryTyped
<1>n. now \in Nat /\ delivered \in Int /\ missed \in Nat  BY <1>t
<1>i. /\ NoneSkipped(n)
      /\ \A d \in D : summary[d] > 0 => stored[d] > 0
      /\ \A d \in D : d < Top(n, summary) /\ stored[d] > 0 => summary[d] > 0
      /\ s.at = "commit" =>
          /\ \A d \in D : s.data[d] > 0 => stored[d] > 0
          /\ \A d, e \in D : d < e /\ s.data[e] > 0 /\ stored[d] > 0 => summary[d] > 0 \/ s.data[d] > 0
          /\ s.left \subseteq {1}
  BY DEF SkipSafe, NoneSkipped, NoneSkippedBy
<1>m. /\ Top(n, summary) \in Int /\ -1 <= Top(n, summary)
      /\ Top(n, summary) >= 0 => Top(n, summary) \in D /\ summary[Top(n, summary)] > 0
      /\ \A d \in D : summary[d] > 0 => d <= Top(n, summary)
  BY <1>t, TopIs
<1>1. CASE Fetches(1, n, lb)
  <2>1. HistoryTyped({1}, n, F)' /\ sync'[1] = Sync("fetched", FALSE, {}, Nothing(n), Given(n, lb))
    BY <1>1, OneFetches
  <2>2. sync'[1].at = "fetched" /\ sync'[1].data = Given(n, lb)  BY <2>1 DEF Sync
  <2>3. \A d \in D : Given(n, lb)[d] > 0 => d >= Top(n, stored)
    <3>1. /\ SyncFrom(n, lb) \in Int /\ SyncFrom(n, lb) >= Top(n, stored)
          /\ \A d \in D : Given(n, lb)[d] > 0 => d >= SyncFrom(n, lb)
      BY <1>n, <1>t, GivenTyped
    <3>2. Top(n, stored) \in Int  BY <1>t, TopIs
    <3> QED  BY <3>1, <3>2
  <2>4. stored' = stored /\ summary' = summary  BY <1>1 DEF Fetches
  <2>5. NoneSkippedBy(n, sync[1])'  BY <2>2, <2>3, <2>4 DEF NoneSkippedBy
  <2> QED  BY <1>i, <2>1, <2>4, <2>5 DEF SkipSafe, NoneSkipped
<1>2. CASE FetchFails(1, n, F)
  <2>1. HistoryTyped({1}, n, F)' /\ sync'[1] = Sync("synced", FALSE, {}, Nothing(n), Nothing(n))
    BY <1>2, FetchFailsTyped
  <2>2. sync'[1].at = "synced"  BY <2>1 DEF Sync
  <2>3. stored' = stored /\ summary' = summary  BY <1>2 DEF FetchFails
  <2> QED  BY <1>i, <2>1, <2>2, <2>3 DEF SkipSafe, NoneSkipped, NoneSkippedBy
<1>3. CASE StoresAll(1, n)
  <2>1. PICK days \in SUBSET D : Stores(1, n, days)  BY <1>3 DEF StoresAll
  <2>2. missed' \in 0..F  BY <1>3, <1>t DEF StoresAll
  <2> QED  BY <2>1, <2>2, SkipStores
<1>4. CASE StoresSome(1, n, F)
  <2>1. PICK days \in SUBSET D : Stores(1, n, days)  BY <1>4 DEF StoresSome
  <2>2. missed' \in 0..F  BY <1>4, <1>t DEF StoresSome, Fails
  <2> QED  BY <2>1, <2>2, SkipStores
<1>5. CASE Summarises(1, n, n)
  <2> DEFINE days == Unsummarised(n)
             left == MonthsOf(n, days)
             data == StoredOf(n, days)
  <2>1. HistoryTyped({1}, n, F)' /\ sync'[1] = Sync("commit", s.over, left, summary, data)
    BY <1>5, SummarisesTyped
  <2>2. sync'[1].at = "commit" /\ sync'[1].left = left /\ sync'[1].data = data  BY <2>1 DEF Sync
  <2>3. \A d \in days : d \in D /\ d > Top(n, summary) /\
            \A e \in D : e >= Top(n, summary) + 1 /\ e <= d => e \in days
    <3> DEFINE from == Top(n, summary) + 1
    <3>1. from \in Int /\ days = Completed(n, from)  BY <1>m DEF Unsummarised
    <3> HIDE DEF from, days
    <3>2. ASSUME NEW d \in days
          PROVE  d \in D /\ d >= from /\ \A e \in D : e >= from /\ e <= d => e \in days
      BY <1>n, <3>1, CompletedIs
    <3> QED  BY <1>m, <3>2 DEF from
  <2>4. left \subseteq {1}
    <3>1. \A d \in days : MonthOf(n, d) = 1  BY <2>3 DEF MonthOf
    <3> QED  BY <3>1 DEF MonthsOf
  <2>5. \A d \in D : data[d] = IF d \in days THEN stored[d] ELSE 0  BY DEF StoredOf
  <2> HIDE DEF days, left, data
  <2>6. \A d \in D : data[d] > 0 => stored[d] > 0  BY <2>5
  <2>7. ASSUME NEW d \in D, NEW e \in D, d < e, data[e] > 0, stored[d] > 0 PROVE summary[d] > 0 \/ data[d] > 0
    <3>1. e \in days  BY <2>5, <2>7
    <3>2. CASE d > Top(n, summary)
      <4>1. d \in days  BY <1>m, <2>3, <2>7, <3>1, <3>2
      <4> QED  BY <2>5, <2>7, <4>1
    <3>3. CASE d = Top(n, summary)  BY <1>m, <3>3
    <3>4. CASE d < Top(n, summary)  BY <1>i, <2>7, <3>4
    <3> QED  BY <1>m, <3>2, <3>3, <3>4
  <2>8. stored' = stored /\ summary' = summary  BY <1>5 DEF Summarises
  <2>9. NoneSkippedBy(n, sync[1])'  BY <2>2, <2>4, <2>6, <2>7, <2>8 DEF NoneSkippedBy
  <2> QED  BY <1>i, <2>1, <2>8, <2>9 DEF SkipSafe, NoneSkipped
<1>6. ASSUME NEW m \in {1, 2}, Commits(1, n, n, m) PROVE HistoryTyped({1}, n, F)' /\ SkipSafe(n)'
  <2>1. HistoryTyped({1}, n, F)'  BY <1>6, CommitsTyped
  <2>2. /\ s.data \in DayParts(n) /\ sync'[1] = Sync("commit", s.over, Without(s.left, m), s.sums, s.data)
    BY <1>6, <1>t, CommitsSets
  <2>3. sync'[1].at = "commit" /\ sync'[1].left = Without(s.left, m) /\ sync'[1].data = s.data  BY <2>2 DEF Sync
  <2>4. /\ stored' = stored /\ s.at = "commit" /\ m \in s.left
        /\ summary' = MonthMerged(n, n, summary, s.data, m)
    BY <1>6 DEF Commits
  <2>5. m = 1 /\ Without(s.left, m) \subseteq {1}  BY <1>i, <2>4 DEF Without
  <2>6. \A d \in D : summary'[d] = IF s.data[d] > 0 THEN s.data[d] ELSE summary[d]
    <3>1. \A d \in D : MonthOf(n, d) = 1  BY DEF MonthOf
    <3> QED  BY <2>4, <2>5, <3>1 DEF MonthMerged
  <2>7. /\ \A d \in D : s.data[d] > 0 => stored[d] > 0
        /\ \A d, e \in D : d < e /\ s.data[e] > 0 /\ stored[d] > 0 => summary[d] > 0 \/ s.data[d] > 0
    BY <1>i, <2>4
  <2>8. \A d \in D : summary[d] > 0 \/ s.data[d] > 0 <=> summary'[d] > 0  BY <2>6
  <2>9. \A d \in D : summary'[d] > 0 => stored[d] > 0  BY <1>i, <2>7, <2>8
  <2>10. ASSUME NEW d \in D, d < Top(n, summary'), stored[d] > 0 PROVE summary'[d] > 0
    <3> DEFINE e == Top(n, summary')
    <3>1. e \in Int /\ (e >= 0 => e \in D /\ summary'[e] > 0)
      <4>1. summary' \in DayParts(n)  BY <2>1 DEF HistoryTyped
      <4> QED  BY <4>1, TopIs
    <3> HIDE DEF e
    <3>2. e \in D /\ summary'[e] > 0 /\ d < e  BY <2>10, <3>1 DEF e
    <3>3. CASE s.data[e] > 0  BY <2>7, <2>8, <2>10, <3>2, <3>3
    <3>4. CASE summary[e] > 0
      <4>1. d < Top(n, summary)  BY <1>m, <3>2, <3>4
      <4> QED  BY <1>i, <2>8, <2>10, <4>1
    <3> QED  BY <2>8, <3>2, <3>3, <3>4
  <2>11. NoneSkipped(n)'  BY <2>4, <2>9, <2>10 DEF NoneSkipped
  <2>12. NoneSkippedBy(n, sync[1])'  BY <2>3, <2>4, <2>5, <2>7, <2>8 DEF NoneSkippedBy
  <2> QED  BY <2>1, <2>11, <2>12 DEF SkipSafe
<1>7. CASE CommitFails(1, n, F)
  <2>1. HistoryTyped({1}, n, F)' /\ sync'[1] = Sync("combine", s.over, {}, s.sums, Nothing(n))
    BY <1>7, CommitFailsTyped
  <2>2. sync'[1].at = "combine"  BY <2>1 DEF Sync
  <2>3. stored' = stored /\ summary' = summary  BY <1>7 DEF CommitFails
  <2> QED  BY <1>i, <2>1, <2>2, <2>3 DEF SkipSafe, NoneSkipped, NoneSkippedBy
<1>8. CASE Committed(1, n)
  <2>1. HistoryTyped({1}, n, F)' /\ sync'[1] = Sync("combine", s.over, s.left, Filled(n, s.sums, s.data), Nothing(n))
    BY <1>8, CommittedTyped
  <2>2. sync'[1].at = "combine"  BY <2>1 DEF Sync
  <2>3. stored' = stored /\ summary' = summary  BY <1>8 DEF Committed
  <2> QED  BY <1>i, <2>1, <2>2, <2>3 DEF SkipSafe, NoneSkipped, NoneSkippedBy
<1>9. CASE Combines(1, n)
  <2>1. HistoryTyped({1}, n, F)' /\ sync'[1].at = "given"  BY <1>9, CombinesTyped
  <2>2. stored' = stored /\ summary' = summary  BY <1>9 DEF Combines
  <2> QED  BY <1>i, <2>1, <2>2 DEF SkipSafe, NoneSkipped, NoneSkippedBy
<1>10. CASE Finishes(1)
  <2>1. HistoryTyped({1}, n, F)' /\ sync'[1] = Rest  BY <1>10, FinishesTyped
  <2>2. stored' = stored /\ summary' = summary  BY <1>10 DEF Finishes
  <2> QED  BY <1>i, <2>1, <2>2, RestIs DEF SkipSafe, NoneSkipped, NoneSkippedBy
<1> QED  BY <1>1, <1>2, <1>3, <1>4, <1>5, <1>6, <1>7, <1>8, <1>9, <1>10 DEF Moves

-----------------------------------------------------------------------------
(* Where each update is on time, the store reaches what the cloud delivered   *)
(* once an update has stored it; summaries are of whole days, all of them up  *)
(* to the last; a commit leads from the old ones to the old and the new.      *)
AllWhole(n, parts) == \A d \in 0..(n - 1) : d <= Top(n, parts) => parts[d] = 3
WholeOrNone(n, parts) == \A d \in 0..(n - 1) : parts[d] > 0 => parts[d] = 3
Punctual(n) ==
    /\ now - delivered <= missed
    /\ WholeTo(n, stored) /\ Within(n, stored, delivered)
    /\ now <= Reach(n, stored) + 3
    /\ ran = TRUE => Top(n, stored) >= 0 /\ Reach(n, stored) = delivered
    /\ WholeOrNone(n, summary)
PunctualSync(n, me, s) ==
    /\ s.at = "fetched" => /\ Continues(n, stored, s.data) /\ Within(n, s.data, delivered)
                           /\ Reaches(n, s.data, delivered)
    /\ s.at \in Stored => Top(n, stored) >= 0 /\ Reach(n, stored) = delivered
    /\ s.at # "commit" => AllWhole(n, summary)
    /\ s.at = "commit" =>
        /\ WholeOrNone(n, s.data) /\ AllWhole(n, Filled(n, s.sums, s.data))
        /\ \A d \in 0..(n - 1) : summary[d] = IF MonthOf(me, d) \in s.left THEN s.sums[d]
                                              ELSE Filled(n, s.sums, s.data)[d]
    /\ s.at = "combine" => AllWhole(n, s.sums)
PunctualSafe(n, me) == Punctual(n) /\ PunctualSync(n, me, sync[1])

LEMMA PunctualTime ==
    ASSUME NEW n \in Nat, NEW me \in Nat, NEW F \in Nat, F <= 2, HistoryTyped({1}, n, F), PunctualSafe(n, me),
           Elapses({1}, n, F), sync[1] = Rest
    PROVE  PunctualSafe(n, me)'
<1>t. /\ now \in 0..(3 * n - 1) /\ delivered \in 3..now /\ missed \in 0..F /\ stored \in DayParts(n)
      /\ summary \in DayParts(n)
  BY DEF HistoryTyped
<1>1. /\ now' = now + 1 /\ ran = TRUE /\ ran' = FALSE /\ stored' = stored /\ summary' = summary
      /\ delivered' \in Int /\ delivered' >= delivered /\ now' - delivered' <= missed'
  BY <1>t DEF Elapses, Fails, PunctualSafe, Punctual
<1>2. sync'[1] = Rest  BY DEF Elapses
<1>3. Reach(n, stored) = delivered /\ Reach(n, stored) \in Nat  BY <1>1, <1>t, ReachIs DEF PunctualSafe, Punctual
<1>4. now - delivered <= 2  BY <1>t DEF PunctualSafe, Punctual
<1>5. now' <= Reach(n, stored) + 3  BY <1>1, <1>3, <1>4, <1>t
<1>6. Within(n, stored, delivered')
  <2>1. Within(n, stored, delivered)  BY DEF PunctualSafe, Punctual
  <2> QED  BY <1>1, <1>t, <2>1 DEF Within, DayParts
<1>7. Punctual(n)'  BY <1>1, <1>5, <1>6 DEF PunctualSafe, Punctual
<1>8. AllWhole(n, summary)  BY RestIs DEF PunctualSafe, PunctualSync
<1>9. PunctualSync(n, me, sync[1])'  BY <1>1, <1>2, <1>8, RestIs DEF PunctualSync, Stored
<1> QED  BY <1>7, <1>9 DEF PunctualSafe

LEMMA PunctualSummary ==
    ASSUME NEW n \in Nat, NEW me \in Nat, NEW F \in Nat, F <= 2, HistoryTyped({1}, n, F), PunctualSafe(n, me),
           Summarises(1, n, me)
    PROVE  HistoryTyped({1}, n, F)' /\ PunctualSafe(n, me)'
<1> DEFINE s == sync[1]
           D == 0..(n - 1)
           days == Unsummarised(n)
           left == MonthsOf(me, days)
           data == StoredOf(n, days)
           M == Top(n, summary)
           L == Top(n, stored)
<1>t. /\ now \in 0..(3 * n - 1) /\ delivered \in 3..now /\ missed \in 0..F /\ stored \in DayParts(n)
      /\ summary \in DayParts(n)
  BY DEF HistoryTyped
<1>1. HistoryTyped({1}, n, F)' /\ sync'[1] = Sync("commit", s.over, left, summary, data)
  BY SummarisesTyped
<1>2. /\ sync'[1].at = "commit" /\ sync'[1].left = left /\ sync'[1].data = data /\ sync'[1].sums = summary
  BY <1>1 DEF Sync
<1>3. UNCHANGED <<now, delivered, stored, summary, ran, missed>> /\ s.at = "synced"  BY DEF Summarises
<1>4. /\ now - delivered <= missed /\ WholeTo(n, stored) /\ L >= 0 /\ Reach(n, stored) = delivered
      /\ AllWhole(n, summary)
  BY <1>3 DEF PunctualSafe, Punctual, PunctualSync, Stored
<1>5. /\ M \in Int /\ -1 <= M /\ (M >= 0 => M \in D /\ summary[M] > 0)
      /\ \A d \in D : summary[d] > 0 => d <= M
  BY <1>t, TopIs
<1>6. L \in D /\ Reach(n, stored) = 3 * L + stored[L] - 1 /\ Reach(n, stored) \in Nat
  BY <1>t, <1>4, TopIs, ReachIs
<1>7. ASSUME NEW d \in days
      PROVE  d \in D /\ d >= M + 1 /\ 3 * d + 3 <= now /\ Eligible(d) /\ \A e \in D : e >= M + 1 /\ e <= d => e \in days
  <2> DEFINE from == M + 1
  <2>1. from \in Int /\ days = Completed(n, from)  BY <1>5 DEF Unsummarised
  <2>2. now \in Nat  BY <1>t
  <2> HIDE DEF from, days
  <2>3. d \in D /\ d >= from /\ 3 * d + 3 <= now /\ Eligible(d) /\ \A e \in D : e >= from /\ e <= d => e \in days
    BY <1>7, <2>1, <2>2, CompletedIs
  <2> QED  BY <2>3 DEF from
<1>8. ASSUME NEW d \in days PROVE stored[d] = 3
  <2>1. d \in D /\ Eligible(d)  BY <1>7
  <2>2. CASE stored[d] = 3  BY <2>2
  <2>3. CASE now >= 3 * (d + 1) + 1
    <3>1. delivered >= 3 * d + 2  BY <1>4, <1>t, <2>1, <2>3
    <3>2. stored[L] \in 0..3  BY <1>6, <1>t DEF DayParts
    <3> HIDE DEF L
    <3>3. d <= L  BY <1>4, <1>6, <2>1, <3>1, <3>2
    <3>4. CASE d < L  BY <1>4, <2>1, <3>4 DEF WholeTo, L
    <3>5. CASE d = L  BY <1>4, <1>6, <3>1, <3>2, <3>5
    <3> QED  BY <1>6, <2>1, <3>3, <3>4, <3>5
  <2> QED  BY <2>1, <2>2, <2>3 DEF Eligible
<1>9. \A d \in D : data[d] = IF d \in days THEN 3 ELSE 0
  <2>1. \A d \in D : data[d] = IF d \in days THEN stored[d] ELSE 0  BY DEF StoredOf
  <2> HIDE DEF data, days
  <2> QED  BY <1>8, <2>1
<1> HIDE DEF days, data
<1>10. WholeOrNone(n, data)  BY <1>9 DEF WholeOrNone
<1> DEFINE full == Filled(n, summary, data)
<1>11. \A d \in D : full[d] = IF d \in days THEN 3 ELSE summary[d]  BY <1>9 DEF Filled
<1>12. data \in DayParts(n) /\ full \in DayParts(n)
  <2>1. data \in DayParts(n)  BY <1>t DEF data, StoredOf, DayParts
  <2> QED  BY <1>t, <2>1, FilledTyped
<1>13. /\ Top(n, full) \in Int /\ (Top(n, full) >= 0 => Top(n, full) \in D /\ full[Top(n, full)] > 0)
  BY <1>12, TopIs
<1> HIDE DEF full
<1>14. AllWhole(n, full)
  <2> DEFINE T == Top(n, full)
  <2>1. SUFFICES ASSUME NEW d \in D, d <= T PROVE full[d] = 3  BY DEF AllWhole
  <2>2. T \in D /\ full[T] > 0  BY <1>13, <2>1
  <2> HIDE DEF T
  <2>3. CASE d \in days  BY <1>11, <2>3
  <2>4. CASE d \notin days
    <3>1. d <= M
      <4>1. CASE T \in days  BY <1>5, <1>7, <2>1, <2>2, <2>4, <4>1
      <4>2. CASE T \notin days
        <5>1. summary[T] > 0  BY <1>11, <2>2, <4>2
        <5> QED  BY <1>5, <2>1, <2>2, <5>1
      <4> QED  BY <4>1, <4>2
    <3>2. summary[d] = 3  BY <1>4, <3>1 DEF AllWhole
    <3> QED  BY <1>11, <2>4, <3>2
  <2> QED  BY <2>3, <2>4
<1>15. \A d \in D : summary[d] = IF MonthOf(me, d) \in left THEN summary[d] ELSE full[d]
  <2>1. \A d \in days : MonthOf(me, d) \in left  BY DEF MonthsOf
  <2> QED  BY <1>11, <2>1
<1> HIDE DEF left
<1>16. PunctualSync(n, me, sync[1])'
  BY <1>2, <1>3, <1>4, <1>10, <1>14, <1>15 DEF PunctualSync, Stored, full
<1> QED  BY <1>1, <1>3, <1>16 DEF PunctualSafe, Punctual

LEMMA PunctualMoves ==
    ASSUME NEW n \in Nat, NEW me \in Nat, NEW F \in Nat, F <= 2, NEW lb \in Nat, lb >= 1,
           HistoryTyped({1}, n, F), PunctualSafe(n, me), Moves(1, n, me, lb)
    PROVE  HistoryTyped({1}, n, F)' /\ PunctualSafe(n, me)'
<1> DEFINE s == sync[1]
           D == 0..(n - 1)
<1>t. /\ now \in 0..(3 * n - 1) /\ delivered \in 3..now /\ missed \in 0..F /\ stored \in DayParts(n)
      /\ summary \in DayParts(n) /\ ran \in BOOLEAN
      /\ sync \in [{1} -> {Rest} \cup Syncs(n)] /\ (s = Rest \/ s \in Syncs(n))
  BY DEF HistoryTyped
<1>n. now \in Nat /\ delivered \in Int /\ missed \in Nat  BY <1>t
<1>r. Reach(n, stored) \in Nat  BY <1>t, ReachIs
<1>i. /\ now - delivered <= missed
      /\ WholeTo(n, stored) /\ Within(n, stored, delivered) /\ now <= Reach(n, stored) + 3
      /\ ran = TRUE => Top(n, stored) >= 0 /\ Reach(n, stored) = delivered
      /\ WholeOrNone(n, summary)
  BY DEF PunctualSafe, Punctual
<1>j. /\ s.at = "fetched" => /\ Continues(n, stored, s.data) /\ Within(n, s.data, delivered)
                             /\ Reaches(n, s.data, delivered)
      /\ s.at \in Stored => Top(n, stored) >= 0 /\ Reach(n, stored) = delivered
      /\ s.at # "commit" => AllWhole(n, summary)
      /\ s.at = "commit" =>
            /\ WholeOrNone(n, s.data) /\ AllWhole(n, Filled(n, s.sums, s.data))
            /\ \A d \in D : summary[d] = IF MonthOf(me, d) \in s.left THEN s.sums[d]
                                         ELSE Filled(n, s.sums, s.data)[d]
      /\ s.at = "combine" => AllWhole(n, s.sums)
  BY DEF PunctualSafe, PunctualSync
<1>1. CASE Fetches(1, n, lb)
  <2>1. HistoryTyped({1}, n, F)' /\ sync'[1] = Sync("fetched", FALSE, {}, Nothing(n), Given(n, lb))
    BY <1>1, OneFetches
  <2>2. sync'[1].at = "fetched" /\ sync'[1].data = Given(n, lb)  BY <2>1 DEF Sync
  <2>3. now <= Reach(n, stored) + 3 * lb  BY <1>i, <1>r, <1>n
  <2>4. /\ Continues(n, stored, Given(n, lb)) /\ Within(n, Given(n, lb), delivered)
        /\ Reaches(n, Given(n, lb), delivered)
    <3>1. delivered \in 0..now  BY <1>t
    <3> QED  BY <1>t, <1>i, <2>3, <3>1, GivenContinues
  <2>5. UNCHANGED <<now, delivered, stored, summary, ran, missed>> /\ s = Rest  BY <1>1 DEF Fetches
  <2>6. AllWhole(n, summary)  BY <1>j, <2>5, RestIs
  <2>7. PunctualSync(n, me, sync[1])'  BY <2>2, <2>4, <2>5, <2>6 DEF PunctualSync, Stored
  <2> QED  BY <1>i, <2>1, <2>5, <2>7 DEF PunctualSafe, Punctual
<1>2. CASE StoresAll(1, n)
  <2>1. PICK days \in SUBSET (0..(n - 1)) : Stores(1, n, days) /\ Overlaid(n, stored, s.data, stored')
    BY <1>2, StoresOverlay
  <2>2. /\ s.data \in DayParts(n) /\ stored' \in DayParts(n)
        /\ sync' \in [{1} -> {Rest} \cup Syncs(n)]
        /\ sync'[1] = Sync("synced", s.over, s.left, s.sums, Nothing(n))
    BY <2>1, StoresTyped
  <2>3. UNCHANGED <<now, delivered, summary, ran, missed>> /\ s.at = "fetched"
    BY <1>2, <2>1 DEF Stores, StoresAll
  <2>4. HistoryTyped({1}, n, F)'  BY <1>t, <2>2, <2>3 DEF HistoryTyped
  <2>5. sync'[1].at = "synced"  BY <2>2 DEF Sync
  <2>6. /\ WholeTo(n, stored') /\ Within(n, stored', delivered) /\ Top(n, stored') >= 0
        /\ Reach(n, stored') >= delivered /\ Reach(n, stored') <= delivered
    BY <1>i, <1>j, <1>n, <1>t, <2>1, <2>2, <2>3, OverlaidIs
  <2>7. Reach(n, stored') \in Nat  BY <2>2, ReachIs
  <2>8. Reach(n, stored') = delivered  BY <1>n, <2>6, <2>7
  <2>9. now <= Reach(n, stored') + 3  BY <1>i, <1>t, <2>8
  <2>10. PunctualSync(n, me, sync[1])'  BY <1>j, <2>3, <2>5, <2>6, <2>8 DEF PunctualSync, Stored
  <2> QED  BY <1>i, <2>3, <2>4, <2>6, <2>8, <2>9, <2>10 DEF PunctualSafe, Punctual
<1>3. CASE Summarises(1, n, me)  BY <1>3, PunctualSummary
<1>4. ASSUME NEW m \in {1, 2}, Commits(1, n, me, m) PROVE HistoryTyped({1}, n, F)' /\ PunctualSafe(n, me)'
  <2>1. HistoryTyped({1}, n, F)'  BY <1>4, CommitsTyped
  <2>2. /\ s.data \in DayParts(n) /\ sync'[1] = Sync("commit", s.over, Without(s.left, m), s.sums, s.data)
    BY <1>4, <1>t, CommitsSets
  <2>3. /\ sync'[1].at = "commit" /\ sync'[1].left = Without(s.left, m) /\ sync'[1].data = s.data
        /\ sync'[1].sums = s.sums
    BY <2>2 DEF Sync
  <2>4. /\ UNCHANGED <<now, delivered, stored, ran, missed>> /\ s.at = "commit" /\ m \in s.left
        /\ summary' = MonthMerged(n, me, summary, s.data, m)
    BY <1>4 DEF Commits
  <2> DEFINE full == Filled(n, s.sums, s.data)
  <2>5. \A d \in D : full[d] = IF s.data[d] > 0 THEN s.data[d] ELSE s.sums[d]  BY DEF Filled
  <2>6. /\ \A d \in D : s.data[d] > 0 => s.data[d] = 3
        /\ \A d \in D : summary[d] = IF MonthOf(me, d) \in s.left THEN s.sums[d] ELSE full[d]
        /\ \A d \in D : summary[d] > 0 => summary[d] = 3
    BY <1>i, <1>j, <2>4 DEF WholeOrNone
  <2>7. \A d \in D : summary'[d] = IF MonthOf(me, d) = m /\ s.data[d] > 0 THEN s.data[d] ELSE summary[d]
    BY <2>4 DEF MonthMerged
  <2> HIDE DEF full
  <2>8. \A d \in D : summary'[d] > 0 => summary'[d] = 3  BY <2>6, <2>7
  <2>9. ASSUME NEW d \in D
        PROVE  summary'[d] = IF MonthOf(me, d) \in Without(s.left, m) THEN s.sums[d] ELSE full[d]
    <3>1. CASE MonthOf(me, d) = m
      <4>1. summary[d] = s.sums[d] /\ MonthOf(me, d) \notin Without(s.left, m)
        BY <2>4, <2>6, <3>1 DEF Without
      <4> QED  BY <2>5, <2>7, <3>1, <4>1
    <3>2. CASE MonthOf(me, d) # m
      <4>1. MonthOf(me, d) \in Without(s.left, m) <=> MonthOf(me, d) \in s.left  BY <3>2 DEF Without
      <4> QED  BY <2>6, <2>7, <3>2, <4>1
    <3> QED  BY <3>1, <3>2
  <2>10. WholeOrNone(n, summary')  BY <2>8 DEF WholeOrNone
  <2>11. PunctualSync(n, me, sync[1])'
    BY <1>j, <2>3, <2>4, <2>9 DEF PunctualSync, Stored, full
  <2> QED  BY <1>i, <2>1, <2>4, <2>10, <2>11 DEF PunctualSafe, Punctual
<1>5. CASE Committed(1, n)
  <2>1. /\ HistoryTyped({1}, n, F)'
        /\ sync'[1] = Sync("combine", s.over, s.left, Filled(n, s.sums, s.data), Nothing(n))
    BY <1>5, CommittedTyped
  <2>2. sync'[1].at = "combine" /\ sync'[1].sums = Filled(n, s.sums, s.data)  BY <2>1 DEF Sync
  <2>3. UNCHANGED <<now, delivered, stored, summary, ran, missed>> /\ s.at = "commit" /\ s.left = {}
    BY <1>5 DEF Committed
  <2> DEFINE full == Filled(n, s.sums, s.data)
  <2>4. AllWhole(n, full) /\ \A d \in D : summary[d] = full[d]  BY <1>j, <2>3
  <2>5. full \in DayParts(n)  BY <1>5, CommittedTyped, FilledTyped
  <2> HIDE DEF full
  <2>6. summary = full  BY <1>t, <2>4, <2>5 DEF DayParts
  <2>7. AllWhole(n, summary)  BY <2>4, <2>6
  <2>8. PunctualSync(n, me, sync[1])'  BY <1>j, <2>2, <2>3, <2>4, <2>7 DEF PunctualSync, Stored, full
  <2> QED  BY <1>i, <2>1, <2>3, <2>8 DEF PunctualSafe, Punctual
<1>6. CASE Combines(1, n)
  <2>1. HistoryTyped({1}, n, F)' /\ sync'[1].at = "given"  BY <1>6, CombinesTyped
  <2>2. UNCHANGED <<now, delivered, stored, summary, ran, missed>> /\ s.at = "combine"  BY <1>6 DEF Combines
  <2>3. PunctualSync(n, me, sync[1])'  BY <1>j, <2>1, <2>2 DEF PunctualSync, Stored
  <2> QED  BY <1>i, <2>1, <2>2, <2>3 DEF PunctualSafe, Punctual
<1>7. CASE Finishes(1)
  <2>1. HistoryTyped({1}, n, F)' /\ sync'[1] = Rest  BY <1>7, FinishesTyped
  <2>2. UNCHANGED <<now, delivered, stored, summary, missed>> /\ s.at = "given"  BY <1>7 DEF Finishes
  <2>3. PunctualSync(n, me, sync[1])'  BY <1>j, <2>1, <2>2, RestIs DEF PunctualSync, Stored
  <2>4. Top(n, stored) >= 0 /\ Reach(n, stored) = delivered  BY <1>j, <2>2 DEF Stored
  <2> QED  BY <1>i, <2>1, <2>2, <2>3, <2>4 DEF PunctualSafe, Punctual
<1> QED  BY <1>1, <1>2, <1>3, <1>4, <1>5, <1>6, <1>7 DEF Moves

-----------------------------------------------------------------------------
(* Over the end of a month, with the cloud in step: days are stored and       *)
(* summarised without a gap; L is the last day in store, M the last that is   *)
(* summarised, k the time. An update has stored the days up to its time, and  *)
(* then summarised those that ended four parts before it.                     *)
NoGap(n, parts) == \A d \in 0..(n - 1) : d <= Top(n, parts) => parts[d] > 0
Done(n, k, M) == \A d \in 0..(n - 1) : k >= 3 * d + 4 => d <= M
MonthsStore(n) ==
    /\ delivered = now /\ NoGap(n, stored) /\ NoGap(n, summary)
    /\ 3 * Top(n, stored) <= now /\ now <= 3 * Top(n, stored) + 5
    /\ ran = TRUE => now <= 3 * Top(n, stored) + 3 /\ Done(n, now - 1, Top(n, summary))
    /\ Done(n, now - 2, Top(n, summary))
MonthsSync(n, me, k, L, M, s) ==
    /\ s.at = "fetched" => /\ \A d \in 0..(n - 1) : s.data[d] > 0 => d <= L + 1 /\ 3 * d <= k
                           /\ \E d \in 0..(n - 1) : s.data[d] > 0 /\ k - Slip(s) <= 3 * d + 2
    /\ s.at \in Stored => k - Slip(s) <= 3 * L + 2
    /\ s.at = "commit" => \A d \in 0..(n - 1) :
        /\ s.data[d] > 0 => d <= M + 1
        /\ k - Slip(s) >= 3 * d + 4 => d <= M \/ (s.data[d] > 0 /\ MonthOf(me, d) \in s.left)
    /\ s.at \in {"combine", "given"} => Done(n, k - Slip(s), M)
MonthsSafe(U, n, me) ==
    /\ MonthsStore(n)
    /\ \A u \in U : MonthsSync(n, me, now, Top(n, stored), Top(n, summary), sync[u])

LEMMA SlipIs == \A s : Slip(s) \in 0..1 /\ (s.over = TRUE => Slip(s) = 1) /\ (s.over = FALSE => Slip(s) = 0)
<1> QED  BY DEF Slip

LEMMA MonthsGrow ==
    ASSUME NEW n \in Nat, NEW me, NEW k \in Nat, NEW L \in Int, NEW M \in Int, NEW L2 \in Int, NEW M2 \in Int,
           L <= L2, M <= M2, NEW s, MonthsSync(n, me, k, L, M, s)
    PROVE  MonthsSync(n, me, k, L2, M2, s)
<1>1. Slip(s) \in 0..1  BY SlipIs
<1>2. s.at = "fetched" => \A d \in 0..(n - 1) : s.data[d] > 0 => d <= L2 + 1 /\ 3 * d <= k
  BY DEF MonthsSync
<1>3. s.at \in Stored => k - Slip(s) <= 3 * L2 + 2
  <2> DEFINE z == Slip(s)
  <2>1. z \in Int /\ (s.at \in Stored => k - z <= 3 * L + 2)  BY <1>1 DEF MonthsSync
  <2> HIDE DEF z
  <2>2. s.at \in Stored => k - z <= 3 * L2 + 2  BY <2>1
  <2> QED  BY <2>2 DEF z
<1>4. s.at = "commit" => \A d \in 0..(n - 1) :
        /\ s.data[d] > 0 => d <= M2 + 1
        /\ k - Slip(s) >= 3 * d + 4 => d <= M2 \/ (s.data[d] > 0 /\ MonthOf(me, d) \in s.left)
  BY DEF MonthsSync
<1>5. s.at \in {"combine", "given"} => Done(n, k - Slip(s), M2)  BY DEF MonthsSync, Done
<1>6. s.at = "fetched" => \E d \in 0..(n - 1) : s.data[d] > 0 /\ k - Slip(s) <= 3 * d + 2  BY DEF MonthsSync
<1> QED  BY <1>2, <1>3, <1>4, <1>5, <1>6 DEF MonthsSync

LEMMA MonthsLater ==
    ASSUME NEW n \in Nat, NEW me, NEW k \in Nat, NEW L \in Int, NEW M \in Int, NEW s, s.over = FALSE,
           MonthsSync(n, me, k, L, M, s)
    PROVE  MonthsSync(n, me, k + 1, L, M, Sync(s.at, TRUE, s.left, s.sums, s.data))
<1> DEFINE r == Sync(s.at, TRUE, s.left, s.sums, s.data)
<1>1. r.at = s.at /\ r.over = TRUE /\ r.left = s.left /\ r.data = s.data  BY DEF Sync
<1> HIDE DEF r
<1>2. Slip(s) = 0 /\ Slip(r) = 1  BY <1>1, SlipIs
<1>3. (k + 1) - 1 = k - 0 /\ k - 0 = k  OBVIOUS
<1>4. /\ r.at = "fetched" => /\ \A d \in 0..(n - 1) : r.data[d] > 0 => d <= L + 1 /\ 3 * d <= k + 1
                             /\ \E d \in 0..(n - 1) : r.data[d] > 0 /\ (k + 1) - 1 <= 3 * d + 2
      /\ r.at \in Stored => (k + 1) - 1 <= 3 * L + 2
  <2>1. r.at = "fetched" => /\ \A d \in 0..(n - 1) : r.data[d] > 0 => d <= L + 1 /\ 3 * d <= k
                            /\ \E d \in 0..(n - 1) : r.data[d] > 0 /\ k - 0 <= 3 * d + 2
    BY <1>1, <1>2 DEF MonthsSync
  <2>2. r.at \in Stored => k - 0 <= 3 * L + 2  BY <1>1, <1>2 DEF MonthsSync
  <2> QED  BY <1>3, <2>1, <2>2
<1>5. r.at = "commit" => \A d \in 0..(n - 1) :
        /\ r.data[d] > 0 => d <= M + 1
        /\ (k + 1) - 1 >= 3 * d + 4 => d <= M \/ (r.data[d] > 0 /\ MonthOf(me, d) \in r.left)
  BY <1>1, <1>2, <1>3 DEF MonthsSync
<1>6. r.at \in {"combine", "given"} => Done(n, (k + 1) - 1, M)  BY <1>1, <1>2, <1>3 DEF MonthsSync
<1> QED  BY <1>2, <1>4, <1>5, <1>6 DEF MonthsSync, r

LEMMA RestMonths ==
    ASSUME NEW n, NEW me, NEW k, NEW L, NEW M
    PROVE  MonthsSync(n, me, k, L, M, Rest)
<1> QED  BY RestIs DEF MonthsSync, Stored

LEMMA MonthsTime ==
    ASSUME NEW U, NEW n \in Nat, NEW me \in Nat, HistoryTyped(U, n, 0), MonthsSafe(U, n, me), Elapses(U, n, 0)
    PROVE  MonthsSafe(U, n, me)'
<1> DEFINE L == Top(n, stored)
           M == Top(n, summary)
<1>t. /\ now \in Nat /\ delivered \in 3..now /\ missed = 0 /\ stored \in DayParts(n) /\ summary \in DayParts(n)
      /\ \A u \in U : sync[u] = Rest \/ sync[u] \in Syncs(n)
  BY DEF HistoryTyped
<1>1. /\ now' = now + 1 /\ ran = TRUE /\ ran' = FALSE /\ stored' = stored /\ summary' = summary
      /\ delivered' = now + 1
  BY <1>t DEF Elapses, Fails
<1>2. L \in Int /\ M \in Int  BY <1>t, TopIs
<1>3. /\ NoGap(n, stored) /\ NoGap(n, summary) /\ 3 * L <= now /\ now <= 3 * L + 3 /\ Done(n, now - 1, M)
  BY <1>1 DEF MonthsSafe, MonthsStore
<1>4. 3 * L <= now' /\ now' <= 3 * L + 5
  <2> HIDE DEF L
  <2> QED  BY <1>1, <1>2, <1>3, <1>t
<1>5. Done(n, now' - 2, M)
  <2>1. now' - 2 = now - 1  BY <1>1, <1>t
  <2> QED  BY <1>3, <2>1
<1>6. MonthsStore(n)'  BY <1>1, <1>3, <1>4, <1>5 DEF MonthsStore
<1>7. ASSUME NEW u \in U PROVE MonthsSync(n, me, now + 1, L, M, sync'[u])
  <2>1. CASE sync[u] = Rest
    <3>1. sync'[u] = Rest  BY <2>1 DEF Elapses
    <3> QED  BY <3>1, RestMonths
  <2>2. CASE sync[u] # Rest
    <3>1. /\ sync[u].over = FALSE
          /\ sync'[u] = Sync(sync[u].at, TRUE, sync[u].left, sync[u].sums, sync[u].data)
      BY <2>2 DEF Elapses
    <3>2. MonthsSync(n, me, now, L, M, sync[u])  BY DEF MonthsSafe
    <3>3. MonthsSync(n, me, now + 1, L, M, Sync(sync[u].at, TRUE, sync[u].left, sync[u].sums, sync[u].data))
      BY <1>2, <1>t, <3>1, <3>2, MonthsLater
    <3> QED  BY <3>1, <3>3
  <2> QED  BY <2>1, <2>2
<1> QED  BY <1>1, <1>6, <1>7 DEF MonthsSafe

LEMMA MonthsOthers ==
    ASSUME NEW U, NEW n \in Nat, NEW me \in Nat, HistoryTyped(U, n, 0), MonthsSafe(U, n, me), NEW u \in U,
           now' = now, stored' \in DayParts(n), summary' \in DayParts(n),
           Top(n, stored) <= Top(n, stored'), Top(n, summary) <= Top(n, summary'),
           \A w \in U : w # u => sync'[w] = sync[w],
           MonthsSync(n, me, now, Top(n, stored'), Top(n, summary'), sync'[u]), MonthsStore(n)'
    PROVE  MonthsSafe(U, n, me)'
<1>1. /\ Top(n, stored) \in Int /\ Top(n, summary) \in Int /\ Top(n, stored') \in Int /\ Top(n, summary') \in Int
      /\ now \in Nat
  BY TopIs DEF HistoryTyped
<1>2. ASSUME NEW w \in U PROVE MonthsSync(n, me, now, Top(n, stored'), Top(n, summary'), sync'[w])
  <2>1. CASE w = u  BY <2>1
  <2>2. CASE w # u
    <3>1. MonthsSync(n, me, now, Top(n, stored), Top(n, summary), sync[w])  BY DEF MonthsSafe
    <3>2. MonthsSync(n, me, now, Top(n, stored'), Top(n, summary'), sync[w])  BY <1>1, <3>1, MonthsGrow
    <3> QED  BY <2>2, <3>2
  <2> QED  BY <2>1, <2>2
<1> QED  BY <1>2 DEF MonthsSafe

LEMMA MonthsStored ==
    ASSUME NEW U, NEW n \in Nat, NEW me \in Nat, HistoryTyped(U, n, 0), MonthsSafe(U, n, me), NEW u \in U,
           StoresAll(u, n)
    PROVE  HistoryTyped(U, n, 0)' /\ MonthsSafe(U, n, me)'
<1> DEFINE s == sync[u]
           D == 0..(n - 1)
           L == Top(n, stored)
           T == Top(n, stored')
           M == Top(n, summary)
<1>t. /\ now \in Nat /\ stored \in DayParts(n) /\ summary \in DayParts(n)  BY DEF HistoryTyped
<1>1. PICK days \in SUBSET D : Stores(u, n, days) /\ Overlaid(n, stored, s.data, stored')
  BY StoresOverlay
<1>2. /\ s.data \in DayParts(n) /\ stored' \in DayParts(n) /\ sync' \in [U -> {Rest} \cup Syncs(n)]
      /\ sync'[u] = Sync("synced", s.over, s.left, s.sums, Nothing(n))
      /\ \A w \in U : w # u => sync'[w] = sync[w]
  BY <1>1, StoresTyped
<1>3. UNCHANGED <<now, delivered, summary, ran, missed>> /\ s.at = "fetched"
  BY <1>1 DEF Stores, StoresAll
<1>4. HistoryTyped(U, n, 0)'  BY <1>2, <1>3 DEF HistoryTyped
<1>5. sync'[u].at = "synced" /\ sync'[u].over = s.over  BY <1>2 DEF Sync
<1>6. Slip(sync'[u]) = Slip(s) /\ Slip(s) \in 0..1  BY <1>5 DEF Slip
<1>7. \A d \in D : stored'[d] = IF s.data[d] > 0 THEN s.data[d] ELSE stored[d]  BY <1>1 DEF Overlaid
<1>8. MonthsStore(n) /\ MonthsSync(n, me, now, L, M, s)  BY DEF MonthsSafe
<1>9. /\ \A d \in D : s.data[d] > 0 => d <= L + 1 /\ 3 * d <= now
      /\ \E d \in D : s.data[d] > 0 /\ now - Slip(s) <= 3 * d + 2
  BY <1>3, <1>8 DEF MonthsSync
<1>10. PICK x \in D : s.data[x] > 0 /\ now - Slip(s) <= 3 * x + 2  BY <1>9
<1>11. /\ L \in Int /\ -1 <= L /\ \A d \in D : stored[d] > 0 => d <= L  BY <1>t, TopIs
<1>12. /\ T \in Int /\ (T >= 0 => T \in D /\ stored'[T] > 0) /\ \A d \in D : stored'[d] > 0 => d <= T
  BY <1>2, TopIs
<1>13. L <= T
  <2>1. \A d \in D : stored[d] > 0 => stored'[d] > 0  BY <1>7
  <2> QED  BY <1>t, <1>2, <2>1, TopGrows
<1>14. NoGap(n, stored) /\ 3 * L <= now /\ now <= 3 * L + 5 /\ (ran = TRUE => now <= 3 * L + 3)
  BY <1>8 DEF MonthsStore
<1>15. M \in Int  BY <1>t, TopIs
<1>16. \A d \in D : d <= L => stored[d] > 0  BY <1>14 DEF NoGap
<1> HIDE DEF L, T, M
<1>17. x <= T  BY <1>7, <1>10, <1>12
<1>18. T \in D /\ stored'[T] > 0  BY <1>12, <1>17
<1>19. T <= L + 1 /\ 3 * T <= now
  <2>1. CASE s.data[T] > 0  BY <1>9, <1>18, <2>1
  <2>2. CASE ~(s.data[T] > 0)
    <3>1. stored[T] > 0  BY <1>7, <1>18, <2>2
    <3>2. T <= L  BY <1>11, <1>18, <3>1
    <3> QED  BY <1>11, <1>12, <1>14, <1>t, <3>2
  <2> QED  BY <2>1, <2>2
<1>20. \A d \in D : d <= T => stored'[d] > 0
  <2>1. ASSUME NEW d \in D, d <= T PROVE stored'[d] > 0
    <3>1. CASE d = T  BY <1>18, <3>1
    <3>2. CASE d < T
      <4>1. stored[d] > 0  BY <1>11, <1>12, <1>16, <1>19, <3>2
      <4> QED  BY <1>7, <4>1
    <3> QED  BY <1>12, <2>1, <3>1, <3>2
  <2> QED  BY <2>1
<1>21. now <= 3 * T + 5 /\ (ran = TRUE => now <= 3 * T + 3)  BY <1>11, <1>12, <1>13, <1>14, <1>t
<1>22. now - Slip(s) <= 3 * T + 2
  <2> DEFINE z == Slip(s)
  <2>1. z \in Int /\ now - z <= 3 * x + 2  BY <1>6, <1>10
  <2> HIDE DEF z
  <2>2. now - z <= 3 * T + 2  BY <1>t, <1>12, <1>17, <2>1
  <2> QED  BY <2>2 DEF z
<1>23. MonthsSync(n, me, now, T, M, sync'[u])  BY <1>5, <1>6, <1>22 DEF MonthsSync, Stored
<1>24. NoGap(n, stored')  BY <1>20 DEF NoGap, T
<1>25. MonthsStore(n)'
  BY <1>3, <1>8, <1>19, <1>21, <1>24 DEF MonthsStore, T
<1> QED
  <2>1. /\ now' = now /\ summary' \in DayParts(n) /\ Top(n, summary') = M /\ M <= M
    BY <1>3, <1>t, <1>15 DEF M
  <2>2. /\ Top(n, stored) <= Top(n, stored') /\ Top(n, summary) <= Top(n, summary')
        /\ MonthsSync(n, me, now, Top(n, stored'), Top(n, summary'), sync'[u])
    BY <1>13, <1>23, <2>1 DEF L, T, M
  <2> QED  BY <1>2, <1>4, <1>25, <2>1, <2>2, MonthsOthers

LEMMA MonthsSummarised ==
    ASSUME NEW U, NEW n \in Nat, NEW me \in Nat, HistoryTyped(U, n, 0), MonthsSafe(U, n, me), NEW u \in U,
           Summarises(u, n, me)
    PROVE  HistoryTyped(U, n, 0)' /\ MonthsSafe(U, n, me)'
<1> DEFINE s == sync[u]
           D == 0..(n - 1)
           days == Unsummarised(n)
           left == MonthsOf(me, days)
           data == StoredOf(n, days)
           L == Top(n, stored)
           M == Top(n, summary)
<1>t. now \in Nat /\ stored \in DayParts(n) /\ summary \in DayParts(n)  BY DEF HistoryTyped
<1>1. /\ HistoryTyped(U, n, 0)' /\ sync'[u] = Sync("commit", s.over, left, summary, data)
      /\ \A w \in U : w # u => sync'[w] = sync[w]
  BY SummarisesTyped DEF MonthsSafe
<1>2. sync'[u].at = "commit" /\ sync'[u].over = s.over /\ sync'[u].left = left /\ sync'[u].data = data
  BY <1>1 DEF Sync
<1>3. UNCHANGED <<now, delivered, stored, summary, ran, missed>> /\ s.at = "synced"  BY DEF Summarises
<1>4. Slip(sync'[u]) = Slip(s) /\ Slip(s) \in 0..1  BY <1>2 DEF Slip
<1>5. MonthsStore(n) /\ MonthsSync(n, me, now, L, M, s)  BY DEF MonthsSafe
<1>6. now - Slip(s) <= 3 * L + 2  BY <1>3, <1>5 DEF MonthsSync, Stored
<1>7. /\ NoGap(n, stored) /\ now <= 3 * L + 5 /\ Done(n, now - 2, M)  BY <1>5 DEF MonthsStore
<1>8. /\ L \in Int /\ M \in Int /\ -1 <= M  BY <1>t, TopIs
<1>9. ASSUME NEW d \in days PROVE d \in D /\ d >= M + 1 /\ 3 * d + 3 <= now
  <2> DEFINE from == M + 1
  <2>1. from \in Int /\ days = Completed(n, from)  BY <1>8 DEF Unsummarised
  <2> HIDE DEF from, days
  <2>2. d \in D /\ d >= from /\ 3 * d + 3 <= now  BY <1>9, <1>t, <2>1, CompletedIs
  <2> QED  BY <2>2 DEF from
<1>10. ASSUME NEW d \in D, d >= M + 1, now >= 3 * d + 4 PROVE d \in days
  <2> DEFINE from == M + 1
             t == now \div 3
  <2>1. t \in Nat /\ now <= 3 * t + 2  BY <1>t, DayOf
  <2> HIDE DEF t
  <2>2. d < t  BY <1>t, <1>10, <2>1
  <2>3. \A e \in from..d : Eligible(e)
    <3>1. \A e \in from..d : now >= 3 * (e + 1) + 1  BY <1>t, <1>8, <1>10
    <3> QED  BY <3>1 DEF Eligible
  <2> QED  BY <1>10, <2>2, <2>3 DEF Unsummarised, Completed, t
<1>11. \A d \in D : data[d] = IF d \in days THEN stored[d] ELSE 0  BY DEF StoredOf
<1>12. \A d \in days : MonthOf(me, d) \in left  BY DEF MonthsOf
<1>13. \A d \in D : d <= L => stored[d] > 0  BY <1>7 DEF NoGap
<1> HIDE DEF days, left, data, L, M
<1>14. ASSUME NEW d \in D PROVE data[d] > 0 => d <= M + 1
  <2>1. SUFFICES ASSUME data[d] > 0 PROVE d <= M + 1  OBVIOUS
  <2>2. d \in days  BY <1>11, <2>1
  <2>3. 3 * d + 3 <= now  BY <1>9, <2>2
  <2>4. CASE d = 0  BY <1>8, <2>4
  <2>5. CASE d >= 1
    <3>1. d - 1 \in D /\ now - 2 >= 3 * (d - 1) + 4 => d - 1 <= M  BY <1>7, <2>5 DEF Done
    <3> QED  BY <1>8, <1>t, <2>3, <2>5, <3>1
  <2> QED  BY <2>4, <2>5
<1>15. ASSUME NEW d \in D PROVE now - Slip(s) >= 3 * d + 4 => d <= M \/ (data[d] > 0 /\ MonthOf(me, d) \in left)
  <2> DEFINE z == Slip(s)
  <2>1. z \in 0..1 /\ now - z <= 3 * L + 2  BY <1>4, <1>6
  <2> HIDE DEF z
  <2>2. SUFFICES ASSUME now - z >= 3 * d + 4, ~(d <= M) PROVE data[d] > 0 /\ MonthOf(me, d) \in left  BY DEF z
  <2>3. now >= 3 * d + 4 /\ d >= M + 1 /\ d <= L  BY <1>8, <1>t, <2>1, <2>2
  <2>4. d \in days  BY <1>10, <2>3
  <2> QED  BY <1>11, <1>12, <1>13, <2>3, <2>4
<1>16. MonthsSync(n, me, now, L, M, sync'[u])  BY <1>2, <1>4, <1>6, <1>14, <1>15 DEF MonthsSync, Stored
<1>17. MonthsStore(n)'  BY <1>3, <1>5 DEF MonthsStore
<1>18. /\ now' = now /\ stored' \in DayParts(n) /\ summary' \in DayParts(n)
       /\ Top(n, stored) <= Top(n, stored') /\ Top(n, summary) <= Top(n, summary')
       /\ MonthsSync(n, me, now, Top(n, stored'), Top(n, summary'), sync'[u])
  BY <1>3, <1>8, <1>16, <1>t DEF L, M
<1> QED  BY <1>1, <1>17, <1>18, MonthsOthers

LEMMA MonthsCommits ==
    ASSUME NEW U, NEW n \in Nat, NEW me \in Nat, HistoryTyped(U, n, 0), MonthsSafe(U, n, me), NEW u \in U,
           NEW m \in {1, 2}, Commits(u, n, me, m)
    PROVE  HistoryTyped(U, n, 0)' /\ MonthsSafe(U, n, me)'
<1> DEFINE s == sync[u]
           D == 0..(n - 1)
           L == Top(n, stored)
           M == Top(n, summary)
           T == Top(n, summary')
<1>t. /\ now \in Nat /\ stored \in DayParts(n) /\ summary \in DayParts(n)
      /\ sync \in [U -> {Rest} \cup Syncs(n)]
  BY DEF HistoryTyped
<1>1. HistoryTyped(U, n, 0)'
  <2>1. 0 \in Nat  OBVIOUS
  <2> QED  BY <2>1, CommitsTyped
<1>2. /\ sync'[u] = Sync("commit", s.over, Without(s.left, m), s.sums, s.data)
      /\ \A w \in U : w # u => sync'[w] = sync[w]
  BY <1>t, CommitsSets
<1>3. /\ sync'[u].at = "commit" /\ sync'[u].over = s.over /\ sync'[u].left = Without(s.left, m)
      /\ sync'[u].data = s.data
  BY <1>2 DEF Sync
<1>4. /\ UNCHANGED <<now, delivered, stored, ran, missed>> /\ s.at = "commit" /\ m \in s.left
      /\ summary' = MonthMerged(n, me, summary, s.data, m)
  BY DEF Commits
<1>5. summary' \in DayParts(n)  BY <1>1 DEF HistoryTyped
<1>6. Slip(sync'[u]) = Slip(s) /\ Slip(s) \in 0..1  BY <1>3 DEF Slip
<1>7. MonthsStore(n) /\ MonthsSync(n, me, now, L, M, s)  BY DEF MonthsSafe
<1>8. /\ now - Slip(s) <= 3 * L + 2
      /\ \A d \in D : /\ s.data[d] > 0 => d <= M + 1
                      /\ now - Slip(s) >= 3 * d + 4 => d <= M \/ (s.data[d] > 0 /\ MonthOf(me, d) \in s.left)
  BY <1>4, <1>7 DEF MonthsSync, Stored
<1>9. \A d \in D : summary'[d] = IF MonthOf(me, d) = m /\ s.data[d] > 0 THEN s.data[d] ELSE summary[d]
  BY <1>4 DEF MonthMerged
<1>10. \A d \in D : summary[d] > 0 => summary'[d] > 0  BY <1>9
<1>11. M <= T  BY <1>5, <1>10, <1>t, TopGrows
<1>12. /\ M \in Int /\ T \in Int /\ (T >= 0 => T \in D /\ summary'[T] > 0) /\ L \in Int
       /\ \A d \in D : summary[d] > 0 => d <= M
       /\ \A d \in D : summary'[d] > 0 => d <= T
  BY <1>5, <1>t, TopIs
<1>13. \A d \in D : d <= M => summary[d] > 0  BY <1>7 DEF MonthsStore, NoGap
<1>14. \A k \in Int : Done(n, k, M) => Done(n, k, T)  BY <1>11, <1>12 DEF Done
<1>a. now - 1 \in Int /\ now - 2 \in Int  BY <1>t
<1> HIDE DEF L, M, T
<1>15. ASSUME NEW d \in D, d <= T PROVE summary'[d] > 0
  <2>1. T \in D /\ summary'[T] > 0  BY <1>12, <1>15
  <2>2. CASE d <= M  BY <1>10, <1>13, <2>2
  <2>3. CASE d > M
    <3>1. ~(summary[T] > 0)  BY <1>12, <1>15, <2>1, <2>3
    <3>2. s.data[T] > 0  BY <1>9, <2>1, <3>1
    <3>3. T <= M + 1  BY <1>8, <2>1, <3>2
    <3>4. d = T  BY <1>12, <1>15, <2>1, <2>3, <3>3
    <3> QED  BY <2>1, <3>4
  <2> QED  BY <1>12, <2>2, <2>3
<1>16. NoGap(n, summary')  BY <1>15 DEF NoGap, T
<1>17. ASSUME NEW d \in D
       PROVE  /\ s.data[d] > 0 => d <= T + 1
              /\ now - Slip(s) >= 3 * d + 4 => d <= T \/ (s.data[d] > 0 /\ MonthOf(me, d) \in Without(s.left, m))
  <2>1. s.data[d] > 0 => d <= T + 1  BY <1>8, <1>11, <1>12
  <2>2. ASSUME now - Slip(s) >= 3 * d + 4, ~(d <= T)
        PROVE  s.data[d] > 0 /\ MonthOf(me, d) \in Without(s.left, m)
    <3>1. ~(d <= M)  BY <1>11, <1>12, <2>2
    <3>2. s.data[d] > 0 /\ MonthOf(me, d) \in s.left  BY <1>8, <2>2, <3>1
    <3>3. ~(summary'[d] > 0)  BY <1>12, <2>2
    <3>4. MonthOf(me, d) # m  BY <1>9, <3>2, <3>3
    <3> QED  BY <3>2, <3>4 DEF Without
  <2> QED  BY <2>1, <2>2
<1>18. MonthsSync(n, me, now, L, T, sync'[u])  BY <1>3, <1>6, <1>8, <1>17 DEF MonthsSync, Stored
<1>19. MonthsStore(n)'
  <2>1. /\ delivered = now /\ NoGap(n, stored) /\ 3 * Top(n, stored) <= now /\ now <= 3 * Top(n, stored) + 5
        /\ ran = TRUE => now <= 3 * Top(n, stored) + 3 /\ Done(n, now - 1, T)
        /\ Done(n, now - 2, T)
    BY <1>7, <1>14, <1>a DEF MonthsStore, M
  <2> QED  BY <1>4, <1>16, <2>1 DEF MonthsStore, T
<1>20. /\ now' = now /\ stored' \in DayParts(n) /\ summary' \in DayParts(n)
       /\ Top(n, stored) <= Top(n, stored') /\ Top(n, summary) <= Top(n, summary')
       /\ MonthsSync(n, me, now, Top(n, stored'), Top(n, summary'), sync'[u])
  BY <1>4, <1>5, <1>11, <1>12, <1>18, <1>t DEF L, M, T
<1> QED  BY <1>1, <1>2, <1>19, <1>20, MonthsOthers

LEMMA MonthsMoves ==
    ASSUME NEW U, NEW n \in Nat, NEW me \in Nat, NEW lb \in Nat, HistoryTyped(U, n, 0), MonthsSafe(U, n, me),
           NEW u \in U, Moves(u, n, me, lb)
    PROVE  HistoryTyped(U, n, 0)' /\ MonthsSafe(U, n, me)'
<1> DEFINE s == sync[u]
           D == 0..(n - 1)
           L == Top(n, stored)
           M == Top(n, summary)
<1>t. /\ now \in Nat /\ now \in 0..(3 * n - 1) /\ stored \in DayParts(n) /\ summary \in DayParts(n)
      /\ sync \in [U -> {Rest} \cup Syncs(n)] /\ 0 \in Nat
  BY DEF HistoryTyped
<1>1. MonthsStore(n) /\ MonthsSync(n, me, now, L, M, s)  BY DEF MonthsSafe
<1>2. L \in Int /\ M \in Int  BY <1>t, TopIs
<1>3. delivered = now /\ 3 * L <= now /\ now <= 3 * L + 5  BY <1>1 DEF MonthsStore
<1>4. ASSUME HistoryTyped(U, n, 0)', UNCHANGED <<now, delivered, stored, summary>>,
             \A w \in U : w # u => sync'[w] = sync[w],
             MonthsSync(n, me, now, L, M, sync'[u]),
             ran' = TRUE => ran = TRUE \/ (now <= 3 * L + 3 /\ Done(n, now - 1, M))
      PROVE  HistoryTyped(U, n, 0)' /\ MonthsSafe(U, n, me)'
  <2>1. MonthsStore(n)'  BY <1>1, <1>4 DEF MonthsStore
  <2>2. L <= L /\ M <= M  BY <1>2
  <2>3. /\ now' = now /\ stored' \in DayParts(n) /\ summary' \in DayParts(n)
        /\ Top(n, stored) <= Top(n, stored') /\ Top(n, summary) <= Top(n, summary')
        /\ MonthsSync(n, me, now, Top(n, stored'), Top(n, summary'), sync'[u])
    BY <1>4, <1>t, <2>2
  <2> QED  BY <1>4, <2>1, <2>3, MonthsOthers
<1>5. CASE Fetches(u, n, lb)
  <2>1. /\ HistoryTyped(U, n, 0)' /\ sync'[u] = Sync("fetched", FALSE, {}, Nothing(n), Given(n, lb))
        /\ \A w \in U : w # u => sync'[w] = sync[w]
    <3>1. HistoryTyped(U, n, 0)  OBVIOUS
    <3> HIDE DEF L, M
    <3>3. 0 \in Nat /\ n \in Nat /\ lb \in Nat /\ u \in U  BY <1>t
    <3>4. HistoryTyped(U, n, 0)' /\ \A w \in U : w # u => sync'[w] = sync[w]
      BY <1>5, <3>1, <3>3, SomeFetches
    <3>2. sync'[u] = Sync("fetched", FALSE, {}, Nothing(n), Given(n, lb))
      BY <1>5, <1>t DEF Fetches, Changes
    <3> QED  BY <3>2, <3>4
  <2>2. sync'[u].at = "fetched" /\ sync'[u].data = Given(n, lb) /\ sync'[u].over = FALSE  BY <2>1 DEF Sync
  <2>3. UNCHANGED <<now, delivered, stored, summary, ran, missed>>  BY <1>5 DEF Fetches
  <2> DEFINE x == now \div 3
             from == SyncFrom(n, lb)
  <2>4. x \in Nat /\ 3 * x <= now /\ now <= 3 * x + 2  BY <1>t, DayOf
  <2>5. delivered \in Int  BY <1>3, <1>t
  <2>6. /\ from \in Int
        /\ \A d \in D : /\ Given(n, lb)[d] > 0 => d >= from /\ 3 * d <= now
                        /\ d >= from /\ 3 * d <= now => Given(n, lb)[d] = Arrived(d)
    BY <1>t, <2>5, GivenTyped
  <2>7. from = IF L > x - lb THEN L ELSE x - lb  BY DEF SyncFrom
  <2> HIDE DEF x, from, L
  <2>8. from <= x
    <3>1. L <= x  BY <1>2, <1>3, <1>t, <2>4
    <3> QED  BY <1>2, <2>4, <2>7, <3>1
  <2>9. x \in D  BY <1>t, <2>4
  <2>10. Arrived(x) = delivered - 3 * x + 1  BY <1>3, <2>4, <2>5, ArrivedIs
  <2>11. Given(n, lb)[x] > 0  BY <1>3, <1>t, <2>4, <2>6, <2>8, <2>9, <2>10
  <2>12. \A d \in D : Given(n, lb)[d] > 0 => d <= L + 1 /\ 3 * d <= now  BY <1>2, <1>3, <1>t, <2>6
  <2>13. Slip(sync'[u]) = 0  BY <2>2, SlipIs
  <2>14. now - 0 <= 3 * x + 2  BY <1>t, <2>4
  <2>15. MonthsSync(n, me, now, L, M, sync'[u])
    BY <2>2, <2>9, <2>11, <2>12, <2>13, <2>14 DEF MonthsSync, Stored
  <2> QED  BY <1>4, <2>1, <2>3, <2>15 DEF L
<1>6. CASE StoresAll(u, n)  BY <1>6, MonthsStored
<1>7. CASE Summarises(u, n, me)  BY <1>7, MonthsSummarised
<1>8. CASE \E m \in {1, 2} : Commits(u, n, me, m)  BY <1>8, MonthsCommits
<1>9. CASE Committed(u, n)
  <2>1. /\ HistoryTyped(U, n, 0)'
        /\ sync'[u] = Sync("combine", s.over, s.left, Filled(n, s.sums, s.data), Nothing(n))
        /\ \A w \in U : w # u => sync'[w] = sync[w]
    BY <1>9, <1>t, CommittedTyped
  <2>2. sync'[u].at = "combine" /\ sync'[u].over = s.over  BY <2>1 DEF Sync
  <2>3. UNCHANGED <<now, delivered, stored, summary, ran, missed>> /\ s.at = "commit" /\ s.left = {}
    BY <1>9 DEF Committed
  <2>4. Slip(sync'[u]) = Slip(s)  BY <2>2 DEF Slip
  <2>5. now - Slip(s) <= 3 * L + 2 /\ Done(n, now - Slip(s), M)  BY <1>1, <2>3 DEF MonthsSync, Stored, Done
  <2>6. MonthsSync(n, me, now, L, M, sync'[u])  BY <2>2, <2>4, <2>5 DEF MonthsSync, Stored
  <2> QED  BY <1>4, <2>1, <2>3, <2>6
<1>10. CASE Combines(u, n)
  <2>1. /\ HistoryTyped(U, n, 0)' /\ sync'[u].at = "given" /\ sync'[u].over = s.over
        /\ \A w \in U : w # u => sync'[w] = sync[w]
    BY <1>10, <1>t, CombinesTyped
  <2>2. UNCHANGED <<now, delivered, stored, summary, ran, missed>> /\ s.at = "combine"  BY <1>10 DEF Combines
  <2>3. Slip(sync'[u]) = Slip(s)  BY <2>1 DEF Slip
  <2>4. now - Slip(s) <= 3 * L + 2 /\ Done(n, now - Slip(s), M)  BY <1>1, <2>2 DEF MonthsSync, Stored
  <2>5. MonthsSync(n, me, now, L, M, sync'[u])  BY <2>1, <2>3, <2>4 DEF MonthsSync, Stored
  <2> QED  BY <1>4, <2>1, <2>2, <2>5
<1>11. CASE Finishes(u)
  <2>1. /\ HistoryTyped(U, n, 0)' /\ sync'[u] = Rest
        /\ \A w \in U : w # u => sync'[w] = sync[w]
    BY <1>11, <1>t, FinishesTyped
  <2>2. UNCHANGED <<now, delivered, stored, summary, missed>> /\ s.at = "given"  BY <1>11 DEF Finishes
  <2>3. now - Slip(s) <= 3 * L + 2 /\ Done(n, now - Slip(s), M)  BY <1>1, <2>2 DEF MonthsSync, Stored
  <2> DEFINE z == Slip(s)
  <2>4. z \in 0..1  BY SlipIs
  <2>5. Done(n, now - z, M)  BY <2>3
  <2> HIDE DEF z
  <2>6. now <= 3 * L + 3
    <3>1. now - z <= 3 * L + 2  BY <2>3 DEF z
    <3> HIDE DEF L
    <3> QED  BY <1>2, <1>t, <2>4, <3>1
  <2>7. Done(n, now - 1, M)
    <3>1. \A d \in D : now - 1 >= 3 * d + 4 => now - z >= 3 * d + 4  BY <1>t, <2>4
    <3> QED  BY <2>5, <3>1 DEF Done
  <2>8. MonthsSync(n, me, now, L, M, sync'[u])  BY <2>1, RestMonths
  <2> QED  BY <1>4, <2>1, <2>2, <2>6, <2>7, <2>8
<1> QED  BY <1>5, <1>6, <1>7, <1>8, <1>9, <1>10, <1>11 DEF Moves

LEMMA DelayedSteps ==
    ASSUME PartsAssumption, HistoryAssumption, HistoryTyped({1}, DelayedDays, DelayedFaults), Delayed!Next
    PROVE  \/ Elapses({1}, DelayedDays, DelayedFaults)
           \/ \E u \in {1} : Moves(u, DelayedDays, DelayedEnd, LongLookback) \/ FetchFails(u, DelayedDays, DelayedFaults)
<1> DEFINE n == DelayedDays
           me == DelayedEnd
           lb == LongLookback
           F == DelayedFaults
           U == {1}
<1>n. n \in Nat  BY DEF HistoryAssumption
<1>t. now \in 0..(3 * n - 1) /\ stored \in DayParts(n) /\ summary \in DayParts(n) /\ missed \in 0..F
  BY DEF HistoryTyped
<1>s. \A u \in U : sync[u] = Rest \/ sync[u] \in Syncs(n)  BY DEF HistoryTyped
<1>f. /\ Delayed!Dates = 0..(n - 1) /\ Delayed!Today = now \div 3 /\ Delayed!Idle = Rest /\ Delayed!None = Nothing(n)
      /\ \A d : Delayed!Month(d) = MonthOf(me, d) /\ Delayed!Delivered(d) = Arrived(d) /\ Delayed!Eligible(d) = Eligible(d)
  BY DEF Delayed!Dates, Delayed!Today, Delayed!Idle, Delayed!Idle, Rest, Delayed!None, Nothing, Delayed!Month, MonthOf,
         Delayed!Delivered, Arrived, Delayed!Eligible, Eligible, Faulted!Month
<1>l. \A parts : Delayed!Latest(parts) = Top(n, parts)  BY <1>f DEF Delayed!Latest, Top
<1>d. Delayed!SyncDay = SyncFrom(n, lb)  BY <1>f, <1>l DEF Delayed!SyncDay, SyncFrom
<1>1. CASE Delayed!Tick
  <2>1. now + 1 < 3 * n /\ now' = now + 1 /\ ran = TRUE /\ ran' = FALSE
    BY <1>1, <1>t DEF Delayed!Tick, HistoryTyped
  <2>2. \A u \in U : sync[u] # Rest => sync[u].over = FALSE
    BY <1>1, <1>s, <1>f, SyncFields DEF Delayed!Tick
  <2>3. sync' = [u \in U |-> IF sync[u] = Rest THEN Rest ELSE
                    Sync(sync[u].at, TRUE, sync[u].left, sync[u].sums, sync[u].data)]
    <3>1. sync' = [u \in U |-> IF sync[u] = Rest THEN Rest ELSE [sync[u] EXCEPT !.over = TRUE]]
      BY <1>1, <1>f DEF Delayed!Tick
    <3>2. \A u \in U : sync[u] # Rest =>
              [sync[u] EXCEPT !.over = TRUE] = Sync(sync[u].at, TRUE, sync[u].left, sync[u].sums, sync[u].data)
      BY <1>s, SyncOver
    <3> QED  BY <3>1, <3>2
  <2>4. (delivered' = now + 1 /\ missed' = missed) \/ (Fails(F) /\ delivered' = delivered)
    BY <1>1 DEF Delayed!Tick, Delayed!Fault, Fails
  <2>5. stored' = stored /\ summary' = summary  BY <1>1 DEF Delayed!Tick
  <2> QED  BY <2>1, <2>2, <2>3, <2>4, <2>5 DEF Elapses
<1>2. ASSUME NEW u \in U, Delayed!Fetch(u) PROVE Fetches(u, n, lb) \/ FetchFails(u, n, F)
  <2> DEFINE k == [at |-> "fetched", over |-> FALSE, left |-> {}, sums |-> Delayed!None, data |->
                    [d \in Delayed!Dates |-> IF d >= Delayed!SyncDay /\ d <= Delayed!Today THEN Delayed!Delivered(d) ELSE 0]]
  <2>1. [d \in Delayed!Dates |-> IF d >= Delayed!SyncDay /\ d <= Delayed!Today THEN Delayed!Delivered(d) ELSE 0] = Given(n, lb)
    BY <1>f, <1>d DEF Given
  <2>2. k = Sync("fetched", FALSE, {}, Nothing(n), Given(n, lb))  BY <2>1, <1>f DEF Sync
  <2>3. [k EXCEPT !.at = "synced", !.data = Delayed!None] = Sync("synced", FALSE, {}, Nothing(n), Nothing(n))
    <3> DEFINE p == "fetched"
               a == "synced"
               o == FALSE
               l == {}
               e == Given(n, lb)
               z == Nothing(n)
    <3>1. k = Sync(p, o, l, z, e)  BY <2>2
    <3>2. Delayed!None = z  BY <1>f
    <3> HIDE DEF k, p, o, l, z, e
    <3>3. k = [f \in {"at", "over", "left", "sums", "data"} |->
                   IF f = "at" THEN p ELSE IF f = "over" THEN o ELSE IF f = "left" THEN l
                   ELSE IF f = "sums" THEN z ELSE e]
      BY <3>1, SyncWhole
    <3>4. [k EXCEPT !.at = a, !.data = z] = Sync(a, o, l, z, z)  BY <3>3, SyncWhole
    <3> QED  BY <3>2, <3>4 DEF a, o, l, z
  <2>4. /\ sync[u] = Rest /\ UNCHANGED <<now, delivered, stored, summary, ran>>
        /\ \/ sync' = [sync EXCEPT ![u] = k] /\ missed' = missed
           \/ Delayed!Fault("history") /\ sync' = [sync EXCEPT ![u] = [k EXCEPT !.at = "synced", !.data = Delayed!None]]
    BY <1>2, <1>f DEF Delayed!Fetch
  <2> HIDE DEF k
  <2>5. CASE sync' = [sync EXCEPT ![u] = k] /\ missed' = missed
    BY <2>2, <2>4, <2>5 DEF Fetches, Changes
  <2>6. CASE Delayed!Fault("history") /\ sync' = [sync EXCEPT ![u] = [k EXCEPT !.at = "synced", !.data = Delayed!None]]
    BY <2>3, <2>4, <2>6 DEF Delayed!Fault, Fails, FetchFails, Changes
  <2> QED  BY <2>4, <2>5, <2>6
<1>3. ASSUME NEW u \in U, Delayed!Store(u) PROVE StoresAll(u, n)
  <2> DEFINE days == {d \in Delayed!Dates : sync[u].data[d] > 0}
  <2>1. sync[u].at = "fetched" /\ UNCHANGED <<now, delivered, summary, ran>>  BY <1>3 DEF Delayed!Store
  <2>2. sync[u] # Rest  BY <2>1, RestIs
  <2>3. Changes(u, Sync("synced", sync[u].over, sync[u].left, sync[u].sums, Nothing(n)))
    <3>1. sync' = [sync EXCEPT ![u].at = "synced", ![u].data = Nothing(n)]  BY <1>3, <1>f DEF Delayed!Store
    <3>2. \A a, d : [sync EXCEPT ![u].at = a, ![u].data = d] =
              [sync EXCEPT ![u] = Sync(a, sync[u].over, sync[u].left, sync[u].sums, d)]
      BY <2>2, SyncGoes DEF HistoryTyped
    <3> QED  BY <3>1, <3>2 DEF Changes
  <2>4. ASSUME NEW some \in SUBSET days, Delayed!Write(some, sync[u].data) PROVE Stores(u, n, some)
    <3>1. stored' = Replaced(n, some, stored, sync[u].data)  BY <2>4, <1>f DEF Delayed!Write, Replaced
    <3> QED  BY <2>1, <2>3, <3>1 DEF Stores
  <2>5. \/ Delayed!Write(days, sync[u].data) /\ missed' = missed
        \/ \E some \in SUBSET days : Delayed!Fault("bulk") /\ Delayed!Write(some, sync[u].data)
    BY <1>3 DEF Delayed!Store
  <2>6. days \in SUBSET (0..(n - 1)) /\ \A d \in 0..(n - 1) : sync[u].data[d] > 0 => d \in days  BY <1>f
  <2> HIDE DEF days
  <2>7. CASE Delayed!Write(days, sync[u].data) /\ missed' = missed
    <3>1. Stores(u, n, days)  BY <2>4, <2>7
    <3> QED  BY <3>1, <2>6, <2>7 DEF StoresAll
  <2>8. CASE \E some \in SUBSET days : Delayed!Fault("bulk") /\ Delayed!Write(some, sync[u].data)
    <3>1. PICK some \in SUBSET days : Delayed!Fault("bulk") /\ Delayed!Write(some, sync[u].data)  BY <2>8
    <3>2. Stores(u, n, some) /\ some \in SUBSET (0..(n - 1))  BY <2>4, <2>6, <3>1
    <3> QED  BY <3>1, <3>2 DEF StoresSome, Fails, Delayed!Fault
  <2> QED  BY <2>5, <2>7, <2>8
<1>4. ASSUME NEW u \in U, Delayed!Summarise(u) PROVE Summarises(u, n, me)
  <2> DEFINE days == Unsummarised(n)
  <2>1. Delayed!Committed(Delayed!Latest(summary) + 1) = days
    BY <1>f, <1>l DEF Delayed!Committed, Completed, Unsummarised
  <2>2. {Delayed!Month(d) : d \in days} = MonthsOf(me, days)  BY <1>f DEF MonthsOf
  <2>3. sync' = [sync EXCEPT ![u] = Sync("commit", sync[u].over, MonthsOf(me, days), summary, StoredOf(n, days))]
    BY <1>4, <1>f, <2>1, <2>2 DEF Delayed!Summarise, Sync, StoredOf
  <2> QED  BY <1>4, <2>3 DEF Delayed!Summarise, Summarises, Changes
<1>5. ASSUME NEW u \in U, NEW m \in {1, 2}, Delayed!Commit(u, m) PROVE Commits(u, n, me, m)
  <2>1. sync[u].at = "commit" /\ m \in sync[u].left /\ UNCHANGED <<now, delivered, stored, ran>>
    BY <1>5 DEF Delayed!Commit
  <2>2. sync[u] # Rest /\ sync \in [U -> {Rest} \cup Syncs(n)] /\ sync[u] \in Syncs(n)
    BY <2>1, RestIs, <1>s DEF HistoryTyped
  <2>3. \/ /\ summary' = Delayed!Merged(summary, sync[u].data, m)
           /\ sync' = [sync EXCEPT ![u].left = sync[u].left \ {m}] /\ missed' = missed
        \/ /\ Delayed!Fault("summary") /\ summary' = summary
           /\ sync' = [sync EXCEPT ![u].at = "combine", ![u].data = Delayed!None, ![u].left = {}]
    BY <1>5 DEF Delayed!Commit
  <2>4. CASE /\ summary' = Delayed!Merged(summary, sync[u].data, m)
             /\ sync' = [sync EXCEPT ![u].left = sync[u].left \ {m}] /\ missed' = missed
    <3>1. summary' = MonthMerged(n, me, summary, sync[u].data, m)  BY <2>4, <1>f DEF Delayed!Merged, MonthMerged
    <3>2. sync' = [sync EXCEPT ![u] = Sync("commit", sync[u].over, Without(sync[u].left, m), sync[u].sums, sync[u].data)]
      <4>1. \A l : [sync EXCEPT ![u].left = l] =
                [sync EXCEPT ![u] = Sync(sync[u].at, sync[u].over, l, sync[u].sums, sync[u].data)]
        BY <2>2, SyncLeft
      <4> QED  BY <2>1, <2>4, <4>1 DEF Without
    <3> QED  BY <2>1, <2>4, <3>1, <3>2 DEF Commits, Changes
  <2>5. CASE /\ Delayed!Fault("summary") /\ summary' = summary
             /\ sync' = [sync EXCEPT ![u].at = "combine", ![u].data = Delayed!None, ![u].left = {}]
    <3>1. sync' = [sync EXCEPT ![u] = Sync("combine", sync[u].over, {}, sync[u].sums, Nothing(n))]
      <4> DEFINE nil == {}
                 a == "combine"
      <4>1. sync' = [sync EXCEPT ![u].at = a, ![u].data = Delayed!None, ![u].left = nil]  BY <2>5
      <4> HIDE DEF nil, a
      <4>2. sync' = [sync EXCEPT ![u] = Sync(a, sync[u].over, nil, sync[u].sums, Delayed!None)]
        <5> DEFINE s == sync[u]
                   t == [s EXCEPT !.at = a, !.data = Delayed!None, !.left = nil]
        <5>1. s = [f \in {"at", "over", "left", "sums", "data"} |-> s[f]]  BY <2>2, SyncFields
        <5>2. t = Sync(a, s.over, nil, s.sums, Delayed!None)  BY <5>1, SyncWhole
        <5>3. [sync EXCEPT ![u].at = a, ![u].data = Delayed!None, ![u].left = nil] = [sync EXCEPT ![u] = t]  OBVIOUS
        <5> QED  BY <4>1, <5>2, <5>3
      <4> QED  BY <4>2, <1>f DEF nil, a
    <3> QED  BY <2>1, <2>5, <3>1 DEF CommitFails, Changes, Fails, Delayed!Fault
  <2> QED  BY <2>3, <2>4, <2>5
<1>6. ASSUME NEW u \in U, Delayed!Committing(u) PROVE Committed(u, n)
  <2>1. sync[u].at = "commit" /\ sync[u].left = {} /\ UNCHANGED <<now, delivered, stored, summary, ran, missed>>
    BY <1>6 DEF Delayed!Committing
  <2>2. sync[u] # Rest /\ sync \in [U -> {Rest} \cup Syncs(n)] /\ sync[u] \in Syncs(n)
    BY <2>1, RestIs, <1>s DEF HistoryTyped
  <2>3. [d \in Delayed!Dates |-> IF sync[u].data[d] > 0 THEN sync[u].data[d] ELSE sync[u].sums[d]] =
            Filled(n, sync[u].sums, sync[u].data)
    BY <1>f DEF Filled
  <2>4. sync' = [sync EXCEPT ![u].at = "combine", ![u].data = Delayed!None, ![u].sums =
                    [d \in Delayed!Dates |-> IF sync[u].data[d] > 0 THEN sync[u].data[d] ELSE sync[u].sums[d]]]
    BY <1>6, <2>2 DEF Delayed!Committing
  <2>5. sync' = [sync EXCEPT ![u] = Sync("combine", sync[u].over, sync[u].left,
                                         Filled(n, sync[u].sums, sync[u].data), Nothing(n))]
    <3> DEFINE sums == [d \in Delayed!Dates |-> IF sync[u].data[d] > 0 THEN sync[u].data[d] ELSE sync[u].sums[d]]
               a == "combine"
    <3>1. sync' = [sync EXCEPT ![u].at = a, ![u].data = Delayed!None, ![u].sums = sums]  BY <2>4
    <3> HIDE DEF sums, a
    <3>2. sync' = [sync EXCEPT ![u] = Sync(a, sync[u].over, sync[u].left, sums, Delayed!None)]
      <4> DEFINE s == sync[u]
                 t == [s EXCEPT !.at = a, !.data = Delayed!None, !.sums = sums]
      <4>1. s = [f \in {"at", "over", "left", "sums", "data"} |-> s[f]]  BY <2>2, SyncFields
      <4>2. t = Sync(a, s.over, s.left, sums, Delayed!None)  BY <4>1, SyncWhole
      <4>3. [sync EXCEPT ![u].at = a, ![u].data = Delayed!None, ![u].sums = sums] = [sync EXCEPT ![u] = t]  OBVIOUS
      <4> QED  BY <3>1, <4>2, <4>3
    <3> QED  BY <2>3, <3>2, <1>f DEF sums, a
  <2> QED  BY <2>1, <2>5 DEF Committed, Changes
<1>7. ASSUME NEW u \in U, Delayed!Combine(u) PROVE Combines(u, n)
  <2>1. sync[u].at = "combine" /\ UNCHANGED <<now, delivered, stored, summary, ran, missed>>
    BY <1>7 DEF Delayed!Combine
  <2>2. sync[u] # Rest /\ sync \in [U -> {Rest} \cup Syncs(n)] /\ sync[u] \in Syncs(n)
    BY <2>1, RestIs, <1>s DEF HistoryTyped
  <2> DEFINE data == [d \in Delayed!Dates |-> IF d > Delayed!Latest(sync[u].sums) \/ d = Delayed!Today
                             THEN Delayed!Larger(sync[u].sums[d], stored[d]) ELSE sync[u].sums[d]]
  <2>3. data \in DayParts(n)
    <3>1. sync[u].sums \in DayParts(n)  BY <2>2, SyncFields
    <3> QED  BY <3>1, <1>t, <1>f DEF DayParts, Delayed!Larger
  <2>4. sync' = [sync EXCEPT ![u].at = "given", ![u].data = data]  BY <1>7 DEF Delayed!Combine
  <2> HIDE DEF data
  <2>5. sync' = [sync EXCEPT ![u] = Sync("given", sync[u].over, sync[u].left, sync[u].sums, data)]
    <3>1. \A a, d : [sync EXCEPT ![u].at = a, ![u].data = d] =
              [sync EXCEPT ![u] = Sync(a, sync[u].over, sync[u].left, sync[u].sums, d)]
      BY <2>2, SyncGoes
    <3> QED  BY <2>4, <3>1
  <2> QED  BY <2>1, <2>3, <2>5 DEF Combines, Changes
<1>8. ASSUME NEW u \in U, Delayed!Finish(u) PROVE Finishes(u)
  BY <1>8, <1>f DEF Delayed!Finish, Finishes, Changes
<1>9. Delayed!Tick \/ \E u \in U : \/ Delayed!Fetch(u) \/ Delayed!Store(u) \/ Delayed!Summarise(u)
                              \/ Delayed!Committing(u) \/ Delayed!Combine(u) \/ Delayed!Finish(u)
                              \/ \E m \in {1, 2} : Delayed!Commit(u, m)
  BY DEF Delayed!Next
<1>10. CASE \E u \in U : \/ Delayed!Fetch(u) \/ Delayed!Store(u) \/ Delayed!Summarise(u)
                         \/ Delayed!Committing(u) \/ Delayed!Combine(u) \/ Delayed!Finish(u)
                         \/ \E m \in {1, 2} : Delayed!Commit(u, m)
  BY <1>2, <1>3, <1>4, <1>5, <1>6, <1>7, <1>8, <1>10 DEF Moves
<1> QED  BY <1>1, <1>9, <1>10

LEMMA FaultedSteps ==
    ASSUME PartsAssumption, HistoryAssumption, HistoryTyped({1}, DelayedDays, DelayedFaults), Faulted!Next
    PROVE  \/ Elapses({1}, DelayedDays, DelayedFaults)
           \/ \E u \in {1} : Moves(u, DelayedDays, DelayedDays, LongLookback) \/ FetchFails(u, DelayedDays, DelayedFaults)
               \/ StoresSome(u, DelayedDays, DelayedFaults) \/ CommitFails(u, DelayedDays, DelayedFaults)
<1> DEFINE n == DelayedDays
           me == DelayedDays
           lb == LongLookback
           F == DelayedFaults
           U == {1}
<1>n. n \in Nat  BY DEF HistoryAssumption
<1>t. now \in 0..(3 * n - 1) /\ stored \in DayParts(n) /\ summary \in DayParts(n) /\ missed \in 0..F
  BY DEF HistoryTyped
<1>s. \A u \in U : sync[u] = Rest \/ sync[u] \in Syncs(n)  BY DEF HistoryTyped
<1>f. /\ Faulted!Dates = 0..(n - 1) /\ Faulted!Today = now \div 3 /\ Faulted!Idle = Rest /\ Faulted!None = Nothing(n)
      /\ \A d : Faulted!Month(d) = MonthOf(me, d) /\ Faulted!Delivered(d) = Arrived(d) /\ Faulted!Eligible(d) = Eligible(d)
  BY DEF Faulted!Dates, Faulted!Today, Faulted!Idle, Delayed!Idle, Rest, Faulted!None, Nothing, Faulted!Month, MonthOf,
         Faulted!Delivered, Arrived, Faulted!Eligible, Eligible, Faulted!Month
<1>l. \A parts : Faulted!Latest(parts) = Top(n, parts)  BY <1>f DEF Faulted!Latest, Top
<1>d. Faulted!SyncDay = SyncFrom(n, lb)  BY <1>f, <1>l DEF Faulted!SyncDay, SyncFrom
<1>1. CASE Faulted!Tick
  <2>1. now + 1 < 3 * n /\ now' = now + 1 /\ ran = TRUE /\ ran' = FALSE
    BY <1>1, <1>t DEF Faulted!Tick, HistoryTyped
  <2>2. \A u \in U : sync[u] # Rest => sync[u].over = FALSE
    BY <1>1, <1>s, <1>f, SyncFields DEF Faulted!Tick
  <2>3. sync' = [u \in U |-> IF sync[u] = Rest THEN Rest ELSE
                    Sync(sync[u].at, TRUE, sync[u].left, sync[u].sums, sync[u].data)]
    <3>1. sync' = [u \in U |-> IF sync[u] = Rest THEN Rest ELSE [sync[u] EXCEPT !.over = TRUE]]
      BY <1>1, <1>f DEF Faulted!Tick
    <3>2. \A u \in U : sync[u] # Rest =>
              [sync[u] EXCEPT !.over = TRUE] = Sync(sync[u].at, TRUE, sync[u].left, sync[u].sums, sync[u].data)
      BY <1>s, SyncOver
    <3> QED  BY <3>1, <3>2
  <2>4. (delivered' = now + 1 /\ missed' = missed) \/ (Fails(F) /\ delivered' = delivered)
    BY <1>1 DEF Faulted!Tick, Faulted!Fault, Fails
  <2>5. stored' = stored /\ summary' = summary  BY <1>1 DEF Faulted!Tick
  <2> QED  BY <2>1, <2>2, <2>3, <2>4, <2>5 DEF Elapses
<1>2. ASSUME NEW u \in U, Faulted!Fetch(u) PROVE Fetches(u, n, lb) \/ FetchFails(u, n, F)
  <2> DEFINE k == [at |-> "fetched", over |-> FALSE, left |-> {}, sums |-> Faulted!None, data |->
                    [d \in Faulted!Dates |-> IF d >= Faulted!SyncDay /\ d <= Faulted!Today THEN Faulted!Delivered(d) ELSE 0]]
  <2>1. [d \in Faulted!Dates |-> IF d >= Faulted!SyncDay /\ d <= Faulted!Today THEN Faulted!Delivered(d) ELSE 0] = Given(n, lb)
    BY <1>f, <1>d DEF Given
  <2>2. k = Sync("fetched", FALSE, {}, Nothing(n), Given(n, lb))  BY <2>1, <1>f DEF Sync
  <2>3. [k EXCEPT !.at = "synced", !.data = Faulted!None] = Sync("synced", FALSE, {}, Nothing(n), Nothing(n))
    <3> DEFINE p == "fetched"
               a == "synced"
               o == FALSE
               l == {}
               e == Given(n, lb)
               z == Nothing(n)
    <3>1. k = Sync(p, o, l, z, e)  BY <2>2
    <3>2. Faulted!None = z  BY <1>f
    <3> HIDE DEF k, p, o, l, z, e
    <3>3. k = [f \in {"at", "over", "left", "sums", "data"} |->
                   IF f = "at" THEN p ELSE IF f = "over" THEN o ELSE IF f = "left" THEN l
                   ELSE IF f = "sums" THEN z ELSE e]
      BY <3>1, SyncWhole
    <3>4. [k EXCEPT !.at = a, !.data = z] = Sync(a, o, l, z, z)  BY <3>3, SyncWhole
    <3> QED  BY <3>2, <3>4 DEF a, o, l, z
  <2>4. /\ sync[u] = Rest /\ UNCHANGED <<now, delivered, stored, summary, ran>>
        /\ \/ sync' = [sync EXCEPT ![u] = k] /\ missed' = missed
           \/ Faulted!Fault("history") /\ sync' = [sync EXCEPT ![u] = [k EXCEPT !.at = "synced", !.data = Faulted!None]]
    BY <1>2, <1>f DEF Faulted!Fetch
  <2> HIDE DEF k
  <2>5. CASE sync' = [sync EXCEPT ![u] = k] /\ missed' = missed
    BY <2>2, <2>4, <2>5 DEF Fetches, Changes
  <2>6. CASE Faulted!Fault("history") /\ sync' = [sync EXCEPT ![u] = [k EXCEPT !.at = "synced", !.data = Faulted!None]]
    BY <2>3, <2>4, <2>6 DEF Faulted!Fault, Fails, FetchFails, Changes
  <2> QED  BY <2>4, <2>5, <2>6
<1>3. ASSUME NEW u \in U, Faulted!Store(u) PROVE StoresAll(u, n) \/ StoresSome(u, n, F)
  <2> DEFINE days == {d \in Faulted!Dates : sync[u].data[d] > 0}
  <2>1. sync[u].at = "fetched" /\ UNCHANGED <<now, delivered, summary, ran>>  BY <1>3 DEF Faulted!Store
  <2>2. sync[u] # Rest  BY <2>1, RestIs
  <2>3. Changes(u, Sync("synced", sync[u].over, sync[u].left, sync[u].sums, Nothing(n)))
    <3>1. sync' = [sync EXCEPT ![u].at = "synced", ![u].data = Nothing(n)]  BY <1>3, <1>f DEF Faulted!Store
    <3>2. \A a, d : [sync EXCEPT ![u].at = a, ![u].data = d] =
              [sync EXCEPT ![u] = Sync(a, sync[u].over, sync[u].left, sync[u].sums, d)]
      BY <2>2, SyncGoes DEF HistoryTyped
    <3> QED  BY <3>1, <3>2 DEF Changes
  <2>4. ASSUME NEW some \in SUBSET days, Faulted!Write(some, sync[u].data) PROVE Stores(u, n, some)
    <3>1. stored' = Replaced(n, some, stored, sync[u].data)  BY <2>4, <1>f DEF Faulted!Write, Replaced
    <3> QED  BY <2>1, <2>3, <3>1 DEF Stores
  <2>5. \/ Faulted!Write(days, sync[u].data) /\ missed' = missed
        \/ \E some \in SUBSET days : Faulted!Fault("bulk") /\ Faulted!Write(some, sync[u].data)
    BY <1>3 DEF Faulted!Store
  <2>6. days \in SUBSET (0..(n - 1)) /\ \A d \in 0..(n - 1) : sync[u].data[d] > 0 => d \in days  BY <1>f
  <2> HIDE DEF days
  <2>7. CASE Faulted!Write(days, sync[u].data) /\ missed' = missed
    <3>1. Stores(u, n, days)  BY <2>4, <2>7
    <3> QED  BY <3>1, <2>6, <2>7 DEF StoresAll
  <2>8. CASE \E some \in SUBSET days : Faulted!Fault("bulk") /\ Faulted!Write(some, sync[u].data)
    <3>1. PICK some \in SUBSET days : Faulted!Fault("bulk") /\ Faulted!Write(some, sync[u].data)  BY <2>8
    <3>2. Stores(u, n, some) /\ some \in SUBSET (0..(n - 1))  BY <2>4, <2>6, <3>1
    <3> QED  BY <3>1, <3>2 DEF StoresSome, Fails, Faulted!Fault
  <2> QED  BY <2>5, <2>7, <2>8
<1>4. ASSUME NEW u \in U, Faulted!Summarise(u) PROVE Summarises(u, n, me)
  <2> DEFINE days == Unsummarised(n)
  <2>1. Faulted!Committed(Faulted!Latest(summary) + 1) = days
    BY <1>f, <1>l DEF Faulted!Committed, Completed, Unsummarised
  <2>2. {Faulted!Month(d) : d \in days} = MonthsOf(me, days)  BY <1>f DEF MonthsOf
  <2>3. sync' = [sync EXCEPT ![u] = Sync("commit", sync[u].over, MonthsOf(me, days), summary, StoredOf(n, days))]
    BY <1>4, <1>f, <2>1, <2>2 DEF Faulted!Summarise, Sync, StoredOf
  <2> QED  BY <1>4, <2>3 DEF Faulted!Summarise, Summarises, Changes
<1>5. ASSUME NEW u \in U, NEW m \in {1, 2}, Faulted!Commit(u, m) PROVE Commits(u, n, me, m) \/ CommitFails(u, n, F)
  <2>1. sync[u].at = "commit" /\ m \in sync[u].left /\ UNCHANGED <<now, delivered, stored, ran>>
    BY <1>5 DEF Faulted!Commit
  <2>2. sync[u] # Rest /\ sync \in [U -> {Rest} \cup Syncs(n)] /\ sync[u] \in Syncs(n)
    BY <2>1, RestIs, <1>s DEF HistoryTyped
  <2>3. \/ /\ summary' = Faulted!Merged(summary, sync[u].data, m)
           /\ sync' = [sync EXCEPT ![u].left = sync[u].left \ {m}] /\ missed' = missed
        \/ /\ Faulted!Fault("summary") /\ summary' = summary
           /\ sync' = [sync EXCEPT ![u].at = "combine", ![u].data = Faulted!None, ![u].left = {}]
    BY <1>5 DEF Faulted!Commit
  <2>4. CASE /\ summary' = Faulted!Merged(summary, sync[u].data, m)
             /\ sync' = [sync EXCEPT ![u].left = sync[u].left \ {m}] /\ missed' = missed
    <3>1. summary' = MonthMerged(n, me, summary, sync[u].data, m)  BY <2>4, <1>f DEF Faulted!Merged, MonthMerged
    <3>2. sync' = [sync EXCEPT ![u] = Sync("commit", sync[u].over, Without(sync[u].left, m), sync[u].sums, sync[u].data)]
      <4>1. \A l : [sync EXCEPT ![u].left = l] =
                [sync EXCEPT ![u] = Sync(sync[u].at, sync[u].over, l, sync[u].sums, sync[u].data)]
        BY <2>2, SyncLeft
      <4> QED  BY <2>1, <2>4, <4>1 DEF Without
    <3> QED  BY <2>1, <2>4, <3>1, <3>2 DEF Commits, Changes
  <2>5. CASE /\ Faulted!Fault("summary") /\ summary' = summary
             /\ sync' = [sync EXCEPT ![u].at = "combine", ![u].data = Faulted!None, ![u].left = {}]
    <3>1. sync' = [sync EXCEPT ![u] = Sync("combine", sync[u].over, {}, sync[u].sums, Nothing(n))]
      <4> DEFINE nil == {}
                 a == "combine"
      <4>1. sync' = [sync EXCEPT ![u].at = a, ![u].data = Faulted!None, ![u].left = nil]  BY <2>5
      <4> HIDE DEF nil, a
      <4>2. sync' = [sync EXCEPT ![u] = Sync(a, sync[u].over, nil, sync[u].sums, Faulted!None)]
        <5> DEFINE s == sync[u]
                   t == [s EXCEPT !.at = a, !.data = Faulted!None, !.left = nil]
        <5>1. s = [f \in {"at", "over", "left", "sums", "data"} |-> s[f]]  BY <2>2, SyncFields
        <5>2. t = Sync(a, s.over, nil, s.sums, Faulted!None)  BY <5>1, SyncWhole
        <5>3. [sync EXCEPT ![u].at = a, ![u].data = Faulted!None, ![u].left = nil] = [sync EXCEPT ![u] = t]  OBVIOUS
        <5> QED  BY <4>1, <5>2, <5>3
      <4> QED  BY <4>2, <1>f DEF nil, a
    <3> QED  BY <2>1, <2>5, <3>1 DEF CommitFails, Changes, Fails, Faulted!Fault
  <2> QED  BY <2>3, <2>4, <2>5
<1>6. ASSUME NEW u \in U, Faulted!Committing(u) PROVE Committed(u, n)
  <2>1. sync[u].at = "commit" /\ sync[u].left = {} /\ UNCHANGED <<now, delivered, stored, summary, ran, missed>>
    BY <1>6 DEF Faulted!Committing
  <2>2. sync[u] # Rest /\ sync \in [U -> {Rest} \cup Syncs(n)] /\ sync[u] \in Syncs(n)
    BY <2>1, RestIs, <1>s DEF HistoryTyped
  <2>3. [d \in Faulted!Dates |-> IF sync[u].data[d] > 0 THEN sync[u].data[d] ELSE sync[u].sums[d]] =
            Filled(n, sync[u].sums, sync[u].data)
    BY <1>f DEF Filled
  <2>4. sync' = [sync EXCEPT ![u].at = "combine", ![u].data = Faulted!None, ![u].sums =
                    [d \in Faulted!Dates |-> IF sync[u].data[d] > 0 THEN sync[u].data[d] ELSE sync[u].sums[d]]]
    BY <1>6, <2>2 DEF Faulted!Committing
  <2>5. sync' = [sync EXCEPT ![u] = Sync("combine", sync[u].over, sync[u].left,
                                         Filled(n, sync[u].sums, sync[u].data), Nothing(n))]
    <3> DEFINE sums == [d \in Faulted!Dates |-> IF sync[u].data[d] > 0 THEN sync[u].data[d] ELSE sync[u].sums[d]]
               a == "combine"
    <3>1. sync' = [sync EXCEPT ![u].at = a, ![u].data = Faulted!None, ![u].sums = sums]  BY <2>4
    <3> HIDE DEF sums, a
    <3>2. sync' = [sync EXCEPT ![u] = Sync(a, sync[u].over, sync[u].left, sums, Faulted!None)]
      <4> DEFINE s == sync[u]
                 t == [s EXCEPT !.at = a, !.data = Faulted!None, !.sums = sums]
      <4>1. s = [f \in {"at", "over", "left", "sums", "data"} |-> s[f]]  BY <2>2, SyncFields
      <4>2. t = Sync(a, s.over, s.left, sums, Faulted!None)  BY <4>1, SyncWhole
      <4>3. [sync EXCEPT ![u].at = a, ![u].data = Faulted!None, ![u].sums = sums] = [sync EXCEPT ![u] = t]  OBVIOUS
      <4> QED  BY <3>1, <4>2, <4>3
    <3> QED  BY <2>3, <3>2, <1>f DEF sums, a
  <2> QED  BY <2>1, <2>5 DEF Committed, Changes
<1>7. ASSUME NEW u \in U, Faulted!Combine(u) PROVE Combines(u, n)
  <2>1. sync[u].at = "combine" /\ UNCHANGED <<now, delivered, stored, summary, ran, missed>>
    BY <1>7 DEF Faulted!Combine
  <2>2. sync[u] # Rest /\ sync \in [U -> {Rest} \cup Syncs(n)] /\ sync[u] \in Syncs(n)
    BY <2>1, RestIs, <1>s DEF HistoryTyped
  <2> DEFINE data == [d \in Faulted!Dates |-> IF d > Faulted!Latest(sync[u].sums) \/ d = Faulted!Today
                             THEN Faulted!Larger(sync[u].sums[d], stored[d]) ELSE sync[u].sums[d]]
  <2>3. data \in DayParts(n)
    <3>1. sync[u].sums \in DayParts(n)  BY <2>2, SyncFields
    <3> QED  BY <3>1, <1>t, <1>f DEF DayParts, Faulted!Larger
  <2>4. sync' = [sync EXCEPT ![u].at = "given", ![u].data = data]  BY <1>7 DEF Faulted!Combine
  <2> HIDE DEF data
  <2>5. sync' = [sync EXCEPT ![u] = Sync("given", sync[u].over, sync[u].left, sync[u].sums, data)]
    <3>1. \A a, d : [sync EXCEPT ![u].at = a, ![u].data = d] =
              [sync EXCEPT ![u] = Sync(a, sync[u].over, sync[u].left, sync[u].sums, d)]
      BY <2>2, SyncGoes
    <3> QED  BY <2>4, <3>1
  <2> QED  BY <2>1, <2>3, <2>5 DEF Combines, Changes
<1>8. ASSUME NEW u \in U, Faulted!Finish(u) PROVE Finishes(u)
  BY <1>8, <1>f DEF Faulted!Finish, Finishes, Changes
<1>9. Faulted!Tick \/ \E u \in U : \/ Faulted!Fetch(u) \/ Faulted!Store(u) \/ Faulted!Summarise(u)
                              \/ Faulted!Committing(u) \/ Faulted!Combine(u) \/ Faulted!Finish(u)
                              \/ \E m \in {1, 2} : Faulted!Commit(u, m)
  BY DEF Faulted!Next
<1>10. CASE \E u \in U : \/ Faulted!Fetch(u) \/ Faulted!Store(u) \/ Faulted!Summarise(u)
                         \/ Faulted!Committing(u) \/ Faulted!Combine(u) \/ Faulted!Finish(u)
                         \/ \E m \in {1, 2} : Faulted!Commit(u, m)
  BY <1>2, <1>3, <1>4, <1>5, <1>6, <1>7, <1>8, <1>10 DEF Moves
<1> QED  BY <1>1, <1>9, <1>10

LEMMA MonthsSteps ==
    ASSUME PartsAssumption, HistoryAssumption, HistoryTyped(MonthsUpdates, MonthsDays, 0), Months!Next
    PROVE  \/ Elapses(MonthsUpdates, MonthsDays, 0)
           \/ \E u \in MonthsUpdates : Moves(u, MonthsDays, MonthsEnd, ShortLookback)
<1> DEFINE n == MonthsDays
           me == MonthsEnd
           lb == ShortLookback
           F == 0
           U == MonthsUpdates
<1>n. n \in Nat  BY DEF HistoryAssumption
<1>t. now \in 0..(3 * n - 1) /\ stored \in DayParts(n) /\ summary \in DayParts(n) /\ missed \in 0..F
  BY DEF HistoryTyped
<1>s. \A u \in U : sync[u] = Rest \/ sync[u] \in Syncs(n)  BY DEF HistoryTyped
<1>f. /\ Months!Dates = 0..(n - 1) /\ Months!Today = now \div 3 /\ Months!Idle = Rest /\ Months!None = Nothing(n)
      /\ \A d : Months!Month(d) = MonthOf(me, d) /\ Months!Delivered(d) = Arrived(d) /\ Months!Eligible(d) = Eligible(d)
  BY DEF Months!Dates, Months!Today, Months!Idle, Delayed!Idle, Rest, Months!None, Nothing, Months!Month, MonthOf,
         Months!Delivered, Arrived, Months!Eligible, Eligible, Faulted!Month
<1>l. \A parts : Months!Latest(parts) = Top(n, parts)  BY <1>f DEF Months!Latest, Top
<1>d. Months!SyncDay = SyncFrom(n, lb)  BY <1>f, <1>l DEF Months!SyncDay, SyncFrom
<1>1. CASE Months!Tick
  <2>1. now + 1 < 3 * n /\ now' = now + 1 /\ ran = TRUE /\ ran' = FALSE
    BY <1>1, <1>t DEF Months!Tick, HistoryTyped
  <2>2. \A u \in U : sync[u] # Rest => sync[u].over = FALSE
    BY <1>1, <1>s, <1>f, SyncFields DEF Months!Tick
  <2>3. sync' = [u \in U |-> IF sync[u] = Rest THEN Rest ELSE
                    Sync(sync[u].at, TRUE, sync[u].left, sync[u].sums, sync[u].data)]
    <3>1. sync' = [u \in U |-> IF sync[u] = Rest THEN Rest ELSE [sync[u] EXCEPT !.over = TRUE]]
      BY <1>1, <1>f DEF Months!Tick
    <3>2. \A u \in U : sync[u] # Rest =>
              [sync[u] EXCEPT !.over = TRUE] = Sync(sync[u].at, TRUE, sync[u].left, sync[u].sums, sync[u].data)
      BY <1>s, SyncOver
    <3> QED  BY <3>1, <3>2
  <2>4. (delivered' = now + 1 /\ missed' = missed) \/ (Fails(F) /\ delivered' = delivered)
    BY <1>1 DEF Months!Tick, Months!Fault, Fails
  <2>5. stored' = stored /\ summary' = summary  BY <1>1 DEF Months!Tick
  <2> QED  BY <2>1, <2>2, <2>3, <2>4, <2>5 DEF Elapses
<1>2. ASSUME NEW u \in U, Months!Fetch(u) PROVE Fetches(u, n, lb)
  <2> DEFINE k == [at |-> "fetched", over |-> FALSE, left |-> {}, sums |-> Months!None, data |->
                    [d \in Months!Dates |-> IF d >= Months!SyncDay /\ d <= Months!Today THEN Months!Delivered(d) ELSE 0]]
  <2>1. [d \in Months!Dates |-> IF d >= Months!SyncDay /\ d <= Months!Today THEN Months!Delivered(d) ELSE 0] = Given(n, lb)
    BY <1>f, <1>d DEF Given
  <2>2. k = Sync("fetched", FALSE, {}, Nothing(n), Given(n, lb))  BY <2>1, <1>f DEF Sync
  <2>3. [k EXCEPT !.at = "synced", !.data = Months!None] = Sync("synced", FALSE, {}, Nothing(n), Nothing(n))
    <3> DEFINE p == "fetched"
               a == "synced"
               o == FALSE
               l == {}
               e == Given(n, lb)
               z == Nothing(n)
    <3>1. k = Sync(p, o, l, z, e)  BY <2>2
    <3>2. Months!None = z  BY <1>f
    <3> HIDE DEF k, p, o, l, z, e
    <3>3. k = [f \in {"at", "over", "left", "sums", "data"} |->
                   IF f = "at" THEN p ELSE IF f = "over" THEN o ELSE IF f = "left" THEN l
                   ELSE IF f = "sums" THEN z ELSE e]
      BY <3>1, SyncWhole
    <3>4. [k EXCEPT !.at = a, !.data = z] = Sync(a, o, l, z, z)  BY <3>3, SyncWhole
    <3> QED  BY <3>2, <3>4 DEF a, o, l, z
  <2>4. /\ sync[u] = Rest /\ UNCHANGED <<now, delivered, stored, summary, ran>>
        /\ \/ sync' = [sync EXCEPT ![u] = k] /\ missed' = missed
           \/ Months!Fault("history") /\ sync' = [sync EXCEPT ![u] = [k EXCEPT !.at = "synced", !.data = Months!None]]
    BY <1>2, <1>f DEF Months!Fetch
  <2> HIDE DEF k
  <2>5. CASE sync' = [sync EXCEPT ![u] = k] /\ missed' = missed
    BY <2>2, <2>4, <2>5 DEF Fetches, Changes
  <2>6. CASE Months!Fault("history") /\ sync' = [sync EXCEPT ![u] = [k EXCEPT !.at = "synced", !.data = Months!None]]
    BY <2>3, <2>4, <2>6 DEF Months!Fault, Fails, FetchFails, Changes
  <2> QED  BY <2>4, <2>5, <2>6
<1>3. ASSUME NEW u \in U, Months!Store(u) PROVE StoresAll(u, n)
  <2> DEFINE days == {d \in Months!Dates : sync[u].data[d] > 0}
  <2>1. sync[u].at = "fetched" /\ UNCHANGED <<now, delivered, summary, ran>>  BY <1>3 DEF Months!Store
  <2>2. sync[u] # Rest  BY <2>1, RestIs
  <2>3. Changes(u, Sync("synced", sync[u].over, sync[u].left, sync[u].sums, Nothing(n)))
    <3>1. sync' = [sync EXCEPT ![u].at = "synced", ![u].data = Nothing(n)]  BY <1>3, <1>f DEF Months!Store
    <3>2. \A a, d : [sync EXCEPT ![u].at = a, ![u].data = d] =
              [sync EXCEPT ![u] = Sync(a, sync[u].over, sync[u].left, sync[u].sums, d)]
      BY <2>2, SyncGoes DEF HistoryTyped
    <3> QED  BY <3>1, <3>2 DEF Changes
  <2>4. ASSUME NEW some \in SUBSET days, Months!Write(some, sync[u].data) PROVE Stores(u, n, some)
    <3>1. stored' = Replaced(n, some, stored, sync[u].data)  BY <2>4, <1>f DEF Months!Write, Replaced
    <3> QED  BY <2>1, <2>3, <3>1 DEF Stores
  <2>5. \/ Months!Write(days, sync[u].data) /\ missed' = missed
        \/ \E some \in SUBSET days : Months!Fault("bulk") /\ Months!Write(some, sync[u].data)
    BY <1>3 DEF Months!Store
  <2>6. days \in SUBSET (0..(n - 1)) /\ \A d \in 0..(n - 1) : sync[u].data[d] > 0 => d \in days  BY <1>f
  <2> HIDE DEF days
  <2>7. CASE Months!Write(days, sync[u].data) /\ missed' = missed
    <3>1. Stores(u, n, days)  BY <2>4, <2>7
    <3> QED  BY <3>1, <2>6, <2>7 DEF StoresAll
  <2>8. CASE \E some \in SUBSET days : Months!Fault("bulk") /\ Months!Write(some, sync[u].data)
    <3>1. PICK some \in SUBSET days : Months!Fault("bulk") /\ Months!Write(some, sync[u].data)  BY <2>8
    <3>2. Stores(u, n, some) /\ some \in SUBSET (0..(n - 1))  BY <2>4, <2>6, <3>1
    <3> QED  BY <3>1, <3>2 DEF StoresSome, Fails, Months!Fault
  <2> QED  BY <2>5, <2>7, <2>8
<1>4. ASSUME NEW u \in U, Months!Summarise(u) PROVE Summarises(u, n, me)
  <2> DEFINE days == Unsummarised(n)
  <2>1. Months!Committed(Months!Latest(summary) + 1) = days
    BY <1>f, <1>l DEF Months!Committed, Completed, Unsummarised
  <2>2. {Months!Month(d) : d \in days} = MonthsOf(me, days)  BY <1>f DEF MonthsOf
  <2>3. sync' = [sync EXCEPT ![u] = Sync("commit", sync[u].over, MonthsOf(me, days), summary, StoredOf(n, days))]
    BY <1>4, <1>f, <2>1, <2>2 DEF Months!Summarise, Sync, StoredOf
  <2> QED  BY <1>4, <2>3 DEF Months!Summarise, Summarises, Changes
<1>5. ASSUME NEW u \in U, NEW m \in {1, 2}, Months!Commit(u, m) PROVE Commits(u, n, me, m)
  <2>1. sync[u].at = "commit" /\ m \in sync[u].left /\ UNCHANGED <<now, delivered, stored, ran>>
    BY <1>5 DEF Months!Commit
  <2>2. sync[u] # Rest /\ sync \in [U -> {Rest} \cup Syncs(n)] /\ sync[u] \in Syncs(n)
    BY <2>1, RestIs, <1>s DEF HistoryTyped
  <2>3. \/ /\ summary' = Months!Merged(summary, sync[u].data, m)
           /\ sync' = [sync EXCEPT ![u].left = sync[u].left \ {m}] /\ missed' = missed
        \/ /\ Months!Fault("summary") /\ summary' = summary
           /\ sync' = [sync EXCEPT ![u].at = "combine", ![u].data = Months!None, ![u].left = {}]
    BY <1>5 DEF Months!Commit
  <2>4. CASE /\ summary' = Months!Merged(summary, sync[u].data, m)
             /\ sync' = [sync EXCEPT ![u].left = sync[u].left \ {m}] /\ missed' = missed
    <3>1. summary' = MonthMerged(n, me, summary, sync[u].data, m)  BY <2>4, <1>f DEF Months!Merged, MonthMerged
    <3>2. sync' = [sync EXCEPT ![u] = Sync("commit", sync[u].over, Without(sync[u].left, m), sync[u].sums, sync[u].data)]
      <4>1. \A l : [sync EXCEPT ![u].left = l] =
                [sync EXCEPT ![u] = Sync(sync[u].at, sync[u].over, l, sync[u].sums, sync[u].data)]
        BY <2>2, SyncLeft
      <4> QED  BY <2>1, <2>4, <4>1 DEF Without
    <3> QED  BY <2>1, <2>4, <3>1, <3>2 DEF Commits, Changes
  <2>5. CASE /\ Months!Fault("summary") /\ summary' = summary
             /\ sync' = [sync EXCEPT ![u].at = "combine", ![u].data = Months!None, ![u].left = {}]
    <3>1. sync' = [sync EXCEPT ![u] = Sync("combine", sync[u].over, {}, sync[u].sums, Nothing(n))]
      <4> DEFINE nil == {}
                 a == "combine"
      <4>1. sync' = [sync EXCEPT ![u].at = a, ![u].data = Months!None, ![u].left = nil]  BY <2>5
      <4> HIDE DEF nil, a
      <4>2. sync' = [sync EXCEPT ![u] = Sync(a, sync[u].over, nil, sync[u].sums, Months!None)]
        <5> DEFINE s == sync[u]
                   t == [s EXCEPT !.at = a, !.data = Months!None, !.left = nil]
        <5>1. s = [f \in {"at", "over", "left", "sums", "data"} |-> s[f]]  BY <2>2, SyncFields
        <5>2. t = Sync(a, s.over, nil, s.sums, Months!None)  BY <5>1, SyncWhole
        <5>3. [sync EXCEPT ![u].at = a, ![u].data = Months!None, ![u].left = nil] = [sync EXCEPT ![u] = t]  OBVIOUS
        <5> QED  BY <4>1, <5>2, <5>3
      <4> QED  BY <4>2, <1>f DEF nil, a
    <3> QED  BY <2>1, <2>5, <3>1 DEF CommitFails, Changes, Fails, Months!Fault
  <2> QED  BY <2>3, <2>4, <2>5
<1>6. ASSUME NEW u \in U, Months!Committing(u) PROVE Committed(u, n)
  <2>1. sync[u].at = "commit" /\ sync[u].left = {} /\ UNCHANGED <<now, delivered, stored, summary, ran, missed>>
    BY <1>6 DEF Months!Committing
  <2>2. sync[u] # Rest /\ sync \in [U -> {Rest} \cup Syncs(n)] /\ sync[u] \in Syncs(n)
    BY <2>1, RestIs, <1>s DEF HistoryTyped
  <2>3. [d \in Months!Dates |-> IF sync[u].data[d] > 0 THEN sync[u].data[d] ELSE sync[u].sums[d]] =
            Filled(n, sync[u].sums, sync[u].data)
    BY <1>f DEF Filled
  <2>4. sync' = [sync EXCEPT ![u].at = "combine", ![u].data = Months!None, ![u].sums =
                    [d \in Months!Dates |-> IF sync[u].data[d] > 0 THEN sync[u].data[d] ELSE sync[u].sums[d]]]
    BY <1>6, <2>2 DEF Months!Committing
  <2>5. sync' = [sync EXCEPT ![u] = Sync("combine", sync[u].over, sync[u].left,
                                         Filled(n, sync[u].sums, sync[u].data), Nothing(n))]
    <3> DEFINE sums == [d \in Months!Dates |-> IF sync[u].data[d] > 0 THEN sync[u].data[d] ELSE sync[u].sums[d]]
               a == "combine"
    <3>1. sync' = [sync EXCEPT ![u].at = a, ![u].data = Months!None, ![u].sums = sums]  BY <2>4
    <3> HIDE DEF sums, a
    <3>2. sync' = [sync EXCEPT ![u] = Sync(a, sync[u].over, sync[u].left, sums, Months!None)]
      <4> DEFINE s == sync[u]
                 t == [s EXCEPT !.at = a, !.data = Months!None, !.sums = sums]
      <4>1. s = [f \in {"at", "over", "left", "sums", "data"} |-> s[f]]  BY <2>2, SyncFields
      <4>2. t = Sync(a, s.over, s.left, sums, Months!None)  BY <4>1, SyncWhole
      <4>3. [sync EXCEPT ![u].at = a, ![u].data = Months!None, ![u].sums = sums] = [sync EXCEPT ![u] = t]  OBVIOUS
      <4> QED  BY <3>1, <4>2, <4>3
    <3> QED  BY <2>3, <3>2, <1>f DEF sums, a
  <2> QED  BY <2>1, <2>5 DEF Committed, Changes
<1>7. ASSUME NEW u \in U, Months!Combine(u) PROVE Combines(u, n)
  <2>1. sync[u].at = "combine" /\ UNCHANGED <<now, delivered, stored, summary, ran, missed>>
    BY <1>7 DEF Months!Combine
  <2>2. sync[u] # Rest /\ sync \in [U -> {Rest} \cup Syncs(n)] /\ sync[u] \in Syncs(n)
    BY <2>1, RestIs, <1>s DEF HistoryTyped
  <2> DEFINE data == [d \in Months!Dates |-> IF d > Months!Latest(sync[u].sums) \/ d = Months!Today
                             THEN Months!Larger(sync[u].sums[d], stored[d]) ELSE sync[u].sums[d]]
  <2>3. data \in DayParts(n)
    <3>1. sync[u].sums \in DayParts(n)  BY <2>2, SyncFields
    <3> QED  BY <3>1, <1>t, <1>f DEF DayParts, Months!Larger
  <2>4. sync' = [sync EXCEPT ![u].at = "given", ![u].data = data]  BY <1>7 DEF Months!Combine
  <2> HIDE DEF data
  <2>5. sync' = [sync EXCEPT ![u] = Sync("given", sync[u].over, sync[u].left, sync[u].sums, data)]
    <3>1. \A a, d : [sync EXCEPT ![u].at = a, ![u].data = d] =
              [sync EXCEPT ![u] = Sync(a, sync[u].over, sync[u].left, sync[u].sums, d)]
      BY <2>2, SyncGoes
    <3> QED  BY <2>4, <3>1
  <2> QED  BY <2>1, <2>3, <2>5 DEF Combines, Changes
<1>8. ASSUME NEW u \in U, Months!Finish(u) PROVE Finishes(u)
  BY <1>8, <1>f DEF Months!Finish, Finishes, Changes
<1>9. Months!Tick \/ \E u \in U : \/ Months!Fetch(u) \/ Months!Store(u) \/ Months!Summarise(u)
                              \/ Months!Committing(u) \/ Months!Combine(u) \/ Months!Finish(u)
                              \/ \E m \in {1, 2} : Months!Commit(u, m)
  BY DEF Months!Next
<1>10. CASE \E u \in U : \/ Months!Fetch(u) \/ Months!Store(u) \/ Months!Summarise(u)
                         \/ Months!Committing(u) \/ Months!Combine(u) \/ Months!Finish(u)
                         \/ \E m \in {1, 2} : Months!Commit(u, m)
  BY <1>2, <1>3, <1>4, <1>5, <1>6, <1>7, <1>8, <1>10 DEF Moves
<1> QED  BY <1>1, <1>9, <1>10

LEMMA OneByOneSteps ==
    ASSUME PartsAssumption, HistoryAssumption, HistoryTyped({1}, PunctualDays, LateFaults), OneByOne!Next
    PROVE  \/ Elapses({1}, PunctualDays, LateFaults) /\ sync[1] = Rest
           \/ \E u \in {1} : Moves(u, PunctualDays, PunctualEnd, ShortLookback)
<1> DEFINE n == PunctualDays
           me == PunctualEnd
           lb == ShortLookback
           F == LateFaults
           U == {1}
<1>n. n \in Nat  BY DEF HistoryAssumption
<1>t. now \in 0..(3 * n - 1) /\ stored \in DayParts(n) /\ summary \in DayParts(n) /\ missed \in 0..F
  BY DEF HistoryTyped
<1>s. \A u \in U : sync[u] = Rest \/ sync[u] \in Syncs(n)  BY DEF HistoryTyped
<1>f. /\ OneByOne!Dates = 0..(n - 1) /\ OneByOne!Today = now \div 3 /\ OneByOne!Idle = Rest /\ OneByOne!None = Nothing(n)
      /\ \A d : OneByOne!Month(d) = MonthOf(me, d) /\ OneByOne!Delivered(d) = Arrived(d) /\ OneByOne!Eligible(d) = Eligible(d)
  BY DEF OneByOne!Dates, OneByOne!Today, OneByOne!Idle, Delayed!Idle, Rest, OneByOne!None, Nothing, OneByOne!Month, MonthOf,
         OneByOne!Delivered, Arrived, OneByOne!Eligible, Eligible, Faulted!Month
<1>l. \A parts : OneByOne!Latest(parts) = Top(n, parts)  BY <1>f DEF OneByOne!Latest, Top
<1>d. OneByOne!SyncDay = SyncFrom(n, lb)  BY <1>f, <1>l DEF OneByOne!SyncDay, SyncFrom
<1>1. CASE OneByOne!Tick
  <2>1. now + 1 < 3 * n /\ now' = now + 1 /\ ran = TRUE /\ ran' = FALSE
    BY <1>1, <1>t DEF OneByOne!Tick, HistoryTyped
  <2>2. \A u \in U : sync[u] # Rest => FALSE /\ sync[u].over = FALSE
    BY <1>1, <1>s, <1>f, SyncFields DEF OneByOne!Tick
  <2>3. sync' = [u \in U |-> IF sync[u] = Rest THEN Rest ELSE
                    Sync(sync[u].at, TRUE, sync[u].left, sync[u].sums, sync[u].data)]
    <3>1. sync' = [u \in U |-> IF sync[u] = Rest THEN Rest ELSE [sync[u] EXCEPT !.over = TRUE]]
      BY <1>1, <1>f DEF OneByOne!Tick
    <3>2. \A u \in U : sync[u] # Rest =>
              [sync[u] EXCEPT !.over = TRUE] = Sync(sync[u].at, TRUE, sync[u].left, sync[u].sums, sync[u].data)
      BY <1>s, SyncOver
    <3> QED  BY <3>1, <3>2
  <2>4. (delivered' = now + 1 /\ missed' = missed) \/ (Fails(F) /\ delivered' = delivered)
    BY <1>1 DEF OneByOne!Tick, OneByOne!Fault, Fails
  <2>5. stored' = stored /\ summary' = summary  BY <1>1 DEF OneByOne!Tick
  <2> QED  BY <2>1, <2>2, <2>3, <2>4, <2>5 DEF Elapses
<1>2. ASSUME NEW u \in U, OneByOne!Fetch(u) PROVE Fetches(u, n, lb)
  <2> DEFINE k == [at |-> "fetched", over |-> FALSE, left |-> {}, sums |-> OneByOne!None, data |->
                    [d \in OneByOne!Dates |-> IF d >= OneByOne!SyncDay /\ d <= OneByOne!Today THEN OneByOne!Delivered(d) ELSE 0]]
  <2>1. [d \in OneByOne!Dates |-> IF d >= OneByOne!SyncDay /\ d <= OneByOne!Today THEN OneByOne!Delivered(d) ELSE 0] = Given(n, lb)
    BY <1>f, <1>d DEF Given
  <2>2. k = Sync("fetched", FALSE, {}, Nothing(n), Given(n, lb))  BY <2>1, <1>f DEF Sync
  <2>3. [k EXCEPT !.at = "synced", !.data = OneByOne!None] = Sync("synced", FALSE, {}, Nothing(n), Nothing(n))
    <3> DEFINE p == "fetched"
               a == "synced"
               o == FALSE
               l == {}
               e == Given(n, lb)
               z == Nothing(n)
    <3>1. k = Sync(p, o, l, z, e)  BY <2>2
    <3>2. OneByOne!None = z  BY <1>f
    <3> HIDE DEF k, p, o, l, z, e
    <3>3. k = [f \in {"at", "over", "left", "sums", "data"} |->
                   IF f = "at" THEN p ELSE IF f = "over" THEN o ELSE IF f = "left" THEN l
                   ELSE IF f = "sums" THEN z ELSE e]
      BY <3>1, SyncWhole
    <3>4. [k EXCEPT !.at = a, !.data = z] = Sync(a, o, l, z, z)  BY <3>3, SyncWhole
    <3> QED  BY <3>2, <3>4 DEF a, o, l, z
  <2>4. /\ sync[u] = Rest /\ UNCHANGED <<now, delivered, stored, summary, ran>>
        /\ \/ sync' = [sync EXCEPT ![u] = k] /\ missed' = missed
           \/ OneByOne!Fault("history") /\ sync' = [sync EXCEPT ![u] = [k EXCEPT !.at = "synced", !.data = OneByOne!None]]
    BY <1>2, <1>f DEF OneByOne!Fetch
  <2> HIDE DEF k
  <2>5. CASE sync' = [sync EXCEPT ![u] = k] /\ missed' = missed
    BY <2>2, <2>4, <2>5 DEF Fetches, Changes
  <2>6. CASE OneByOne!Fault("history") /\ sync' = [sync EXCEPT ![u] = [k EXCEPT !.at = "synced", !.data = OneByOne!None]]
    BY <2>3, <2>4, <2>6 DEF OneByOne!Fault, Fails, FetchFails, Changes
  <2> QED  BY <2>4, <2>5, <2>6
<1>3. ASSUME NEW u \in U, OneByOne!Store(u) PROVE StoresAll(u, n)
  <2> DEFINE days == {d \in OneByOne!Dates : sync[u].data[d] > 0}
  <2>1. sync[u].at = "fetched" /\ UNCHANGED <<now, delivered, summary, ran>>  BY <1>3 DEF OneByOne!Store
  <2>2. sync[u] # Rest  BY <2>1, RestIs
  <2>3. Changes(u, Sync("synced", sync[u].over, sync[u].left, sync[u].sums, Nothing(n)))
    <3>1. sync' = [sync EXCEPT ![u].at = "synced", ![u].data = Nothing(n)]  BY <1>3, <1>f DEF OneByOne!Store
    <3>2. \A a, d : [sync EXCEPT ![u].at = a, ![u].data = d] =
              [sync EXCEPT ![u] = Sync(a, sync[u].over, sync[u].left, sync[u].sums, d)]
      BY <2>2, SyncGoes DEF HistoryTyped
    <3> QED  BY <3>1, <3>2 DEF Changes
  <2>4. ASSUME NEW some \in SUBSET days, OneByOne!Write(some, sync[u].data) PROVE Stores(u, n, some)
    <3>1. stored' = Replaced(n, some, stored, sync[u].data)  BY <2>4, <1>f DEF OneByOne!Write, Replaced
    <3> QED  BY <2>1, <2>3, <3>1 DEF Stores
  <2>5. \/ OneByOne!Write(days, sync[u].data) /\ missed' = missed
        \/ \E some \in SUBSET days : OneByOne!Fault("bulk") /\ OneByOne!Write(some, sync[u].data)
    BY <1>3 DEF OneByOne!Store
  <2>6. days \in SUBSET (0..(n - 1)) /\ \A d \in 0..(n - 1) : sync[u].data[d] > 0 => d \in days  BY <1>f
  <2> HIDE DEF days
  <2>7. CASE OneByOne!Write(days, sync[u].data) /\ missed' = missed
    <3>1. Stores(u, n, days)  BY <2>4, <2>7
    <3> QED  BY <3>1, <2>6, <2>7 DEF StoresAll
  <2>8. CASE \E some \in SUBSET days : OneByOne!Fault("bulk") /\ OneByOne!Write(some, sync[u].data)
    <3>1. PICK some \in SUBSET days : OneByOne!Fault("bulk") /\ OneByOne!Write(some, sync[u].data)  BY <2>8
    <3>2. Stores(u, n, some) /\ some \in SUBSET (0..(n - 1))  BY <2>4, <2>6, <3>1
    <3> QED  BY <3>1, <3>2 DEF StoresSome, Fails, OneByOne!Fault
  <2> QED  BY <2>5, <2>7, <2>8
<1>4. ASSUME NEW u \in U, OneByOne!Summarise(u) PROVE Summarises(u, n, me)
  <2> DEFINE days == Unsummarised(n)
  <2>1. OneByOne!Committed(OneByOne!Latest(summary) + 1) = days
    BY <1>f, <1>l DEF OneByOne!Committed, Completed, Unsummarised
  <2>2. {OneByOne!Month(d) : d \in days} = MonthsOf(me, days)  BY <1>f DEF MonthsOf
  <2>3. sync' = [sync EXCEPT ![u] = Sync("commit", sync[u].over, MonthsOf(me, days), summary, StoredOf(n, days))]
    BY <1>4, <1>f, <2>1, <2>2 DEF OneByOne!Summarise, Sync, StoredOf
  <2> QED  BY <1>4, <2>3 DEF OneByOne!Summarise, Summarises, Changes
<1>5. ASSUME NEW u \in U, NEW m \in {1, 2}, OneByOne!Commit(u, m) PROVE Commits(u, n, me, m)
  <2>1. sync[u].at = "commit" /\ m \in sync[u].left /\ UNCHANGED <<now, delivered, stored, ran>>
    BY <1>5 DEF OneByOne!Commit
  <2>2. sync[u] # Rest /\ sync \in [U -> {Rest} \cup Syncs(n)] /\ sync[u] \in Syncs(n)
    BY <2>1, RestIs, <1>s DEF HistoryTyped
  <2>3. \/ /\ summary' = OneByOne!Merged(summary, sync[u].data, m)
           /\ sync' = [sync EXCEPT ![u].left = sync[u].left \ {m}] /\ missed' = missed
        \/ /\ OneByOne!Fault("summary") /\ summary' = summary
           /\ sync' = [sync EXCEPT ![u].at = "combine", ![u].data = OneByOne!None, ![u].left = {}]
    BY <1>5 DEF OneByOne!Commit
  <2>4. CASE /\ summary' = OneByOne!Merged(summary, sync[u].data, m)
             /\ sync' = [sync EXCEPT ![u].left = sync[u].left \ {m}] /\ missed' = missed
    <3>1. summary' = MonthMerged(n, me, summary, sync[u].data, m)  BY <2>4, <1>f DEF OneByOne!Merged, MonthMerged
    <3>2. sync' = [sync EXCEPT ![u] = Sync("commit", sync[u].over, Without(sync[u].left, m), sync[u].sums, sync[u].data)]
      <4>1. \A l : [sync EXCEPT ![u].left = l] =
                [sync EXCEPT ![u] = Sync(sync[u].at, sync[u].over, l, sync[u].sums, sync[u].data)]
        BY <2>2, SyncLeft
      <4> QED  BY <2>1, <2>4, <4>1 DEF Without
    <3> QED  BY <2>1, <2>4, <3>1, <3>2 DEF Commits, Changes
  <2>5. CASE /\ OneByOne!Fault("summary") /\ summary' = summary
             /\ sync' = [sync EXCEPT ![u].at = "combine", ![u].data = OneByOne!None, ![u].left = {}]
    <3>1. sync' = [sync EXCEPT ![u] = Sync("combine", sync[u].over, {}, sync[u].sums, Nothing(n))]
      <4> DEFINE nil == {}
                 a == "combine"
      <4>1. sync' = [sync EXCEPT ![u].at = a, ![u].data = OneByOne!None, ![u].left = nil]  BY <2>5
      <4> HIDE DEF nil, a
      <4>2. sync' = [sync EXCEPT ![u] = Sync(a, sync[u].over, nil, sync[u].sums, OneByOne!None)]
        <5> DEFINE s == sync[u]
                   t == [s EXCEPT !.at = a, !.data = OneByOne!None, !.left = nil]
        <5>1. s = [f \in {"at", "over", "left", "sums", "data"} |-> s[f]]  BY <2>2, SyncFields
        <5>2. t = Sync(a, s.over, nil, s.sums, OneByOne!None)  BY <5>1, SyncWhole
        <5>3. [sync EXCEPT ![u].at = a, ![u].data = OneByOne!None, ![u].left = nil] = [sync EXCEPT ![u] = t]  OBVIOUS
        <5> QED  BY <4>1, <5>2, <5>3
      <4> QED  BY <4>2, <1>f DEF nil, a
    <3> QED  BY <2>1, <2>5, <3>1 DEF CommitFails, Changes, Fails, OneByOne!Fault
  <2> QED  BY <2>3, <2>4, <2>5
<1>6. ASSUME NEW u \in U, OneByOne!Committing(u) PROVE Committed(u, n)
  <2>1. sync[u].at = "commit" /\ sync[u].left = {} /\ UNCHANGED <<now, delivered, stored, summary, ran, missed>>
    BY <1>6 DEF OneByOne!Committing
  <2>2. sync[u] # Rest /\ sync \in [U -> {Rest} \cup Syncs(n)] /\ sync[u] \in Syncs(n)
    BY <2>1, RestIs, <1>s DEF HistoryTyped
  <2>3. [d \in OneByOne!Dates |-> IF sync[u].data[d] > 0 THEN sync[u].data[d] ELSE sync[u].sums[d]] =
            Filled(n, sync[u].sums, sync[u].data)
    BY <1>f DEF Filled
  <2>4. sync' = [sync EXCEPT ![u].at = "combine", ![u].data = OneByOne!None, ![u].sums =
                    [d \in OneByOne!Dates |-> IF sync[u].data[d] > 0 THEN sync[u].data[d] ELSE sync[u].sums[d]]]
    BY <1>6, <2>2 DEF OneByOne!Committing
  <2>5. sync' = [sync EXCEPT ![u] = Sync("combine", sync[u].over, sync[u].left,
                                         Filled(n, sync[u].sums, sync[u].data), Nothing(n))]
    <3> DEFINE sums == [d \in OneByOne!Dates |-> IF sync[u].data[d] > 0 THEN sync[u].data[d] ELSE sync[u].sums[d]]
               a == "combine"
    <3>1. sync' = [sync EXCEPT ![u].at = a, ![u].data = OneByOne!None, ![u].sums = sums]  BY <2>4
    <3> HIDE DEF sums, a
    <3>2. sync' = [sync EXCEPT ![u] = Sync(a, sync[u].over, sync[u].left, sums, OneByOne!None)]
      <4> DEFINE s == sync[u]
                 t == [s EXCEPT !.at = a, !.data = OneByOne!None, !.sums = sums]
      <4>1. s = [f \in {"at", "over", "left", "sums", "data"} |-> s[f]]  BY <2>2, SyncFields
      <4>2. t = Sync(a, s.over, s.left, sums, OneByOne!None)  BY <4>1, SyncWhole
      <4>3. [sync EXCEPT ![u].at = a, ![u].data = OneByOne!None, ![u].sums = sums] = [sync EXCEPT ![u] = t]  OBVIOUS
      <4> QED  BY <3>1, <4>2, <4>3
    <3> QED  BY <2>3, <3>2, <1>f DEF sums, a
  <2> QED  BY <2>1, <2>5 DEF Committed, Changes
<1>7. ASSUME NEW u \in U, OneByOne!Combine(u) PROVE Combines(u, n)
  <2>1. sync[u].at = "combine" /\ UNCHANGED <<now, delivered, stored, summary, ran, missed>>
    BY <1>7 DEF OneByOne!Combine
  <2>2. sync[u] # Rest /\ sync \in [U -> {Rest} \cup Syncs(n)] /\ sync[u] \in Syncs(n)
    BY <2>1, RestIs, <1>s DEF HistoryTyped
  <2> DEFINE data == [d \in OneByOne!Dates |-> IF d > OneByOne!Latest(sync[u].sums) \/ d = OneByOne!Today
                             THEN OneByOne!Larger(sync[u].sums[d], stored[d]) ELSE sync[u].sums[d]]
  <2>3. data \in DayParts(n)
    <3>1. sync[u].sums \in DayParts(n)  BY <2>2, SyncFields
    <3> QED  BY <3>1, <1>t, <1>f DEF DayParts, OneByOne!Larger
  <2>4. sync' = [sync EXCEPT ![u].at = "given", ![u].data = data]  BY <1>7 DEF OneByOne!Combine
  <2> HIDE DEF data
  <2>5. sync' = [sync EXCEPT ![u] = Sync("given", sync[u].over, sync[u].left, sync[u].sums, data)]
    <3>1. \A a, d : [sync EXCEPT ![u].at = a, ![u].data = d] =
              [sync EXCEPT ![u] = Sync(a, sync[u].over, sync[u].left, sync[u].sums, d)]
      BY <2>2, SyncGoes
    <3> QED  BY <2>4, <3>1
  <2> QED  BY <2>1, <2>3, <2>5 DEF Combines, Changes
<1>8. ASSUME NEW u \in U, OneByOne!Finish(u) PROVE Finishes(u)
  BY <1>8, <1>f DEF OneByOne!Finish, Finishes, Changes
<1>9. OneByOne!Tick \/ \E u \in U : \/ OneByOne!Fetch(u) \/ OneByOne!Store(u) \/ OneByOne!Summarise(u)
                              \/ OneByOne!Committing(u) \/ OneByOne!Combine(u) \/ OneByOne!Finish(u)
                              \/ \E m \in {1, 2} : OneByOne!Commit(u, m)
  BY DEF OneByOne!Next
<1>10. CASE \E u \in U : \/ OneByOne!Fetch(u) \/ OneByOne!Store(u) \/ OneByOne!Summarise(u)
                         \/ OneByOne!Committing(u) \/ OneByOne!Combine(u) \/ OneByOne!Finish(u)
                         \/ \E m \in {1, 2} : OneByOne!Commit(u, m)
  BY <1>2, <1>3, <1>4, <1>5, <1>6, <1>7, <1>8, <1>10 DEF Moves
<1> QED  BY <1>1, <1>9, <1>10

-----------------------------------------------------------------------------
(* Each part of the history from its first state on.                         *)
HistorySafe ==
    /\ part = "delayed" => HistoryTyped({1}, DelayedDays, DelayedFaults) /\ LateSafe(DelayedDays)
    /\ part = "faulted" => HistoryTyped({1}, DelayedDays, DelayedFaults) /\ SkipSafe(DelayedDays)
    /\ part = "months" => /\ HistoryTyped(MonthsUpdates, MonthsDays, 0)
                          /\ MonthsSafe(MonthsUpdates, MonthsDays, MonthsEnd)
    /\ part = "oneByOne" => /\ HistoryTyped({1}, PunctualDays, LateFaults)
                            /\ PunctualSafe(PunctualDays, PunctualEnd)

LEMMA HistoryConstants ==
    /\ DelayedDays \in Nat /\ DelayedDays >= 2 /\ DelayedEnd \in Nat /\ LongLookback \in Nat
    /\ DelayedFaults \in Nat /\ DelayedFaults + 3 <= 3 * LongLookback
    /\ MonthsDays \in Nat /\ MonthsDays >= 2 /\ MonthsEnd \in Nat /\ ShortLookback \in Nat /\ ShortLookback >= 1
    /\ PunctualDays \in Nat /\ PunctualDays >= 2 /\ PunctualEnd \in Nat
    /\ LateFaults \in Nat /\ LateFaults <= 2
<1>1. Delayed!Assumptions /\ Months!Assumptions /\ OneByOne!Assumptions  BY PartsAssumption
<1> QED  BY <1>1, HistoryAssumption DEF Delayed!Assumptions, Months!Assumptions, OneByOne!Assumptions

(* The first parts, of a new site and of one with a day in store.            *)
AtFirst(U) ==
    /\ now \in 3..5 /\ delivered = now /\ ran = FALSE /\ missed = 0
    /\ sync = [u \in U |-> Rest]
LEMMA AtFirstTyped ==
    ASSUME NEW U, NEW n \in Nat, n >= 2, NEW F \in Nat, AtFirst(U), stored \in DayParts(n), summary \in DayParts(n)
    PROVE  HistoryTyped(U, n, F)
<1>1. now \in 3..5 /\ delivered = now /\ missed = 0 /\ ran = FALSE  BY DEF AtFirst
<1>3. now \in 0..(3 * n - 1) /\ delivered \in 3..now /\ missed \in 0..F  BY <1>1
<1>2. sync \in [U -> {Rest} \cup Syncs(n)]
  <2> HIDE DEF Rest
  <2> QED  BY DEF AtFirst
<1> QED  BY <1>1, <1>2, <1>3 DEF HistoryTyped
LEMMA NothingAtFirst ==
    ASSUME NEW n \in Nat, stored = Nothing(n), summary = Nothing(n)
    PROVE  /\ stored \in DayParts(n) /\ summary \in DayParts(n)
           /\ Top(n, stored) = -1 /\ Top(n, summary) = -1
           /\ \A d \in 0..(n - 1) : stored[d] = 0 /\ summary[d] = 0
<1>1. Nothing(n) \in DayParts(n) /\ \A d \in 0..(n - 1) : Nothing(n)[d] = 0  BY NothingIs
<1> DEFINE T == Top(n, Nothing(n))
<1>2. T \in Int /\ -1 <= T /\ (T >= 0 => T \in 0..(n - 1) /\ Nothing(n)[T] > 0)  BY <1>1, TopIs
<1> HIDE DEF T
<1>3. T = -1  BY <1>1, <1>2
<1> QED  BY <1>1, <1>3 DEF T

LEMMA NewAtFirst ==
    ASSUME NEW n \in Nat, n >= 2, NEW F \in Nat, NEW me \in Nat, AtFirst({1}),
           stored = Nothing(n), summary = Nothing(n)
    PROVE  /\ HistoryTyped({1}, n, F) /\ LateSafe(n) /\ SkipSafe(n) /\ PunctualSafe(n, me)
<1>1. /\ stored \in DayParts(n) /\ summary \in DayParts(n)
      /\ Top(n, stored) = -1 /\ Top(n, summary) = -1
      /\ \A d \in 0..(n - 1) : stored[d] = 0 /\ summary[d] = 0
  BY NothingAtFirst
<1>2. HistoryTyped({1}, n, F)  BY <1>1, AtFirstTyped
<1>3. sync[1] = Rest /\ sync[1].at = "idle" /\ now \in 3..5 /\ delivered = now /\ ran = FALSE /\ missed = 0
  BY RestIs DEF AtFirst
<1>4. Reach(n, stored) = 2  BY <1>1 DEF Reach
<1>5. WholeTo(n, stored) /\ Within(n, stored, delivered) /\ Ended(n, summary, now) /\ WholeOrNone(n, summary)
      /\ AllWhole(n, summary)
  BY <1>1 DEF WholeTo, Within, Ended, WholeOrNone, AllWhole
<1>6. LateSafe(n)  BY <1>3, <1>4, <1>5 DEF LateSafe, LateStore, LateSync, Stored
<1>7. SkipSafe(n)  BY <1>1, <1>3 DEF SkipSafe, NoneSkipped, NoneSkippedBy
<1>8. PunctualSafe(n, me)  BY <1>3, <1>4, <1>5 DEF PunctualSafe, Punctual, PunctualSync, Stored
<1> QED  BY <1>2, <1>6, <1>7, <1>8

LEMMA OldAtFirst ==
    ASSUME NEW U, NEW n \in Nat, n >= 2, NEW me \in Nat, AtFirst(U),
           stored = [d \in 0..(n - 1) |-> IF d = 0 THEN 3 ELSE 0], summary = stored
    PROVE  HistoryTyped(U, n, 0) /\ MonthsSafe(U, n, me)
<1>1. stored \in DayParts(n) /\ \A d \in 0..(n - 1) : stored[d] > 0 <=> d = 0  BY DEF DayParts
<1> DEFINE T == Top(n, stored)
<1>2. T \in Int /\ -1 <= T /\ (T >= 0 => T \in 0..(n - 1) /\ stored[T] > 0)
      /\ \A d \in 0..(n - 1) : stored[d] > 0 => d <= T
  BY <1>1, TopIs
<1> HIDE DEF T
<1>3. 0 \in 0..(n - 1)  OBVIOUS
<1>4. stored[0] > 0  BY <1>1, <1>3
<1>5. T = 0  BY <1>1, <1>2, <1>3, <1>4
<1>6. now \in 3..5 /\ delivered = now /\ ran = FALSE /\ \A u \in U : sync[u] = Rest  BY DEF AtFirst
<1>7. Top(n, stored) = 0 /\ Top(n, summary) = 0  BY <1>5 DEF T
<1>8. NoGap(n, stored) /\ NoGap(n, summary)  BY <1>1, <1>7 DEF NoGap
<1>9. Done(n, now - 2, 0)  BY <1>6 DEF Done
<1>10. MonthsStore(n)  BY <1>6, <1>7, <1>8, <1>9 DEF MonthsStore
<1>11. \A u \in U : MonthsSync(n, me, now, Top(n, stored), Top(n, summary), sync[u])
  BY <1>6, RestMonths
<1>12. 0 \in Nat /\ summary \in DayParts(n)  BY <1>1
<1> QED  BY <1>1, <1>10, <1>11, <1>12, AtFirstTyped DEF MonthsSafe

LEMMA HistoryAtFirst == PartsInit => HistorySafe
<1> SUFFICES ASSUME PartsInit PROVE HistorySafe  OBVIOUS
<1>1. ASSUME part = "delayed"
      PROVE  HistoryTyped({1}, DelayedDays, DelayedFaults) /\ LateSafe(DelayedDays)
  <2>1. Delayed!Init  BY <1>1 DEF PartsInit
  <2>2. AtFirst({1}) /\ stored = Nothing(DelayedDays) /\ summary = Nothing(DelayedDays)
    BY <2>1 DEF Delayed!Init, Delayed!None, Delayed!Dates, Nothing, AtFirst, Rest
  <2> QED  BY <2>2, NewAtFirst, HistoryConstants
<1>2. ASSUME part = "faulted"
      PROVE  HistoryTyped({1}, DelayedDays, DelayedFaults) /\ SkipSafe(DelayedDays)
  <2>1. Faulted!Init  BY <1>2 DEF PartsInit
  <2>2. AtFirst({1}) /\ stored = Nothing(DelayedDays) /\ summary = Nothing(DelayedDays)
    BY <2>1 DEF Faulted!Init, Faulted!None, Faulted!Dates, Nothing, AtFirst, Rest, Faulted!Idle, Delayed!Idle
  <2> QED  BY <2>2, NewAtFirst, HistoryConstants
<1>3. ASSUME part = "months"
      PROVE  HistoryTyped(MonthsUpdates, MonthsDays, 0) /\ MonthsSafe(MonthsUpdates, MonthsDays, MonthsEnd)
  <2>1. Months!Init  BY <1>3 DEF PartsInit
  <2>2. /\ AtFirst(MonthsUpdates) /\ stored = [d \in 0..(MonthsDays - 1) |-> IF d = 0 THEN 3 ELSE 0]
        /\ summary = stored
    BY <2>1 DEF Months!Init, Months!Dates, AtFirst, Rest, Months!Idle, Delayed!Idle
  <2> QED  BY <2>2, OldAtFirst, HistoryConstants
<1>4. ASSUME part = "oneByOne"
      PROVE  HistoryTyped({1}, PunctualDays, LateFaults) /\ PunctualSafe(PunctualDays, PunctualEnd)
  <2>1. OneByOne!Init  BY <1>4 DEF PartsInit
  <2>2. AtFirst({1}) /\ stored = Nothing(PunctualDays) /\ summary = Nothing(PunctualDays)
    BY <2>1 DEF OneByOne!Init, OneByOne!None, OneByOne!Dates, Nothing, AtFirst, Rest, OneByOne!Idle, Delayed!Idle
  <2> QED  BY <2>2, NewAtFirst, HistoryConstants
<1> QED  BY <1>1, <1>2, <1>3, <1>4 DEF HistorySafe

LEMMA HistorySteps ==
    ASSUME [PartsNext]_vars
    PROVE  /\ part' = part
           /\ part = "delayed" => Delayed!Next \/ UNCHANGED histories
           /\ part = "faulted" => Faulted!Next \/ UNCHANGED histories
           /\ part = "months" => Months!Next \/ UNCHANGED histories
           /\ part = "oneByOne" => OneByOne!Next \/ UNCHANGED histories
<1> QED  BY Zenon DEF PartsNext, ForHistory, ForUpdates, ForJobs, ForAlerts, ForDocument, vars

LEMMA HistoryRests ==
    ASSUME UNCHANGED histories
    PROVE  /\ \A U, n, F : HistoryTyped(U, n, F) => HistoryTyped(U, n, F)'
           /\ \A n : (LateSafe(n) => LateSafe(n)') /\ (SkipSafe(n) => SkipSafe(n)')
           /\ \A n, me : PunctualSafe(n, me) => PunctualSafe(n, me)'
           /\ \A U, n, me : MonthsSafe(U, n, me) => MonthsSafe(U, n, me)'
<1>1. Rest' = Rest  BY DEF Rest, Delayed!Idle
<1>2. /\ now' = now /\ delivered' = delivered /\ stored' = stored /\ summary' = summary /\ sync' = sync
      /\ ran' = ran /\ missed' = missed
  BY DEF histories
<1>3. \A U, n, F : HistoryTyped(U, n, F) => HistoryTyped(U, n, F)'
  BY <1>1, <1>2 DEF HistoryTyped
<1>4. \A n : LateSafe(n) => LateSafe(n)'  BY <1>2 DEF LateSafe, LateStore, LateSync
<1>5. \A n : SkipSafe(n) => SkipSafe(n)'  BY <1>2 DEF SkipSafe, NoneSkipped, NoneSkippedBy
<1>6. \A n, me : PunctualSafe(n, me) => PunctualSafe(n, me)'  BY <1>2 DEF PunctualSafe, Punctual, PunctualSync
<1>7. \A U, n, me : MonthsSafe(U, n, me) => MonthsSafe(U, n, me)'  BY <1>2 DEF MonthsSafe, MonthsStore
<1> QED  BY <1>3, <1>4, <1>5, <1>6, <1>7

LEMMA HistoryStays == HistorySafe /\ [PartsNext]_vars => HistorySafe'
<1> SUFFICES ASSUME HistorySafe, [PartsNext]_vars PROVE HistorySafe'  OBVIOUS
<1>0. PartsAssumption /\ HistoryAssumption  BY PartsAssumption, HistoryAssumption
<1>1. ASSUME part = "delayed"
      PROVE  HistoryTyped({1}, DelayedDays, DelayedFaults)' /\ LateSafe(DelayedDays)'
  <2>1. HistoryTyped({1}, DelayedDays, DelayedFaults) /\ LateSafe(DelayedDays)  BY <1>1 DEF HistorySafe
  <2>2. CASE UNCHANGED histories  BY <2>1, <2>2, HistoryRests
  <2>3. CASE Delayed!Next
    <3>1. CASE Elapses({1}, DelayedDays, DelayedFaults)
      BY <2>1, <3>1, TimeTyped, LateTime, HistoryConstants
    <3>2. CASE Moves(1, DelayedDays, DelayedEnd, LongLookback) \/ FetchFails(1, DelayedDays, DelayedFaults)
      BY <2>1, <3>2, LateMoves, HistoryConstants
    <3> QED  BY <1>0, <2>1, <2>3, <3>1, <3>2, DelayedSteps
  <2> QED  BY <1>1, <2>2, <2>3, HistorySteps
<1>2. ASSUME part = "faulted"
      PROVE  HistoryTyped({1}, DelayedDays, DelayedFaults)' /\ SkipSafe(DelayedDays)'
  <2>1. HistoryTyped({1}, DelayedDays, DelayedFaults) /\ SkipSafe(DelayedDays)  BY <1>2 DEF HistorySafe
  <2>2. CASE UNCHANGED histories  BY <2>1, <2>2, HistoryRests
  <2>3. CASE Faulted!Next
    <3>1. CASE Elapses({1}, DelayedDays, DelayedFaults)
      BY <2>1, <3>1, TimeTyped, SkipTime, HistoryConstants
    <3>2. CASE \/ Moves(1, DelayedDays, DelayedDays, LongLookback) \/ FetchFails(1, DelayedDays, DelayedFaults)
               \/ StoresSome(1, DelayedDays, DelayedFaults) \/ CommitFails(1, DelayedDays, DelayedFaults)
      BY <2>1, <3>2, SkipMoves, HistoryConstants
    <3> QED  BY <1>0, <2>1, <2>3, <3>1, <3>2, FaultedSteps
  <2> QED  BY <1>2, <2>2, <2>3, HistorySteps
<1>3. ASSUME part = "months"
      PROVE  HistoryTyped(MonthsUpdates, MonthsDays, 0)' /\ MonthsSafe(MonthsUpdates, MonthsDays, MonthsEnd)'
  <2>1. HistoryTyped(MonthsUpdates, MonthsDays, 0) /\ MonthsSafe(MonthsUpdates, MonthsDays, MonthsEnd)
    BY <1>3 DEF HistorySafe
  <2>2. CASE UNCHANGED histories  BY <2>1, <2>2, HistoryRests
  <2>3. CASE Months!Next
    <3>0. 0 \in Nat  OBVIOUS
    <3>1. CASE Elapses(MonthsUpdates, MonthsDays, 0)
      BY <2>1, <3>0, <3>1, TimeTyped, MonthsTime, HistoryConstants
    <3>2. CASE \E u \in MonthsUpdates : Moves(u, MonthsDays, MonthsEnd, ShortLookback)
      BY <2>1, <3>2, MonthsMoves, HistoryConstants
    <3> QED  BY <1>0, <2>1, <2>3, <3>1, <3>2, MonthsSteps
  <2> QED  BY <1>3, <2>2, <2>3, HistorySteps
<1>4. ASSUME part = "oneByOne"
      PROVE  HistoryTyped({1}, PunctualDays, LateFaults)' /\ PunctualSafe(PunctualDays, PunctualEnd)'
  <2>1. HistoryTyped({1}, PunctualDays, LateFaults) /\ PunctualSafe(PunctualDays, PunctualEnd)
    BY <1>4 DEF HistorySafe
  <2>2. CASE UNCHANGED histories  BY <2>1, <2>2, HistoryRests
  <2>3. CASE OneByOne!Next
    <3>1. CASE Elapses({1}, PunctualDays, LateFaults) /\ sync[1] = Rest
      BY <2>1, <3>1, TimeTyped, PunctualTime, HistoryConstants
    <3>2. CASE Moves(1, PunctualDays, PunctualEnd, ShortLookback)
      BY <2>1, <3>2, PunctualMoves, HistoryConstants
    <3> QED  BY <1>0, <2>1, <2>3, <3>1, <3>2, OneByOneSteps
  <2> QED  BY <1>4, <2>2, <2>3, HistorySteps
<1> QED  BY <1>1, <1>2, <1>3, <1>4, HistorySteps DEF HistorySafe

LEMMA HistoryMeans == HistorySafe => HistoryInv
<1> SUFFICES ASSUME HistorySafe PROVE HistoryInv  OBVIOUS
<1>1. ASSUME part = "delayed" PROVE Delayed!TypeOK /\ Delayed!PastDaysAreWhole
  <2> DEFINE n == DelayedDays
  <2>1. HistoryTyped({1}, n, DelayedFaults) /\ LateSafe(n) /\ n \in Nat  BY <1>1, HistoryConstants DEF HistorySafe
  <2>2. Delayed!Dates = 0..(n - 1) /\ Delayed!DayParts = DayParts(n) /\ Delayed!Today = now \div 3
    BY DEF Delayed!Dates, Delayed!DayParts, DayParts, Delayed!Today
  <2>3. \A parts : Delayed!Latest(parts) = Top(n, parts)  BY <2>2 DEF Delayed!Latest, Top
  <2>4. Delayed!PastDaysAreWhole
    <3>1. Top(n, stored) \in Int  BY <2>1, TopIs DEF HistoryTyped
    <3>2. \A d \in 0..(n - 1) : d < Top(n, stored) => stored[d] = 3
      BY <2>1 DEF LateSafe, LateStore, WholeTo
    <3> QED  BY <2>2, <2>3, <3>1, <3>2 DEF Delayed!PastDaysAreWhole
  <2>5. \A d \in 0..(n - 1) : stored[d] > 0 => 3 * d + stored[d] - 1 <= delivered
    BY <2>1 DEF LateSafe, LateStore, Within
  <2>6. \A d \in 0..(n - 1) : summary[d] > 0 => d < now \div 3
    <3>1. now \in Nat  BY <2>1 DEF HistoryTyped
    <3>2. now \div 3 \in Nat /\ now <= 3 * (now \div 3) + 2  BY <3>1, DayOf
    <3>3. \A d \in 0..(n - 1) : summary[d] > 0 => 3 * d + 3 <= now
      BY <2>1 DEF LateSafe, LateStore, Ended
    <3> QED  BY <3>1, <3>2, <3>3
  <2>7. \A u \in {1} : sync[u] = Delayed!Idle \/
            /\ sync[u].at \in {"fetched", "synced", "commit", "combine", "given"}
            /\ \A p \in {sync[u].data, sync[u].sums} : p \in DayParts(n)
            /\ sync[u].left \subseteq {1, 2} /\ sync[u].over \in BOOLEAN
    BY <2>1 DEF HistoryTyped, Rest, Syncs, SyncPhases
  <2>8. /\ now \in 0..(3 * n - 1) /\ delivered \in -1..now /\ stored \in DayParts(n) /\ summary \in DayParts(n)
        /\ ran \in BOOLEAN /\ missed \in 0..DelayedFaults
    BY <2>1 DEF HistoryTyped
  <2> HIDE DEF n
  <2>9. Delayed!TypeOK  BY <2>2, <2>5, <2>6, <2>7, <2>8 DEF Delayed!TypeOK, n
  <2> QED  BY <2>4, <2>9
<1>2. ASSUME part = "faulted" PROVE Faulted!NoDayIsSkipped
  <2>1. Faulted!Dates = 0..(DelayedDays - 1)  BY DEF Faulted!Dates
  <2>2. Faulted!Latest(summary) = Top(DelayedDays, summary)  BY <2>1 DEF Faulted!Latest, Top
  <2>3. \A d \in 0..(DelayedDays - 1) : d < Top(DelayedDays, summary) /\ stored[d] > 0 => summary[d] > 0
    BY <1>2 DEF HistorySafe, SkipSafe, NoneSkipped
  <2> QED  BY <2>1, <2>2, <2>3 DEF Faulted!NoDayIsSkipped
<1>3. ASSUME part = "months" PROVE Months!NoDayIsSkipped
  <2>1. Months!Dates = 0..(MonthsDays - 1)  BY DEF Months!Dates
  <2>2. Months!Latest(summary) = Top(MonthsDays, summary)  BY <2>1 DEF Months!Latest, Top
  <2>3. Top(MonthsDays, summary) \in Int
    BY <1>3, TopIs, HistoryConstants DEF HistorySafe, HistoryTyped
  <2>4. \A d \in 0..(MonthsDays - 1) : d <= Top(MonthsDays, summary) => summary[d] > 0
    BY <1>3 DEF HistorySafe, MonthsSafe, MonthsStore, NoGap
  <2> QED  BY <2>1, <2>2, <2>3, <2>4 DEF Months!NoDayIsSkipped
<1>4. ASSUME part = "oneByOne" PROVE OneByOne!SummaryIsFinal
  <2>1. \A d \in 0..(PunctualDays - 1) : (summary[d] > 0 => summary[d] = 3) /\ stored[d] \in 0..3
    BY <1>4 DEF HistorySafe, PunctualSafe, Punctual, WholeOrNone, HistoryTyped, DayParts
  <2>2. OneByOne!Dates = 0..(PunctualDays - 1)  BY DEF OneByOne!Dates
  <2> QED  BY <2>1, <2>2 DEF OneByOne!SummaryIsFinal
<1> QED
  BY <1>1, <1>2, <1>3, <1>4 DEF HistoryInv, PastDaysAreWhole, NoDayIsSkipped, SummaryIsFinal

(* The days before the last one in store are whole though the vendor is late; *)
(* no day is left out of the summaries though writes fail or two updates meet *)
(* at the end of a month; and a day of a site updated on time is summarised   *)
(* with all that is ever stored of it (update.go, updateEnergyHistory and     *)
(* updateHistorySummary): for any number of days and faults.                  *)
THEOREM HistoryHolds == PartsSpec => []HistoryInv
<1>1. PartsInit => HistorySafe  BY HistoryAtFirst
<1>2. HistorySafe /\ [PartsNext]_vars => HistorySafe'  BY HistoryStays
<1>3. HistorySafe => HistoryInv  BY HistoryMeans
<1> QED  BY <1>1, <1>2, <1>3, PTL DEF PartsSpec

LEMMA GivenAll ==
    ASSUME PartsAssumption, HistoryAssumption, HistorySafe, part = "oneByOne", OneByOne!Next
    PROVE  OneByOne!SeesAll
<1> DEFINE n == PunctualDays
           s == sync[1]
<1>1. HistoryTyped({1}, n, LateFaults) /\ PunctualSafe(n, PunctualEnd) /\ n \in Nat
  BY HistoryConstants DEF HistorySafe
<1>2. /\ stored \in DayParts(n) /\ sync \in [{1} -> {Rest} \cup Syncs(n)] /\ (s = Rest \/ s \in Syncs(n))
  BY <1>1 DEF HistoryTyped
<1>3. SUFFICES ASSUME s.at = "combine", sync'[1].at = "given"
               PROVE  \A d \in 0..(n - 1) : sync'[1].data[d] >= stored[d]
  <2>1. OneByOne!Dates = 0..(n - 1)  BY DEF OneByOne!Dates
  <2> HIDE DEF n
  <2> QED  BY <2>1 DEF OneByOne!SeesAll
<1>4. s # Rest /\ s \in Syncs(n)  BY <1>2, <1>3, RestIs
<1>5. s.sums \in DayParts(n)  BY <1>4, SyncFields
<1>6. AllWhole(n, s.sums)  BY <1>1, <1>3 DEF PunctualSafe, PunctualSync
<1>7. OneByOne!Combine(1)
  <2>1. Rest.at = "idle" /\ OneByOne!Idle = Rest  BY RestIs DEF OneByOne!Idle, Delayed!Idle, Rest
  <2>2. ~OneByOne!Fetch(1)  BY <1>4, <2>1 DEF OneByOne!Fetch
  <2>3. ~OneByOne!Store(1) /\ ~OneByOne!Summarise(1) /\ ~OneByOne!Committing(1) /\ ~OneByOne!Finish(1)
        /\ \A m : ~OneByOne!Commit(1, m)
    BY <1>3 DEF OneByOne!Store, OneByOne!Summarise, OneByOne!Committing, OneByOne!Finish, OneByOne!Commit
  <2>4. ~OneByOne!Tick  BY <1>4, <2>1 DEF OneByOne!Tick
  <2> QED  BY <2>2, <2>3, <2>4 DEF OneByOne!Next
<1>8. sync' = [sync EXCEPT ![1].at = "given", ![1].data =
            [d \in OneByOne!Dates |-> IF d > OneByOne!Latest(s.sums) \/ d = OneByOne!Today
                                      THEN OneByOne!Larger(s.sums[d], stored[d]) ELSE s.sums[d]]]
  BY <1>7 DEF OneByOne!Combine
<1> DEFINE data == [d \in OneByOne!Dates |-> IF d > OneByOne!Latest(s.sums) \/ d = OneByOne!Today
                                      THEN OneByOne!Larger(s.sums[d], stored[d]) ELSE s.sums[d]]
<1>9. sync'[1].data = data
  <2>1. sync' = [sync EXCEPT ![1].at = "given", ![1].data = data]  BY <1>8
  <2> HIDE DEF data
  <2>2. sync' = [sync EXCEPT ![1] = Sync("given", s.over, s.left, s.sums, data)]
    <3>1. \A a, d : [sync EXCEPT ![1].at = a, ![1].data = d] =
              [sync EXCEPT ![1] = Sync(a, s.over, s.left, s.sums, d)]
      BY <1>2, <1>4, SyncGoes
    <3> QED  BY <2>1, <3>1
  <2>3. sync'[1] = Sync("given", s.over, s.left, s.sums, data)  BY <1>2, <2>2
  <2> QED  BY <2>3 DEF Sync
<1>10. OneByOne!Dates = 0..(n - 1)  BY DEF OneByOne!Dates
<1>11. OneByOne!Latest(s.sums) = Top(n, s.sums)  BY <1>10 DEF OneByOne!Latest, Top
<1>12. Top(n, s.sums) \in Int  BY <1>1, <1>5, TopIs
<1>13. ASSUME NEW d \in 0..(n - 1) PROVE data[d] >= stored[d]
  <2> DEFINE a == s.sums[d]
             b == stored[d]
  <2>1. a \in 0..3 /\ b \in 0..3  BY <1>2, <1>5 DEF DayParts
  <2>2. data[d] = IF d > Top(n, s.sums) \/ d = OneByOne!Today THEN OneByOne!Larger(a, b) ELSE a
    BY <1>10, <1>11
  <2>3. OneByOne!Larger(a, b) >= b
    <3> HIDE DEF a, b
    <3> QED  BY <2>1 DEF OneByOne!Larger
  <2>4. d <= Top(n, s.sums) => a = 3  BY <1>6 DEF AllWhole
  <2> HIDE DEF a, b, data
  <2>5. CASE d > Top(n, s.sums)  BY <2>2, <2>3, <2>5 DEF b
  <2>6. CASE d <= Top(n, s.sums)
    <3>1. a >= b  BY <2>1, <2>4, <2>6
    <3> QED  BY <2>2, <2>3, <3>1 DEF b
  <2> QED  BY <1>12, <2>5, <2>6
<1> QED  BY <1>9, <1>13

(* The controller of a site that is updated on time is given all that is     *)
(* stored, of every day (update.go, getCombinedHistory).                      *)
THEOREM ControllerSeesAllHolds == PartsSpec => ControllerSeesAll
<1>1. PartsInit => HistorySafe  BY HistoryAtFirst
<1>2. HistorySafe /\ [PartsNext]_vars => HistorySafe'  BY HistoryStays
<1>3. HistorySafe /\ [PartsNext]_vars => [part = "oneByOne" => OneByOne!SeesAll]_vars
  <2> SUFFICES ASSUME HistorySafe, [PartsNext]_vars, part = "oneByOne" PROVE OneByOne!SeesAll  OBVIOUS
  <2>1. CASE OneByOne!Next  BY <2>1, GivenAll, PartsAssumption, HistoryAssumption
  <2>2. CASE UNCHANGED histories  BY <2>2 DEF histories, OneByOne!SeesAll
  <2> QED  BY <2>1, <2>2, HistorySteps
<1> QED  BY <1>1, <1>2, <1>3, PTL DEF PartsSpec, ControllerSeesAll

-----------------------------------------------------------------------------
(* A blip of the grid: only the second look, while the grid is down, goes on  *)
(* from the wait.                                                             *)
LEMMA OnlyVerifiedIsTold ==
    ASSUME AlertsTyped, Alerting!Next, NEW p \in AlertUpdates,
           alert[p].at = "waiting", alert'[p].at = "alerting"
    PROVE  down
<1>1. DOMAIN alert = AlertUpdates  BY DEF AlertsTyped
<1>2. ~(Alerting!GridChanges \/ Alerting!NightChanges)
  BY DEF Alerting!GridChanges, Alerting!NightChanges
<1>3. ~Alerting!Tick
  <2>1. ASSUME Alerting!Tick PROVE alert'[p].at = "waiting"
    <3>1. alert'[p] = [alert[p] EXCEPT !.left = @ - 1]  BY <2>1 DEF Alerting!Tick
    <3>2. AlertSound(alert[p])  BY DEF AlertsTyped
    <3>3. alert[p] \in Waiting  BY <3>2 DEF AlertSound, Alerting!Idle, Read, Telling
    <3> QED  BY <3>1, <3>3 DEF Waiting
  <2> QED  BY <2>1
<1>4. PICK q \in AlertUpdates : Alerting!Proceed(q) \/ Alerting!Cancelled(q)  BY <1>2, <1>3 DEF Alerting!Next
<1>5. q = p
  <2> SUFFICES ASSUME q # p PROVE alert'[p] = alert[p]  OBVIOUS
  <2>1. CASE Alerting!Begin(q)  BY <1>1, <2>1 DEF Alerting!Begin
  <2>2. CASE Alerting!Evaluate(q) \/ Alerting!Verify(q)  BY <1>1, <2>2 DEF Alerting!Evaluate, Alerting!Verify
  <2>3. CASE Alerting!AppendLog(q) \/ Alerting!LogFails(q)  BY <1>1, <2>3 DEF Alerting!AppendLog, Alerting!LogFails
  <2>4. CASE Alerting!Finish(q) \/ Alerting!Cancelled(q)  BY <1>1, <2>4 DEF Alerting!Finish, Alerting!Cancelled
  <2>5. CASE \E u \in AlertUsers : Alerting!Send(q, u)  BY <1>1, <2>5 DEF Alerting!Send
  <2>6. CASE \E u \in AlertUsers : Alerting!Mute(q, u)  BY <1>1, <2>6 DEF Alerting!Mute
  <2> QED  BY <1>4, <2>1, <2>2, <2>3, <2>4, <2>5, <2>6 DEF Alerting!Proceed
<1>6. ~Alerting!Cancelled(p) /\ ~Alerting!Begin(p) /\ ~Alerting!Evaluate(p)
  BY <1>1 DEF Alerting!Cancelled, Alerting!Begin, Alerting!Evaluate, Alerting!Idle
<1>7. ~Alerting!AppendLog(p) /\ ~Alerting!LogFails(p) /\ ~Alerting!Finish(p)
      /\ \A u : ~Alerting!Send(p, u) /\ ~Alerting!Mute(p, u)
  BY DEF Alerting!AppendLog, Alerting!LogFails, Alerting!Finish, Alerting!Send, Alerting!Mute
<1>8. Alerting!Verify(p)  BY <1>4, <1>5, <1>6, <1>7 DEF Alerting!Proceed
<1> QED  BY <1>1, <1>8 DEF Alerting!Verify, Alerting!Idle

-----------------------------------------------------------------------------
(* Where jobs are on time, a site was tried once in the round unless its job  *)
(* is due or has still to take it.                                            *)
TriedOnce ==
    /\ moved = {}
    /\ \A j \in Sweeping!Jobs : job[j].due \in {0, 1} /\ (job[j].due = 1 => ~job[j].on)
    /\ \A s \in SweptSites : group[s] # Sweeping!Unset =>
          tried[s] = IF job[OwnJob(s)].due = 1 \/ s \in job[OwnJob(s)].left THEN 0 ELSE 1

LEMMA OneJobTries ==
    ASSUME JobsTyped, TriedOnce, NEW j \in Sweeping!Jobs, NEW q \in JobRecords,
           job' = [job EXCEPT ![j] = q], q.due \in {0, 1}, q.due = 1 => ~q.on,
           shuffle' = shuffle, group' = group, moved' = moved,
           \A s \in SweptSites \ Own(j) : tried'[s] = tried[s],
           \A s \in Own(j) : tried'[s] = IF q.due = 1 \/ s \in q.left THEN 0 ELSE 1
    PROVE  TriedOnce'
<1>1. \A i \in Sweeping!Jobs : job'[i] = IF i = j THEN q ELSE job[i]  BY DEF JobsTyped
<1>2. \A i \in Sweeping!Jobs : job'[i].due \in {0, 1} /\ (job'[i].due = 1 => ~job'[i].on)
  BY <1>1 DEF TriedOnce
<1>3. ASSUME NEW s \in SweptSites, group[s] # Sweeping!Unset
      PROVE  tried'[s] = IF job'[OwnJob(s)].due = 1 \/ s \in job'[OwnJob(s)].left THEN 0 ELSE 1
  <2>1. OwnJob(s) \in Sweeping!Jobs  BY OwnJobs
  <2>2. s \in Own(j) <=> OwnJob(s) = j  BY <1>3 DEF Own
  <2> QED  BY <1>1, <1>3, <2>1, <2>2 DEF TriedOnce
<1>4. \A s : OwnJob(s)' = OwnJob(s)  BY DEF OwnJob
<1> QED  BY <1>2, <1>3, <1>4 DEF TriedOnce

LEMMA RoundsTry ==
    ASSUME JobsTyped, RunsAreOwn, TriedOnce, Sweeping!Next, Undisturbed,
           \A j \in Sweeping!Jobs : job'[j].due <= 1
    PROVE  TriedOnce' /\ Sweeping!OncePerRound
<1>j. \A j \in Sweeping!Jobs : /\ job[j] \in JobRecords /\ JobSound(job[j])
                               /\ job[j].left \subseteq Own(j) /\ job[j].doing \subseteq Own(j)
  BY DEF JobsTyped, RunsAreOwn, TriedOnce
<1>t. \A s \in SweptSites : group[s] # Sweeping!Unset =>
          tried[s] = IF job[OwnJob(s)].due = 1 \/ s \in job[OwnJob(s)].left THEN 0 ELSE 1
  BY DEF TriedOnce
<1>o. \A j \in Sweeping!Jobs : \A s \in Own(j) :
          tried[s] = IF job[j].due = 1 \/ s \in job[j].left THEN 0 ELSE 1
  BY <1>t DEF Own
<1>1. ASSUME Sweeping!NextRound
      PROVE  TriedOnce' /\ \A s \in SweptSites : group[s] # Sweeping!Unset => tried[s] = 1
  <2>1. /\ job' = [j \in Sweeping!Jobs |-> [job[j] EXCEPT !.due = @ + 1]]
        /\ moved' = {} /\ tried' = [s \in SweptSites |-> 0] /\ group' = group
        /\ \A j \in Sweeping!Jobs : ~job[j].on
    BY <1>1 DEF Sweeping!NextRound
  <2>2. ASSUME NEW j \in Sweeping!Jobs
        PROVE  job[j].due = 0 /\ job[j].left = {} /\ job'[j].due = 1 /\ ~job'[j].on
    <3>1. job[j] \in JobRecords /\ JobSound(job[j]) /\ ~job[j].on  BY <1>j, <2>1
    <3>2. job'[j] = [job[j] EXCEPT !.due = @ + 1]  BY <2>1
    <3>3. job'[j].due = job[j].due + 1 /\ job'[j].on = job[j].on  BY <3>1, <3>2 DEF JobRecords
    <3>4. job[j].due \in {0, 1}  BY DEF TriedOnce
    <3> QED  BY <3>1, <3>3, <3>4 DEF JobSound
  <2>3. ASSUME NEW s \in SweptSites PROVE OwnJob(s) \in Sweeping!Jobs /\ OwnJob(s)' \in Sweeping!Jobs
    <3>1. JobsTyped'  BY <1>1, RoundsPreserve
    <3>2. OwnJob(s)' \in Sweeping!Jobs
      BY <3>1, ShuffleTypes, JobNumbers DEF JobsTyped, OwnJob, Sweeping!Jobs
    <3> QED  BY <3>2, OwnJobs
  <2>4. \A s \in SweptSites : tried'[s] = 0  BY <2>1
  <2>5. TriedOnce'  BY <2>1, <2>2, <2>3, <2>4 DEF TriedOnce
  <2>6. \A s \in SweptSites : group[s] # Sweeping!Unset => tried[s] = 1  BY <1>t, <2>2, <2>3
  <2> QED  BY <2>5, <2>6
<1>2. ASSUME NEW j \in Sweeping!Jobs, Sweeping!Start(j) PROVE TriedOnce'
  <2> DEFINE q == [due |-> job[j].due - 1, on |-> TRUE, left |-> Sweeping!Listed(j), doing |-> {}]
  <2>1. /\ job[j].due = 1 /\ shuffle' = shuffle /\ group' = group /\ moved' = moved /\ tried' = tried
        /\ job' = [job EXCEPT ![j] = q]
    BY <1>2 DEF Sweeping!Start, TriedOnce, JobsTyped
  <2>2. Sweeping!Listed(j) = Own(j) /\ Own(j) \subseteq SweptSites  BY ListedAreOwn DEF Own
  <2>3. q \in JobRecords /\ q.due = 0 /\ q.left = Own(j)  BY <2>1, <2>2 DEF JobRecords
  <2> HIDE DEF q
  <2>4. \A s \in Own(j) : tried[s] = 0  BY <1>o, <2>1
  <2>5. \A s \in Own(j) : tried'[s] = IF q.due = 1 \/ s \in q.left THEN 0 ELSE 1  BY <2>1, <2>3, <2>4
  <2>6. q.due \in {0, 1} /\ (q.due = 1 => ~q.on)  BY <2>3
  <2> QED  BY <2>1, <2>3, <2>5, <2>6, OneJobTries
<1>3. ASSUME NEW j \in Sweeping!Jobs, NEW s \in SweptSites, Sweeping!Take(j, s) PROVE TriedOnce'
  <2> DEFINE q == [job[j] EXCEPT !.left = @ \ {s}, !.doing = @ \union {s}]
  <2>1. /\ s \in job[j].left /\ shuffle' = shuffle /\ group' = group /\ moved' = moved
        /\ tried' = [tried EXCEPT ![s] = IF @ < 3 THEN @ + 1 ELSE 3]
        /\ job' = [job EXCEPT ![j] = q]
    BY <1>3 DEF Sweeping!Take, JobsTyped, JobRecords
  <2>2. job[j] \in JobRecords /\ job[j].on /\ s \in Own(j)  BY <1>j, <2>1 DEF JobSound
  <2>3. job[j].due = 0  BY <2>2 DEF TriedOnce
  <2>4. q \in JobRecords /\ q.due = 0 /\ q.left = job[j].left \ {s}  BY <2>2, <2>3 DEF JobRecords
  <2> HIDE DEF q
  <2>5. tried[s] = 0  BY <1>o, <2>1, <2>2
  <2>6. \A t \in SweptSites : tried'[t] = IF t = s THEN 1 ELSE tried[t]
    BY <2>1, <2>5 DEF JobsTyped
  <2>7. \A t \in Own(j) : tried'[t] = IF q.due = 1 \/ t \in q.left THEN 0 ELSE 1
    BY <1>o, <2>3, <2>4, <2>6 DEF Own
  <2>8. \A t \in SweptSites \ Own(j) : tried'[t] = tried[t]  BY <2>2, <2>6
  <2>9. q.due \in {0, 1} /\ (q.due = 1 => ~q.on)  BY <2>4
  <2> QED  BY <2>1, <2>4, <2>7, <2>8, <2>9, OneJobTries
<1>4. ASSUME NEW j \in Sweeping!Jobs, NEW s \in SweptSites, Sweeping!End(j, s) PROVE TriedOnce'
  <2> DEFINE q == [job[j] EXCEPT !.doing = @ \ {s}]
  <2>1. /\ shuffle' = shuffle /\ group' = group /\ moved' = moved /\ tried' = tried
        /\ job' = [job EXCEPT ![j] = q]
    BY <1>4 DEF Sweeping!End, JobsTyped, JobRecords
  <2>2. job[j] \in JobRecords  BY <1>j
  <2>3. q \in JobRecords /\ q.due = job[j].due /\ q.left = job[j].left /\ q.on = job[j].on  BY <2>2 DEF JobRecords
  <2> HIDE DEF q
  <2>4. q.due \in {0, 1} /\ (q.due = 1 => ~q.on)  BY <2>3 DEF TriedOnce
  <2>5. \A t \in Own(j) : tried'[t] = IF q.due = 1 \/ t \in q.left THEN 0 ELSE 1  BY <1>o, <2>1, <2>3
  <2> QED  BY <2>1, <2>3, <2>4, <2>5, OneJobTries
<1>5. ASSUME NEW j \in Sweeping!Jobs, Sweeping!Finish(j) PROVE TriedOnce'
  <2> DEFINE q == [job[j] EXCEPT !.on = FALSE]
  <2>1. /\ shuffle' = shuffle /\ group' = group /\ moved' = moved /\ tried' = tried
        /\ job' = [job EXCEPT ![j] = q]
    BY <1>5 DEF Sweeping!Finish, JobsTyped, JobRecords
  <2>2. job[j] \in JobRecords  BY <1>j
  <2>3. q \in JobRecords /\ q.due = job[j].due /\ q.left = job[j].left /\ ~q.on  BY <2>2 DEF JobRecords
  <2> HIDE DEF q
  <2>4. q.due \in {0, 1} /\ (q.due = 1 => ~q.on)  BY <2>3 DEF TriedOnce
  <2>5. \A t \in Own(j) : tried'[t] = IF q.due = 1 \/ t \in q.left THEN 0 ELSE 1  BY <1>o, <2>1, <2>3
  <2> QED  BY <2>1, <2>3, <2>4, <2>5, OneJobTries
<1>6. \A j \in Sweeping!Jobs : ~Sweeping!Cut(j)  BY DEF Undisturbed
<1>7. \A s \in SweptSites : ~Sweeping!Move(s)  BY MovesPreserve DEF Undisturbed
<1>8. TriedOnce'  BY <1>1, <1>2, <1>3, <1>4, <1>5, <1>6, <1>7 DEF Sweeping!Next
<1> QED  BY <1>1, <1>8 DEF Sweeping!OncePerRound

-----------------------------------------------------------------------------
(* One request at a time. The log's newest action is no younger than the last *)
(* command but while an action is yet to be logged, and no sweep goes on past *)
(* an action that is recent.                                                  *)
Deciding ==
    [at : {"begun", "checked", "deciding", "logging"}, sweep : BOOLEAN, paused : BOOLEAN,
     age : 0..2, tells : Lone!Told]
Calling ==
    {Lone!Idle} \union Deciding \union
    [at : {"reverting", "unmanaging"}, age : 0..2]
SpacedCall(c) ==
    /\ c \in Calling
    /\ IF c.at = "logging" THEN latest.age <= commanded \/ c.age <= commanded ELSE latest.age <= commanded
    /\ c.at \in {"checked", "deciding"} => c.sweep = FALSE \/ latest.age = 2
Spaced ==
    /\ DOMAIN call = {1} /\ SpacedCall(call[1])
    /\ commanded \in 0..2 /\ latest \in [age : 0..2, tells : Lone!Told] /\ paused \in BOOLEAN

LEMMA OneCall ==
    ASSUME DOMAIN call = {1}, NEW r, Lone!To(1, r)
    PROVE  DOMAIN call' = {1} /\ call'[1] = r
<1> QED  BY DEF Lone!To

LEMMA CallMoves ==
    ASSUME Spaced, NEW r, SpacedCall(r), Lone!To(1, r), UNCHANGED <<latest, commanded>>, paused' \in BOOLEAN
    PROVE  Spaced'
<1>1. DOMAIN call' = {1} /\ call'[1] = r  BY OneCall DEF Spaced
<1> QED  BY <1>1 DEF Spaced, SpacedCall

LEMMA CallsSpaced ==
    ASSUME Spaced, Lone!Next
    PROVE  Spaced'
<1> DEFINE c == call[1]
<1>1. /\ DOMAIN call = {1} /\ SpacedCall(c) /\ c \in Calling /\ commanded \in 0..2 /\ latest.age \in 0..2
      /\ latest \in [age : 0..2, tells : Lone!Told] /\ paused \in BOOLEAN
      /\ IF c.at = "logging" THEN latest.age <= commanded \/ c.age <= commanded ELSE latest.age <= commanded
      /\ c.at \in {"checked", "deciding"} => c.sweep = FALSE \/ latest.age = 2
  BY DEF Spaced, SpacedCall
<1>2. Lone!Idle.at = "idle"  BY DEF Lone!Idle
<1>3. SpacedCall(Lone!Idle) \/ c.at = "logging"  BY <1>1, <1>2 DEF SpacedCall, Calling, Deciding
<1>4. CASE Lone!Tick
  <2>1. \A a \in 0..2 : Lone!Older(a) \in 0..2 /\ Lone!Older(a) >= a  BY DEF Lone!Older
  <2>2. \A a, b \in 0..2 : a <= b => Lone!Older(a) <= Lone!Older(b)  BY DEF Lone!Older
  <2>3. latest' = [latest EXCEPT !.age = Lone!Older(@)] /\ commanded' = Lone!Older(commanded)
    BY <1>4 DEF Lone!Tick
  <2>4. latest'.age = Lone!Older(latest.age) /\ latest' \in [age : 0..2, tells : Lone!Told]
        /\ commanded' \in 0..2 /\ paused' \in BOOLEAN
    BY <1>1, <1>4, <2>1, <2>3 DEF Lone!Tick
  <2>5. DOMAIN call' = {1}
        /\ call'[1] = IF c.at = "idle" THEN Lone!Idle ELSE [c EXCEPT !.age = Lone!Older(@)]
    BY <1>4 DEF Lone!Tick
  <2>6. CASE c.at = "idle"  BY <1>1, <1>2, <2>2, <2>3, <2>4, <2>5, <2>6 DEF Spaced, SpacedCall, Calling, Deciding
  <2>7. CASE c.at # "idle"
    <3>1. c.age \in 0..2  BY <1>1, <1>2, <2>7 DEF Calling, Deciding
    <3>2. /\ call'[1] \in Calling /\ call'[1].at = c.at /\ call'[1].age = Lone!Older(c.age)
          /\ c.at \in {"checked", "deciding"} => call'[1].sweep = c.sweep
      BY <1>1, <1>2, <2>1, <2>5, <2>7, <3>1 DEF Calling, Deciding
    <3>3. latest.age <= commanded => latest'.age <= commanded'  BY <1>1, <2>2, <2>3, <2>4
    <3>4. c.age <= commanded => call'[1].age <= commanded'  BY <1>1, <2>2, <2>3, <3>1, <3>2
    <3>5. latest.age = 2 => latest'.age = 2  BY <1>1, <2>1, <2>4
    <3>6. SpacedCall(call[1])'  BY <1>1, <3>2, <3>3, <3>4, <3>5 DEF SpacedCall
    <3> QED  BY <2>4, <2>5, <3>6 DEF Spaced
  <2> QED  BY <2>6, <2>7
<1>5. CASE Lone!HouseChanges \/ Lone!Resume
  BY <1>5 DEF Lone!HouseChanges, Lone!Resume, Spaced, SpacedCall
<1>6. ASSUME NEW sweep \in BOOLEAN, Lone!Begin(1, sweep) PROVE Spaced'
  <2> DEFINE r == [at |-> "begun", sweep |-> sweep, paused |-> paused, age |-> 0, tells |-> "nothing"]
  <2>1. Lone!To(1, r) /\ c.at = "idle" /\ UNCHANGED <<latest, commanded, paused>>  BY <1>6 DEF Lone!Begin
  <2>2. r \in Calling  BY <1>1 DEF Calling, Deciding, Lone!Told
  <2> QED  BY <1>1, <2>1, <2>2, CallMoves DEF SpacedCall
<1>7. CASE Lone!Check(1)
  <2>1. ~Lone!Fault("read")  BY DEF Lone!Fault
  <2>2. c.at = "begun" /\ UNCHANGED <<latest, commanded, paused>>  BY <1>7 DEF Lone!Check
  <2>3. c \in Deciding
    BY <1>1, <1>2, <2>2 DEF Calling, Deciding
  <2> DEFINE r == [c EXCEPT !.at = "checked"]
  <2>4. Lone!To(1, Lone!Idle) \/ (~Lone!Skips(1) /\ Lone!To(1, r))
    BY <1>7, <2>1 DEF Lone!Check
  <2>5. SpacedCall(Lone!Idle)  BY <1>3, <2>2
  <2>6. r \in Calling /\ r.at = "checked" /\ r.sweep = c.sweep  BY <2>3 DEF Calling, Deciding
  <2>7. ~Lone!Skips(1) => c.sweep = FALSE \/ latest.age = 2  BY <1>1, <2>3 DEF Lone!Skips
  <2>8. ~Lone!Skips(1) => SpacedCall(r)  BY <1>1, <2>2, <2>6, <2>7 DEF SpacedCall
  <2> QED  BY <1>1, <2>2, <2>4, <2>5, <2>8, CallMoves
<1>8. ASSUME NEW tells \in Lone!Told, c.at \in {"checked", "deciding"}, Lone!Logging(1, tells),
             commanded' \in {0, commanded}, UNCHANGED <<latest, paused>>
      PROVE  Spaced'
  <2>1. c \in Deciding
    BY <1>1, <1>2, <1>8 DEF Calling, Deciding
  <2> DEFINE r == [c EXCEPT !.at = "logging", !.age = 0, !.tells = tells]
  <2>2. r \in Calling /\ r.at = "logging" /\ r.age = 0
    <3>1. [c EXCEPT !.at = "logging"] \in Deciding  BY <2>1 DEF Deciding
    <3>2. \A k \in Deciding : [k EXCEPT !.age = 0] \in Deciding  BY DEF Deciding
    <3>3. [[c EXCEPT !.at = "logging"] EXCEPT !.age = 0] \in Deciding  BY <3>1, <3>2
    <3>4. [[[c EXCEPT !.at = "logging"] EXCEPT !.age = 0] EXCEPT !.tells = tells] \in Deciding
      BY <1>8, <3>3 DEF Deciding
    <3>5. r = [[[c EXCEPT !.at = "logging"] EXCEPT !.age = 0] EXCEPT !.tells = tells]  OBVIOUS
    <3>6. r.at = "logging" /\ r.age = 0  BY <2>1
    <3> QED  BY <3>4, <3>5, <3>6 DEF Calling, Deciding
  <2>3. DOMAIN call' = {1} /\ call'[1] = r  BY <1>1, <1>8, OneCall DEF Lone!Logging
  <2> HIDE DEF r
  <2> QED  BY <1>1, <1>8, <2>2, <2>3 DEF Spaced, SpacedCall
<1>9. CASE Lone!Look(1)
  <2>1. c.at = "checked" /\ UNCHANGED <<latest, paused>>  BY <1>9 DEF Lone!Look
  <2>2. ~Lone!Fault("read")  BY DEF Lone!Fault
  <2>3. c \in Deciding
    BY <1>1, <1>2, <2>1 DEF Calling, Deciding
  <2> DEFINE r == [c EXCEPT !.at = "deciding"]
  <2>4. \/ \E tells \in {"nothing", "own"} : Lone!Logging(1, tells) /\ commanded' \in {0, commanded}
        \/ Lone!To(1, r) /\ commanded' = commanded
    BY <1>9, <2>2 DEF Lone!Look, Lone!Commands
  <2>5. r \in Calling /\ r.at = "deciding" /\ r.sweep = c.sweep  BY <2>3 DEF Calling, Deciding
  <2>6. SpacedCall(r)  BY <1>1, <2>1, <2>5 DEF SpacedCall
  <2>7. {"nothing", "own"} \subseteq Lone!Told  BY DEF Lone!Told, Lone!Modes
  <2> QED  BY <1>1, <1>8, <2>1, <2>4, <2>6, <2>7, CallMoves
<1>10. CASE Lone!Decide(1)
  <2>1. c.at = "deciding" /\ UNCHANGED <<latest, paused>>  BY <1>10 DEF Lone!Decide
  <2>2. \/ \E tells \in {"managed", "failed"} : Lone!Logging(1, tells) /\ commanded' \in {0, commanded}
        \/ Lone!To(1, Lone!Idle) /\ commanded' = commanded
    BY <1>10 DEF Lone!Decide, Lone!Set, Lone!Commands
  <2>3. {"managed", "failed"} \subseteq Lone!Told  BY DEF Lone!Told, Lone!Modes
  <2> QED  BY <1>1, <1>3, <1>8, <2>1, <2>2, <2>3, CallMoves
<1>11. CASE Lone!Store(1)
  <2>1. c.at = "logging" /\ commanded' = commanded /\ paused' = paused /\ Lone!To(1, Lone!Idle)
        /\ (latest' = latest \/ Lone!Log(1)) /\ ~Lone!Fault("log")
    BY <1>11 DEF Lone!Store, Lone!Fault
  <2>2. Lone!Log(1)  BY <1>11, <2>1 DEF Lone!Store
  <2>3. c.age \in 0..2 /\ c.tells \in Lone!Told  BY <1>1, <1>2, <2>1 DEF Calling, Deciding
  <2>4. latest' \in [age : 0..2, tells : Lone!Told] /\ latest'.age <= commanded
    <3>1. CASE c.age <= latest.age  BY <1>1, <2>1, <2>2, <2>3, <3>1 DEF Lone!Log
    <3>2. CASE ~(c.age <= latest.age)  BY <1>1, <2>1, <2>2, <2>3, <3>2 DEF Lone!Log
    <3> QED  BY <3>1, <3>2
  <2>5. DOMAIN call' = {1} /\ call'[1] = Lone!Idle  BY <1>1, <2>1, OneCall
  <2> QED  BY <1>1, <1>2, <2>1, <2>4, <2>5 DEF Spaced, SpacedCall, Calling, Deciding
<1>12. CASE Lone!Pause(1) \/ Lone!RevertLook(1) \/ Lone!RevertSet(1)
  <2>1. c.at # "logging" /\ UNCHANGED <<latest, commanded>> /\ paused' \in BOOLEAN
    BY <1>1, <1>12 DEF Lone!Pause, Lone!RevertLook, Lone!RevertSet
  <2> DEFINE Pausing == [at : {"reverting", "unmanaging"}, age : 0..2]
  <2>2. Lone!To(1, Lone!Idle) \/ \E r \in Pausing : Lone!To(1, r)
    <3>1. CASE Lone!Pause(1)  BY <3>1 DEF Lone!Pause
    <3>2. CASE Lone!RevertLook(1)
      <4>1. c \in Pausing  BY <1>1, <1>2, <3>2 DEF Calling, Deciding, Lone!RevertLook
      <4>2. [c EXCEPT !.at = "unmanaging"] \in Pausing  BY <4>1
      <4> QED  BY <3>2, <4>2 DEF Lone!RevertLook
    <3>3. CASE Lone!RevertSet(1)  BY <3>3 DEF Lone!RevertSet
    <3> QED  BY <1>12, <3>1, <3>2, <3>3
  <2>3. \A r \in Pausing : SpacedCall(r)  BY <1>1, <2>1 DEF SpacedCall, Calling, Deciding
  <2> QED  BY <1>3, <2>1, <2>2, <2>3, CallMoves
<1>13. ~Lone!Stop(1)  BY DEF Lone!Stop, Lone!Fault
<1> QED  BY <1>4, <1>5, <1>6, <1>7, <1>9, <1>10, <1>11, <1>12, <1>13 DEF Lone!Next

(* The updates beside a member who pauses are among those of the sweeps.      *)
LEMMA PausesAreSwept == Pauses!Next => Lone!Next
<1> SUFFICES ASSUME Pauses!Next PROVE Lone!Next  OBVIOUS
<1>0. \A k : ~Pauses!Fault(k)  BY DEF Pauses!Fault
<1>i. Pauses!Idle = Lone!Idle /\ \A a : Pauses!Older(a) = Lone!Older(a)
  BY DEF Pauses!Idle, Lone!Idle, Pauses!Older, Lone!Older
<1>1. Pauses!Tick => Lone!Tick  BY <1>i DEF Pauses!Tick, Lone!Tick
<1>2. Pauses!HouseChanges => Lone!HouseChanges  BY DEF Pauses!HouseChanges, Lone!HouseChanges
<1>3. Pauses!Resume => Lone!Resume  BY DEF Pauses!Resume, Lone!Resume
<1>4. \A r : Pauses!To(1, r) <=> Lone!To(1, r)  BY DEF Pauses!To, Lone!To
<1>5. \A s \in BOOLEAN : Pauses!Begin(1, s) => Lone!Begin(1, s)  BY <1>4 DEF Pauses!Begin, Lone!Begin
<1>6. Pauses!Check(1) => Lone!Check(1)
  BY <1>0, <1>4, <1>i DEF Pauses!Check, Lone!Check, Pauses!Skips, Lone!Skips
<1>7. \A t : Pauses!Logging(1, t) <=> Lone!Logging(1, t)  BY <1>4 DEF Pauses!Logging, Lone!Logging
<1>8. \A m : Pauses!Commands(m) <=> Lone!Commands(m)  BY DEF Pauses!Commands, Lone!Commands
<1>9. Pauses!Look(1) => Lone!Look(1)  BY <1>0, <1>4, <1>7, <1>8 DEF Pauses!Look, Lone!Look
<1>10. Pauses!Decide(1) => Lone!Decide(1)
  BY <1>0, <1>7, <1>8 DEF Pauses!Decide, Lone!Decide, Pauses!Set, Lone!Set
<1>11. Pauses!Store(1) => Lone!Store(1)
  BY <1>0, <1>4, <1>i DEF Pauses!Store, Lone!Store, Pauses!Log, Lone!Log
<1>12. Pauses!Pause(1) => Lone!Pause(1)
  BY <1>4, <1>i DEF Pauses!Pause, Lone!Pause, Pauses!Reverts, Lone!Reverts
<1>13. Pauses!RevertLook(1) => Lone!RevertLook(1)  BY <1>0, <1>4, <1>i DEF Pauses!RevertLook, Lone!RevertLook
<1>14. Pauses!RevertSet(1) => Lone!RevertSet(1)  BY <1>0, <1>4, <1>i DEF Pauses!RevertSet, Lone!RevertSet
<1>15. ~Pauses!Stop(1)  BY <1>0 DEF Pauses!Stop
<1> QED
  BY <1>1, <1>2, <1>3, <1>5, <1>6, <1>9, <1>10, <1>11, <1>12, <1>13, <1>14, <1>15 DEF Pauses!Next, Lone!Next

-----------------------------------------------------------------------------
StepsSound == (part = "onTime" => TriedOnce) /\ (part # "overlaps" => Spaced)

LEMMA StepsStart == PartsInit => StepsSound
<1> SUFFICES ASSUME PartsInit PROVE StepsSound  OBVIOUS
<1>1. ASSUME part = "onTime" PROVE TriedOnce
  <2>1. /\ job = [j \in Sweeping!Jobs |-> [Sweeping!Resting EXCEPT !.due = 1]]
        /\ moved = {} /\ tried = [s \in SweptSites |-> 0]
    BY DEF PartsInit, Sweeping!Init
  <2>2. \A j \in Sweeping!Jobs : job[j].due = 1 /\ ~job[j].on  BY <2>1 DEF Sweeping!Resting
  <2>3. \A s \in SweptSites : OwnJob(s) \in Sweeping!Jobs  BY OwnJobs, JobsStart DEF JobsSound
  <2> QED  BY <2>1, <2>2, <2>3 DEF TriedOnce
<1>2. ASSUME part # "overlaps" PROVE Spaced
  <2>1. /\ paused \in BOOLEAN /\ latest = [age |-> 2, tells |-> "nothing"]
        /\ call = [c \in {1} |-> Lone!Idle] /\ commanded = 2
    <3>1. Pauses!Init \/ Lone!Init  BY <1>2 DEF PartsInit
    <3>2. CASE Pauses!Init  BY <3>2 DEF Pauses!Init, Pauses!Idle, Lone!Idle
    <3>3. CASE Lone!Init  BY <3>3 DEF Lone!Init
    <3> QED  BY <3>1, <3>2, <3>3
  <2>2. Lone!Idle.at = "idle" /\ Lone!Idle \in Calling  BY DEF Lone!Idle, Calling, Deciding
  <2>3. latest \in [age : 0..2, tells : Lone!Told]  BY <2>1 DEF Lone!Told
  <2>4. DOMAIN call = {1} /\ call[1] = Lone!Idle  BY <2>1
  <2> QED  BY <2>1, <2>2, <2>3, <2>4 DEF Spaced, SpacedCall
<1> QED  BY <1>1, <1>2 DEF StepsSound

LEMMA StepsOfParts ==
    ASSUME [PartsNext]_vars
    PROVE  /\ part' = part
           /\ part = "onTime" => (ForJobs(Sweeping!Next) /\ Undisturbed) \/ (UNCHANGED jobs)
           /\ part = "sweeps" => Lone!Next \/ UNCHANGED updates
           /\ part = "pauses" => Pauses!Next \/ UNCHANGED updates
           /\ part \notin OfUpdates => UNCHANGED updates
           /\ part \in OfAlerts => (Alerting!Next \/ UNCHANGED alerts)
<1> QED  BY Zenon DEF PartsNext, ForHistory, ForUpdates, ForJobs, ForAlerts, ForDocument, vars, OfUpdates, OfAlerts

LEMMA StepsStay == JobsSound /\ StepsSound /\ [PartsNext]_vars => StepsSound'
<1> SUFFICES ASSUME JobsSound, StepsSound, [PartsNext]_vars PROVE StepsSound'  OBVIOUS
<1>1. ASSUME part = "onTime" PROVE TriedOnce'
  <2>1. TriedOnce /\ JobsTyped /\ RunsAreOwn /\ part' = part  BY <1>1, StepsOfParts DEF StepsSound, JobsSound
  <2>2. CASE UNCHANGED jobs
    <3>1. moved' = moved /\ job' = job /\ group' = group /\ tried' = tried /\ shuffle' = shuffle  BY <2>2 DEF jobs
    <3>2. \A s : OwnJob(s)' = OwnJob(s)  BY <3>1 DEF OwnJob
    <3> QED  BY <2>1, <3>1, <3>2 DEF TriedOnce
  <2>3. CASE ForJobs(Sweeping!Next) /\ Undisturbed
    <3>1. Sweeping!Next /\ Undisturbed /\ \A j \in Sweeping!Jobs : job'[j].due <= 1
      BY <1>1, <2>1, <2>3 DEF ForJobs, JobsNarrowed
    <3> QED  BY <2>1, <3>1, RoundsTry
  <2> QED  BY <1>1, <2>2, <2>3, StepsOfParts
<1>2. ASSUME part # "overlaps" PROVE Spaced'
  <2>1. Spaced  BY <1>2 DEF StepsSound
  <2>2. CASE UNCHANGED updates  BY <2>1, <2>2 DEF updates, Spaced, SpacedCall
  <2>3. CASE Lone!Next  BY <2>1, <2>3, CallsSpaced
  <2>4. Lone!Next \/ UNCHANGED updates  BY <1>2, StepsOfParts, PausesAreSwept DEF OfUpdates
  <2> QED  BY <2>2, <2>3, <2>4
<1> QED  BY <1>1, <1>2, StepsOfParts DEF StepsSound

(* A sweep commands no battery that was commanded less than five minutes ago, *)
(* the controller of a site updated on time is given all that is stored, a    *)
(* round of jobs on time updates every site once, and no alert of an outage   *)
(* goes out that the battery no longer reported when it was verified          *)
(* (server/update.go, server/notifications.go): for any sites, groups, jobs,  *)
(* users and days.                                                            *)
THEOREM SiteStepsHold == PartsSpec => SiteSteps
<1>1. PartsInit => JobsSound /\ AlertsSound /\ StepsSound  BY JobsStart, AlertsStart, StepsStart
<1>2. JobsSound /\ AlertsSound /\ StepsSound /\ [PartsNext]_vars => (JobsSound /\ AlertsSound /\ StepsSound)'
  BY JobsStep, AlertsStep, StepsStay
<1>3. StepsSound /\ [PartsNext]_vars => [part # "overlaps" => Lone!SpacesSweeps]_vars
  <2> SUFFICES ASSUME part # "overlaps", StepsSound PROVE Lone!SpacesSweeps  OBVIOUS
  <2>1. /\ commanded \in 0..2 /\ (latest.age <= commanded \/ call[1].at = "logging")
        /\ (call[1].at \in {"checked", "deciding"} => call[1].sweep = FALSE \/ latest.age = 2)
    BY DEF StepsSound, Spaced, SpacedCall
  <2>2. call[1].at \in {"checked", "deciding"} /\ call[1].sweep => commanded = 2  BY <2>1
  <2> QED  BY <2>2 DEF Lone!SpacesSweeps
<1>4. JobsSound /\ StepsSound /\ [PartsNext]_vars => [part = "onTime" => Sweeping!OncePerRound]_vars
  <2> SUFFICES ASSUME part = "onTime", JobsSound, StepsSound, PartsNext
               PROVE  Sweeping!OncePerRound
    OBVIOUS
  <2>1. ForJobs(Sweeping!Next) /\ Undisturbed  BY Zenon DEF PartsNext
  <2>2. Sweeping!Next /\ \A j \in Sweeping!Jobs : job'[j].due <= 1  BY <2>1 DEF ForJobs, JobsNarrowed
  <2> QED  BY <2>1, <2>2, RoundsTry DEF JobsSound, StepsSound
<1>5. AlertsSound /\ [PartsNext]_vars => [(part \in OfAlerts) => Alerting!NotABlip]_vars
  <2> SUFFICES ASSUME part \in OfAlerts, AlertsSound, PartsNext PROVE Alerting!NotABlip  OBVIOUS
  <2>1. CASE Alerting!Next  BY <2>1, OnlyVerifiedIsTold DEF AlertsSound, Alerting!NotABlip
  <2>2. CASE UNCHANGED alerts  BY <2>2 DEF alerts, Alerting!NotABlip
  <2> QED  BY <2>1, <2>2, StepsOfParts
<1>6. PartsSpec => SweepsAreSpaced /\ EverySiteOncePerRound /\ NoBlipIsTold
  BY <1>1, <1>2, <1>3, <1>4, <1>5, PTL DEF PartsSpec, SweepsAreSpaced, EverySiteOncePerRound, NoBlipIsTold
<1> QED  BY <1>6, ControllerSeesAllHolds DEF SiteSteps
==============================================================================
