------------------------------ MODULE CronSweep ------------------------------
(* The scheduled updates of all sites (server/update.go handleUpdateSites,    *)
(* getCronGroups): every twenty minutes three jobs ask for their part of the  *)
(* update groups. The groups of time-of-use sites are split over two jobs,    *)
(* shuffled every hour so that no site is always late; the sites of hourly    *)
(* prices have a job of their own. A job updates its sites a few at a time.   *)
EXTENDS Integers, FiniteSets

CONSTANTS
    Sites,
    TouGroups, ComEdGroups,     \* 1..12 and 13..16
    Total,          \* jobs that share the time-of-use groups
    Rounds,         \* rounds of jobs in an hour: three
    Workers,        \* sites a job updates at once: five
    Moves,          \* may a site's utility change
    Faults          \* "late": a job starts a round late; "cut": its request ends early

Unset == 0

(* What the constants are, assumed by what instantiates this module.          *)
Assumptions ==
    /\ Total \in Nat \ {0} /\ Cardinality(TouGroups) % Total = 0
    /\ TouGroups \cap ComEdGroups = {} /\ Unset \notin TouGroups \union ComEdGroups
    /\ Faults \subseteq {"late", "cut"} /\ {Rounds, Workers} \subseteq Nat \ {0}

VARIABLES
    round,      \* of the hour
    part,       \* the hour's shuffle: the job of every time-of-use group
    group,      \* per site: UpdateGroup, Unset while it is not set up
    job,        \* per job: runs due, and the run under way
    moved,      \* sites that changed group in this round
    tried,      \* per site: updates begun in this round, counted to three
    waited      \* per site: rounds ended since it was last updated or set up, counted to five

vars == <<round, part, group, moved, job, tried, waited>>

Jobs == 0..Total                        \* the last is that of the hourly prices
Groups == TouGroups \union ComEdGroups
Shuffles ==
    {f \in [TouGroups -> 0..(Total - 1)] :
        \A i \in 0..(Total - 1) :
            Cardinality({g \in TouGroups : f[g] = i}) = Cardinality(TouGroups) \div Total}
Resting == [due |-> 0, on |-> FALSE, left |-> {}, doing |-> {}]

TypeOK ==
    /\ round \in 0..(Rounds - 1) /\ part \in Shuffles /\ group \in [Sites -> Groups \union {Unset}]
    /\ \A j \in Jobs :
        /\ job[j].due \in 0..2 /\ job[j].on \in BOOLEAN
        /\ job[j].left \union job[j].doing \subseteq Sites /\ job[j].left \cap job[j].doing = {}
        /\ Cardinality(job[j].doing) <= Workers
        /\ job[j].on \/ job[j].left \union job[j].doing = {}
    /\ moved \subseteq Sites /\ tried \in [Sites -> 0..3] /\ waited \in [Sites -> 0..5]

Init ==
    /\ round = 0 /\ part \in Shuffles /\ group \in [Sites -> Groups \union {Unset}]
    /\ job = [j \in Jobs |-> [Resting EXCEPT !.due = 1]]
    /\ moved = {} /\ tried = [s \in Sites |-> 0] /\ waited = [s \in Sites |-> 0]

-----------------------------------------------------------------------------
(* Twenty minutes pass; a run takes a minute or two. The shuffle is seeded by *)
(* the hour.                                                                  *)
NextRound ==
    /\ \A j \in Jobs : ~job[j].on /\ (job[j].due > 0 => "late" \in Faults /\ job[j].due = 1)
    /\ round' = (round + 1) % Rounds
    /\ IF round' = 0 THEN part' \in Shuffles ELSE UNCHANGED part
    /\ job' = [j \in Jobs |-> [job[j] EXCEPT !.due = @ + 1]]
    /\ moved' = {} /\ tried' = [s \in Sites |-> 0]
    /\ waited' = [s \in Sites |-> IF group[s] = Unset THEN 0 ELSE IF waited[s] < 5 THEN waited[s] + 1 ELSE 5]
    /\ UNCHANGED group

(* getCronGroups, ListSitesSettings: the sites of the job's groups, at once.  *)
SlipListed(j) == {s \in Sites : IF j = Total THEN group[s] \in ComEdGroups
                                ELSE group[s] \in TouGroups /\ part[group[s]] <= j}
Listed(j) == {s \in Sites : IF j = Total THEN group[s] \in ComEdGroups
                            ELSE group[s] \in TouGroups /\ part[group[s]] = j}
Start(j) ==
    /\ job[j].due > 0 /\ ~job[j].on
    /\ job' = [job EXCEPT ![j] = [due |-> @.due - 1, on |-> TRUE, left |-> Listed(j), doing |-> {}]]
    /\ UNCHANGED <<round, part, group, moved, tried, waited>>

(* errgroup.SetLimit(5).                                                      *)
MayTake(j) == Cardinality(job[j].doing) < Workers
Take(j, s) ==
    /\ s \in job[j].left /\ MayTake(j)
    /\ job' = [job EXCEPT ![j].left = @ \ {s}, ![j].doing = @ \union {s}]
    /\ tried' = [tried EXCEPT ![s] = IF @ < 3 THEN @ + 1 ELSE 3] /\ waited' = [waited EXCEPT ![s] = 0]
    /\ UNCHANGED <<round, part, group, moved>>

(* A site's update ends, well or not: its failure, and its panic, is no       *)
(* failure of the group, and the others go on.                                *)
SlipEnd(j, s) ==
    /\ s \in job[j].doing
    /\ job' = [job EXCEPT ![j].doing = {}, ![j].left = {}]
    /\ UNCHANGED <<round, part, group, moved, tried, waited>>
End(j, s) ==
    /\ s \in job[j].doing
    /\ job' = [job EXCEPT ![j].doing = @ \ {s}]
    /\ UNCHANGED <<round, part, group, moved, tried, waited>>

(* The scheduler's request ends: what has not begun is given up, what is      *)
(* under way is cancelled.                                                    *)
Cut(j) ==
    /\ "cut" \in Faults /\ job[j].left # {}
    /\ job' = [job EXCEPT ![j].left = {}]
    /\ UNCHANGED <<round, part, group, moved, tried, waited>>

Finish(j) ==
    /\ job[j].on /\ job[j].left = {} /\ job[j].doing = {}
    /\ job' = [job EXCEPT ![j].on = FALSE]
    /\ UNCHANGED <<round, part, group, moved, tried, waited>>

(* A save sets a site up, or gives it another utility, and with it a group of *)
(* the other kind (server/settings.go).                                       *)
Move(s) ==
    /\ Moves
    /\ \E g \in Groups :
        /\ (g \in TouGroups) # (group[s] \in TouGroups) \/ group[s] = Unset
        /\ group' = [group EXCEPT ![s] = g]
    /\ moved' = moved \union {s}
    /\ UNCHANGED <<round, part, job, tried, waited>>

Next ==
    \/ NextRound
    \/ \E j \in Jobs :
        \/ Start(j) \/ Cut(j) \/ Finish(j)
        \/ \E s \in Sites : Take(j, s) \/ End(j, s)
    \/ \E s \in Sites : Move(s)

(* The scheduler runs every job, every update ends by its timeout.            *)
GoesOn(j) == Start(j) \/ Finish(j) \/ \E s \in Sites : Take(j, s) \/ End(j, s)

Spec == Init /\ [][Next]_vars /\ WF_vars(NextRound) /\ \A j \in Jobs : WF_vars(GoesOn(j))

-----------------------------------------------------------------------------
(* The jobs of a round between them update every site, and none twice: their  *)
(* parts are those of one shuffle, and no site's failure stops another's.     *)
OncePerRound == NextRound => \A s \in Sites : group[s] # Unset => tried[s] = 1
EverySiteOncePerRound == [][OncePerRound]_vars

(* A site is updated by two jobs at once only when it was moved after the one *)
(* had listed it: otherwise its group is in one part.                         *)
NoSiteInTwoRuns ==
    \A i, j \in Jobs : i # j => job[i].doing \cap job[j].doing \subseteq moved

(* Jobs that run late, into an hour shuffled anew, pass a site over in some   *)
(* rounds, and never for more than an hour.                                   *)
NoSiteWaitsAnHour == \A s \in Sites : group[s] # Unset => waited[s] <= Rounds

(* Every site that is set up is updated again and again.                      *)
EverySiteIsUpdated == \A s \in Sites : []<>(waited[s] = 0 \/ group[s] = Unset)
=============================================================================
