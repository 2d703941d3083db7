\* Every part of which the code keeps its word.
CONSTANTS
    first = first  second = second  click = click
    Requests = {r1, r2}
    Users = {u1, u2, u3}  Guest = u3
    Sites = {s1, s2}  Home = s1
    MaxSites = 1
    MaxJoins = 4
    MaxFailed = 2
    Apps = {a1, a2, a3, a4}
    MaxApps = 2
    MaxCleanup = 1
    MaxMade = 5
    MaxLost = 2
    Parts = {"document", "members", "joins", "redeemed", "limited", "single", "overwritten"}
    Clients = {first, second, click}
    Values <- MCValues
    Absent = absent
    NoChange = nochange
    Refusal = refusal
    Mutate <- MCMutate
    MaxRetries = 2
    MaxReads = 1
    MaxCommits = 3
    MaxFaults = 1
    Outage = FALSE
SPECIFICATION PartsSpec
SYMMETRY MCSymmetry
CHECK_DEADLOCK FALSE
INVARIANTS
    SnapInv
    OnlyOvertakenGiveUp
    MembersInv
    
PROPERTIES
    ImplementsAtomic
    MembersSteps
