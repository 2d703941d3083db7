\* A new refresh token is not stored when the calls that verify it fail.
\* The commits run out: a behaviour stops.
CHECK_DEADLOCK FALSE
CONSTANTS
    Parts = {"refused"}
    r1 = r1
    r2 = r2
    u1 = u1
    p0 = p0
    p1 = p1
    Reqs = {r1, r2}
    Kinds = {"sweep", "manual", "save", "stage", "read", "prefs", "delete"}
    Configs <- AllConfigs
    Users = {u1}
    Prefs = {p0, p1}
    Starts = {"missing", "legacy", "linked"}
    Faults = {"validate", "response", "modes", "store", "crash"}
    MaxRetries = 2
    MaxCommits = 5
    MaxTokens = 2
    MaxTime = 5
    NoPref = p0
SPECIFICATION PartsSpec
SYMMETRY Symmetry
INVARIANTS
    RotationIsStored
