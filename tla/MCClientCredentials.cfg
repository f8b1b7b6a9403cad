SPECIFICATION FairSpec
CONSTANTS
    s1 = s1
    s2 = s2
    g1 = g1
    g2 = g2
    inv = inv
    r1 = r1
    Sites = {s1, s2}
    Tokens = {g1, g2, inv}
    SiteOf <- MCSiteOf
    Invites = {inv}
    Policy = {g1, g2}
    Closable = {g1}
    Runtimes = {r1}
    MaxInstalls = 3
    MaxKeys = 3
    MaxFaults = 1
CHECK_DEADLOCK FALSE
INVARIANTS FilesAgree
PROPERTIES StopHolds ManagedCompletes
