SPECIFICATION FairSpec
CONSTANTS
    a = a
    b = b
    heartbeat = heartbeat
    huge = huge
    Objects = {a, b, heartbeat, huge}
    Mirror = {a, b, huge}
    Groups <- MCGroups
    Unservable = {huge}
    d1 = d1
    d2 = d2
    Contents <- MCContents
    Digests = {d1, d2}
    NoDigest = NoDigest
    Skews <- MCSkews
    MaxAge = 1
    MaxAhead = 1
    Lifetime = 1
    CallTimeout = 0
    PutTimeout = 1
    PutSlots = 1
    MaxClock = 3
    MaxFaults = 1
INVARIANTS StoredUnderOwnKey VerdictsAreTrue KeepsContract
PROPERTIES RevokedGoesQuiet GroupSettles
