SPECIFICATION Spec
CONSTANTS
    Files = {f1, f2}
    c1 = c1
    c2 = c2
    c3 = c3
    g1 = g1
    g2 = g2
    raw = raw
    red1 = red1
    red2 = red2
    Contents = {c1, c2}
    Gone = Gone
    Follows <- AppendOnly
    Compare <- SameBytes
    NoHash = NoHash
    Gens = {g1}
    NoGen = NoGen
    Scrub <- TwoRules
    Outputs = {raw, red1, red2}
    NoObject = NoObject
    AlwaysLoad = {f2}
    Staging = FALSE
    CommitBatch = 2
    LatePuts = FALSE
    MaxStat = 1
    MaxFaults = 2
INVARIANTS RecordedWasStored UnopenedIsArchived SettledIsCurrent
