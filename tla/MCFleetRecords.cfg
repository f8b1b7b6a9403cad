SPECIFICATION Spec
CONSTANTS
    Requests = {q1, q2}
    Collections = {"c1"}
    Settings = {s1, s2}
    MaxStamp = 2
    MaxVersion = 3
    MaxSecret = 2
    MaxRecords = 2
    Members = {"m1"}
    Touchers = {t1, t2}
    Digests = {"d1", "d2"}
    Facts = {"f1"}
    Window = 1
    MaxTime = 2
    TagInstalls = {"i1", "i2", "i3"}
    HostKey <- MCHostKey
    TagEditors = {"e1", "e2"}
    TagNames = {"n1"}
    TagKeys = {"k1", "k2"}
    TagValues = {"v1"}
    MaxTagKeys = 1
    MaxTries = 2
    MaxTagWrites = 2
    Replicas = {"r1", "r2"}
    Senders = {"u1", "u2", "u3"}
    Rate = 1
    Burst = 2
    TableSize = 2
    MaxMinute = 4
SYMMETRY Slots
CHECK_DEADLOCK FALSE
INVARIANTS AdminIsHonest ActivityIsCurrent TagsAreKept RelayIsFair
PROPERTIES UnstatedIsKept
