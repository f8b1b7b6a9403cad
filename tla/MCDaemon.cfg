SPECIFICATION FairSpec
CONSTANTS
    RunCount = 3
    MaxJournal = 5
    MaxLive = 2
    Reusable = {1}
    MaxBoot = 2
    MaxRecent = 2
    MaxStreak = 1
    FaultSets <- MCFaultSets
CHECK_DEADLOCK FALSE
INVARIANTS CrashesAreTold ReportsAreTrue
PROPERTIES LoopEnds
