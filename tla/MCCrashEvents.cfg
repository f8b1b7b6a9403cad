SPECIFICATION Spec
CONSTANTS
    RunCount = 5
    MaxJournal = 8
    MaxLive = 3
    Reusable = {}
    MaxBoot = 1
CHECK_DEADLOCK FALSE
INVARIANTS OneEventPerDeadRun
