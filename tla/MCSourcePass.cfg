SPECIFICATION FairSpec
CONSTANTS
    N = 4
    Size <- MCSize
    Decoded <- MCDecoded
    Sealed <- MCSealed
    Broken = {2}
    Budget = 3
    ComputeLimit = 2
    UploadLimit = 4
    Gate = 3
    MaxBatchObjects = 2
    MaxBatchBytes = 2
    MaxFaults = 2
INVARIANTS AccountsAreExact LimitsHold
PROPERTIES StopHoldsBack PassEnds BacklogConverges
