SPECIFICATION FairSpec
CONSTANTS
    N = 3
    Size <- MCSize
    Decoded <- MCDecoded
    Sealed <- MCSealed
    Broken = {1}
    Budget = 1
    ComputeLimit = 1
    UploadLimit = 4
    Gate = 3
    MaxBatchObjects = 2
    MaxBatchBytes = 2
    MaxFaults = 0
PROPERTIES BacklogConverges
