SPECIFICATION FairSpec
CONSTANTS
    CatalogOrder <- MCOrder
    OffByDefault = {}
    KnownPacks = {"core", "extra"}
    CompiledPacks = {"core"}
    SecretRoots = {"work"}
    UserEdits <- MCUserEdits
    RemoteEdits <- MCRemoteEdits
    Places = {"home", "work"}
    MaxUserEdits = 1
    MaxServedEdits = 2
    MaxMoves = 1
CHECK_DEADLOCK FALSE
INVARIANTS InForceIsLawful WorkingLayerKept
PROPERTIES AbsentRootIsFound
