SPECIFICATION Spec
CONSTANTS
    CatalogOrder <- MCOrder
    OffByDefault = {}
    KnownPacks = {"core", "extra"}
    CompiledPacks = {"core"}
    SecretRoots = {"work"}
    UserEdits <- MCDisabling
    RemoteEdits <- MCSkipped
    Places = {"home", "work"}
    MaxUserEdits = 1
    MaxServedEdits = 2
    MaxMoves = 1
CHECK_DEADLOCK FALSE
INVARIANTS CachedLayerKept
