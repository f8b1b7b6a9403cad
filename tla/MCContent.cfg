SPECIFICATION Spec
CONSTANTS
    ValueLength = 4
    Floors = {2, 3}
    Payloads <- MCPayloads
    Exempt <- MCExempt
    DropSpec <- MCDrops
    MaxDepth = 4
    Dirs <- MCDirs
    Parent <- MCParent
    Home = "home"
    Places <- MCPlaces
    Markable <- MCMarkable
    Layouts <- MCLayouts
    Listings <- MCListings
    Kind <- MCKind
    Project <- MCProject
    Folders <- MCFolders
    MaxChanges = 2
CHECK_DEADLOCK FALSE
INVARIANTS PlanIsSound RedactionIsSound
PROPERTIES UntrackedStaysOut
