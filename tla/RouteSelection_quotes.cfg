SPECIFICATION FairSpec
CONSTANTS
    Ethereum = Ethereum
    Solana = Solana
    Down = Down
    Nothing = Nothing
    Loads = {60}
    Bodies <- PostedBodies
    Collectors = {1, 2}
    MaxChanges = 1
    MaxFaults = 1
INVARIANTS
    TypeOK
    RecommendedIsBest
    NotDominated
    UnknownIsLastResort
PROPERTIES
    SnapshotsCatchUp
CHECK_DEADLOCK FALSE
