SPECIFICATION Spec
CONSTANTS
    Maps = {"world", "cave"}
    Tiles <- Pair
    Centers <- Places
    Radius = 0
    MapTiles <- PairMaps
    Uids = {"city", "tree"}
    Wmos = {"city"}
    Placements <- PairPlacements
    BadTiles <- CaveBad
    BadWmos = {}
    MaxGen = 2
INVARIANTS
    GroundReady
CHECK_DEADLOCK FALSE
