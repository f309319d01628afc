SPECIFICATION Spec
CONSTANTS
    Sources <- MCSources
    Grid <- MCGrid
    NCombos = 2
    Joined <- MCSources
    Declared <- MCGrid
    MaxAttempts = 2
    Versions <- MCVersions
    MaxDrops = 1
    Incidents = 1
INVARIANTS BronzeUnmixed ManifestTrue OlderDataLoses CancelledStops TimelineAgrees
CHECK_DEADLOCK FALSE
