\* A ride between any two places with up to two stops, on every choice of the roads.
SPECIFICATION RideSpec
CONSTANTS
    Places <- MCPlaces
    Straight <- MCStraight
    RoadCalls <- MCCalls
    MetresPerMinute = 300
    MaxStops = 2
INVARIANTS
    RideTypeOK
    FastestRoute
    PathMatchesTotals
    Certified
    StopNeverSaves
    PathMeetsNoPlaceTwice
PROPERTIES
    RouteComputed
    PlacesSettleOnce
CHECK_DEADLOCK FALSE
