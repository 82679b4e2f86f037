\* Fleets of up to four drivers anywhere on two campuses, one of them cut in two.
SPECIFICATION DispatchSpec
CONSTANTS
    Places <- MCPlaces
    Straight <- MCStraight
    RoadCalls <- MCCalls
    MetresPerMinute = 300
    Drivers <- MCDrivers
    Pickups = {"gate"}
    NoRoute = NoRoute
    FleetSizes = {0, 4}
    Limits = {0, 1, 2, 3}
INVARIANTS
    HeapHoldsNearest
    ReturnsNearest
    WithinBackendView
PROPERTIES
    Matching
    MatchingReturns
CHECK_DEADLOCK FALSE
