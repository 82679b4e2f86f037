\* Crashes anywhere, also within a reset; stops; what ride_history goes through.
SPECIFICATION Spec
CONSTANTS
    Riders = {"ann"}
    DriverAccounts = {"demo"}
    DemoDriver = "demo"
    NoAccount = "none"
    Locations = {"gate", "library"}
    MainGate = "gate"
    UnknownLocation = "KB"
    Vehicles = {"sedan"}
    DefaultVehicle = "sedan"
    Trips <- MCTwoTrips
    ProfileForms <- MCFormMove
    Eta <- MCEta
    SeedCount = 1
    SeedLocation <- MCOneLocation
    SeedVehicle <- MCOneVehicle
    SeedStatus <- MCOneStatus
    MaxMatches = 1
    CancellationFee = 30
    MaxRides = 2
    MaxDrivers = 1
    MaxStops = 1
    Faults = {"crash", "crash_in_reset"}
INVARIANTS
    StoreExclusive
PROPERTIES
    DurableIdentity
    DurableLifecycle
