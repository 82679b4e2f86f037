\* Crashes anywhere outside a reset; two rides, two driver accounts.
SPECIFICATION Spec
CONSTANTS
    Riders = {"ann"}
    DriverAccounts = {"demo", "web"}
    DemoDriver = "demo"
    NoAccount = "none"
    Locations = {"gate", "library"}
    MainGate = "gate"
    UnknownLocation = "KB"
    Vehicles = {"sedan"}
    DefaultVehicle = "sedan"
    Trips <- MCTrips
    ProfileForms <- MCForms
    Eta <- MCEta
    SeedCount = 2
    SeedLocation <- MCSeedLocation
    SeedVehicle <- MCSeedVehicle
    SeedStatus <- MCSeedStatus
    MaxMatches = 1
    CancellationFee = 30
    MaxRides = 2
    MaxDrivers = 4
    MaxStops = 0
    Faults = {"crash"}
INVARIANTS
    TypeOK
    ActiveExclusive
    BusyIffServing
    DriverFromAssignmentOn
    StoreInStep
    OneAccountPerDriver
    RatingsBelong
