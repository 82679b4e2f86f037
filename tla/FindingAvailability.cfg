\* A restart forgets that a driver is OFFLINE.
SPECIFICATION PromisesSpec
CONSTANTS
    Riders = {"ann"}
    DriverAccounts = {"demo"}
    DemoDriver = "demo"
    NoAccount = "none"
    Locations = {"gate", "library"}
    MainGate = "gate"
    UnknownLocation = "KB"
    Vehicles = {"sedan"}
    DefaultVehicle = "sedan"
    Trips <- MCTrips
    ProfileForms <- MCFormMove
    Eta <- MCEta
    SeedCount = 1
    SeedLocation <- MCOneLocation
    SeedVehicle <- MCOneVehicle
    SeedStatus <- MCOneStatus
    MaxMatches = 1
    CancellationFee = 30
    MaxRides = 2
    MaxDrivers = 1
    MaxStops = 0
    Faults = {"crash"}
PROPERTY
    AvailabilityPersisted
