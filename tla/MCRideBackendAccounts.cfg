\* Two registered driver accounts and one id for them, handed out again after a
\* restart, after a reset, and after a reset whose clearAll throws over the rows of
\* two rides; saves may fail without notice.
SPECIFICATION Spec
CONSTANTS
    Riders = {"ann"}
    DriverAccounts = {"demo", "web", "new"}
    DemoDriver = "demo"
    NoAccount = "none"
    Locations = {"gate", "library"}
    MainGate = "gate"
    UnknownLocation = "KB"
    Vehicles = {"sedan"}
    DefaultVehicle = "sedan"
    Trips <- MCTrips
    ProfileForms <- MCNoForm
    Eta <- MCEta
    SeedCount = 1
    SeedLocation <- MCOneLocation
    SeedVehicle <- MCOneVehicle
    SeedStatus <- MCOneStatus
    MaxMatches = 1
    CancellationFee = 30
    MaxRides = 2
    MaxDrivers = 2
    MaxStops = 0
    Faults = {"crash", "save_fails", "clear_fails"}
INVARIANTS
    OneAccountPerDriver
VIEW MCAccountsView
CONSTRAINT MCLossWithOneRide
