\* A session check that meets saveRide's COMMIT.
SPECIFICATION Spec
CONSTANTS
    Rides = {"ride1"}
    Emails = {"ann"}
    MaxVersion = 1
INVARIANT
    TransitionsPersisted
