\* Two rides of two versions each, two accounts, both connections.
SPECIFICATION Spec
CONSTANTS
    Rides = {"ride1", "ride2"}
    Emails = {"ann", "bob"}
    MaxVersion = 2
INVARIANTS
    OpenOnlyAfterFailedCommit
    RepliesHold
PROPERTIES
    SavesAreAtomic
    DeactivatedStays
