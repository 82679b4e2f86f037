\* Three server threads, an administrator and a driver: do requests get answered?
SPECIFICATION Spec
CONSTANTS
    Accounts = {"root", "dan"}
    RoleOf <- MCRoleOf
    DemoAccounts = {"root"}
    MaxSessions = 2
    Threads = {"t1", "t2", "t3"}
    Nobody = "nobody"
    Managed = {"dan"}
INVARIANT
    SomebodyGoesOn
PROPERTY
    ServerKeepsAnswering
