\* Two server threads, two sessions per life of the process.
SPECIFICATION Spec
CONSTANTS
    Accounts = {"root", "ada", "dan"}
    RoleOf <- MCRoleOf
    DemoAccounts = {"root"}
    MaxSessions = 2
    Threads = {"t1", "t2"}
    Nobody = "nobody"
    Managed = {"root", "ada"}
INVARIANTS
    TypeOK
    TransactionIsOwn
    SomeAdminActive
    AuditTellsState
PROPERTIES
    SessionsKeepOwner
