------------------------------ MODULE Sessions ------------------------------
(***************************************************************************)
(* AuthStore: the users table, which outlives the process, and the map of  *)
(* session tokens, which does not.  Every public method takes the store's  *)
(* own mutex and calls nothing that takes another, so each is one action.  *)
(* "session-n" is written n.  Names, salts and passwords are left out:     *)
(* Authenticate is a login with the right password, and a wrong one        *)
(* changes nothing.  That a statement may fail is SqliteFile's subject.    *)
(***************************************************************************)
EXTENDS Naturals, FiniteSets

CONSTANTS
    Accounts,       \* email addresses
    RoleOf,         \* email -> the role it is registered with
    DemoAccounts,   \* seedDemoUsers
    MaxSessions     \* bound on the sessions of one life of the process

Roles == {"rider", "driver", "admin"}

ASSUME SessionsAssumption ==
    /\ RoleOf \in [Accounts -> Roles]
    /\ DemoAccounts \subseteq Accounts
    /\ \E a \in DemoAccounts : RoleOf[a] = "admin"
    /\ MaxSessions \in Nat

VARIABLES
    users,          \* registered email -> "active" or "inactive"
    sessionToEmail, \* token -> email
    nextSessionId

session == <<sessionToEmail, nextSessionId>>

SessionsTypeOK ==
    /\ DOMAIN users \subseteq Accounts
    /\ \A e \in DOMAIN users : users[e] \in {"active", "inactive"}
    /\ DOMAIN sessionToEmail \subseteq 1 .. MaxSessions
    /\ \A t \in DOMAIN sessionToEmail : sessionToEmail[t] \in DOMAIN users
    /\ nextSessionId \in 0 .. MaxSessions

SessionsInit ==
    /\ users = [e \in DemoAccounts |-> "active"]
    /\ sessionToEmail = [t \in {} |-> t]
    /\ nextSessionId = 0

IsActive_OrUnknown(e) == e \in DOMAIN users => users[e] = "active"
IsActive(e) == e \in DOMAIN users /\ users[e] = "active"

\* The insert of registerAccount, for an email that has no row yet.
RegisterAccount(e) ==
    /\ e \notin DOMAIN users
    /\ users' = [x \in DOMAIN users \cup {e} |-> IF x = e THEN "active" ELSE users[x]]

NewToken_BySize == Cardinality(DOMAIN sessionToEmail) + 1
NewToken == nextSessionId + 1

Authenticate(e) ==
    /\ IsActive(e)
    /\ nextSessionId < MaxSessions
    /\ nextSessionId' = NewToken
    /\ sessionToEmail' = [t \in DOMAIN sessionToEmail \cup {NewToken} |->
                            IF t = NewToken THEN e ELSE sessionToEmail[t]]
    /\ UNCHANGED users

Logout(t) ==
    /\ t \in DOMAIN sessionToEmail
    /\ sessionToEmail' = [s \in DOMAIN sessionToEmail \ {t} |-> sessionToEmail[s]]
    /\ UNCHANGED <<users, nextSessionId>>

\* getSessionUser: the token is known and its account active now.
SessionUser(t, e) ==
    t \in DOMAIN sessionToEmail /\ sessionToEmail[t] = e /\ IsActive(e)

SetAccountActive(e, to) ==
    /\ e \in DOMAIN users
    /\ users' = [users EXCEPT ![e] = to]

\* A new AuthStore over the same file; seedDemoUsers finds its accounts there.
RestartAuthStore ==
    /\ sessionToEmail' = [t \in {} |-> t]
    /\ nextSessionId' = 0
    /\ UNCHANGED users
=============================================================================
