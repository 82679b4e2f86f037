---------------------------- MODULE SqliteFile ----------------------------
(***************************************************************************)
(* One SQLite file under two connections: AuthStore's and                  *)
(* RideHistoryStore's, each behind the mutex of its own store and neither  *)
(* with a busy timeout, so a statement that meets the other connection's   *)
(* lock fails at once.  What each store makes of that failure is the       *)
(* subject: saveRide has a path for a failed upsert (ROLLBACK) and none    *)
(* for a failed COMMIT, and a select that fails reads as "no such row".    *)
(*                                                                         *)
(* A ride is its version number: every change in memory makes a new one,   *)
(* which saveRide writes to ride_history and, with the stops, to           *)
(* ride_stops.  The locks are those of SQLite's rollback journal.          *)
(***************************************************************************)
EXTENDS Naturals

CONSTANTS
    Rides,
    Emails,         \* accounts that register and are (de)activated
    MaxVersion      \* bound on the changes of a ride

ASSUME FileAssumption == MaxVersion \in Nat

Connections == {"auth", "history"}
LockLevels == {"none", "shared", "reserved", "pending", "exclusive"}
AccountStates == {"none", "active", "inactive"}

VARIABLES
    lock,           \* connection -> the lock it holds on the file
    file,           \* what is committed: ride -> versions of row and stops
    accounts,       \* what is committed in users: email -> state
    inTransaction,  \* the history connection is between BEGIN and COMMIT
    written,        \* what that transaction has made of the file's rides
    memory,         \* ride -> its version in DemoRideBackend
    save,           \* what the holder of RideHistoryStore::storeMutex is doing
    auth,           \* what the holder of AuthStore::storeMutex is doing
    replied,        \* email -> the state the last successful reply announced
    failedCommit    \* a COMMIT has failed since the last restart

connection == <<lock, inTransaction, written>>
history == <<memory, save, failedCommit>>
vars == <<connection, history, file, accounts, auth, replied>>

Versions == 0 .. MaxVersion
RowsType == [Rides -> [row : Versions, stops : Versions]]
SaveType == [step : {"idle", "reading"}] \cup
            [step : {"begin", "upsert", "stops", "commit", "flush"}, ride : Rides]
AuthType == [step : {"idle"}] \cup
            [step : {"select", "row", "write", "commit", "flush"},
             op : {"getSessionUser", "registerAccount", "setAccountActive"},
             email : Emails, to : AccountStates]

TypeOK ==
    /\ lock \in [Connections -> LockLevels]
    /\ file \in RowsType /\ written \in RowsType
    /\ accounts \in [Emails -> AccountStates]
    /\ replied \in [Emails -> AccountStates]
    /\ inTransaction \in BOOLEAN /\ failedCommit \in BOOLEAN
    /\ memory \in [Rides -> Versions]
    /\ save \in SaveType
    /\ auth \in AuthType

Idle == [step |-> "idle"]

Init ==
    /\ lock = [c \in Connections |-> "none"]
    /\ file = [r \in Rides |-> [row |-> 0, stops |-> 0]]
    /\ written = file
    /\ accounts = [e \in Emails |-> "none"]
    /\ replied = accounts
    /\ inTransaction = FALSE
    /\ memory = [r \in Rides |-> 0]
    /\ save = Idle
    /\ auth = Idle
    /\ failedCommit = FALSE

-----------------------------------------------------------------------------
(* SQLite's locks: many SHARED, one RESERVED beside them, and EXCLUSIVE    *)
(* alone; PENDING lets no new SHARED in.                                   *)

Other(c) == CHOOSE d \in Connections : d # c

MayRead(c)   == lock[Other(c)] \notin {"pending", "exclusive"}
MayReserve(c) == lock[Other(c)] \in {"none", "shared"}
MayCommit(c) == lock[Other(c)] = "none"

Holds(c, l) == lock' = [lock EXCEPT ![c] = l]

-----------------------------------------------------------------------------
(* RideHistoryStore.  One thread at a time is in the store.                *)

SaveStep(step) == save.step = step
NextStep(step) == save' = [save EXCEPT !.step = step]

\* A handler changes a ride in memory and calls persistRide.
ChangeRide(r) ==
    /\ SaveStep("idle")
    /\ memory[r] < MaxVersion
    /\ memory' = [memory EXCEPT ![r] = @ + 1]
    /\ save' = [step |-> "begin", ride |-> r]
    /\ UNCHANGED <<connection, failedCommit, file, accounts, auth, replied>>

\* BEGIN takes no lock.
Begin ==
    /\ SaveStep("begin") /\ ~inTransaction
    /\ inTransaction' = TRUE
    /\ written' = file
    /\ NextStep("upsert")
    /\ UNCHANGED <<lock, memory, failedCommit, file, accounts, auth, replied>>

\* "cannot start a transaction within a transaction": thrown, and caught by
\* persistRide, which prints it.
BeginThrows_Ignored ==
    /\ SaveStep("begin") /\ inTransaction
    /\ NextStep("upsert")
    /\ UNCHANGED <<connection, memory, failedCommit, file, accounts, auth, replied>>

BeginThrows ==
    /\ SaveStep("begin") /\ inTransaction
    /\ save' = Idle
    /\ UNCHANGED <<connection, memory, failedCommit, file, accounts, auth, replied>>

Upsert ==
    /\ SaveStep("upsert") /\ MayReserve("history")
    /\ Holds("history", "reserved")
    /\ written' = [written EXCEPT ![save.ride].row = memory[save.ride]]
    /\ NextStep("stops")
    /\ UNCHANGED <<inTransaction, memory, failedCommit, file, accounts, auth, replied>>

\* SQLITE_BUSY: ROLLBACK and return, as if the ride had been saved.
UpsertFails_NoRollback ==
    /\ SaveStep("upsert") /\ ~MayReserve("history")
    /\ save' = Idle
    /\ UNCHANGED <<connection, memory, failedCommit, file, accounts, auth, replied>>

UpsertFails ==
    /\ SaveStep("upsert") /\ ~MayReserve("history")
    /\ inTransaction' = FALSE
    /\ written' = file
    /\ Holds("history", "none")
    /\ save' = Idle
    /\ UNCHANGED <<memory, failedCommit, file, accounts, auth, replied>>

\* The old stops are deleted and the new ones inserted.
ReplaceStops ==
    /\ SaveStep("stops")
    /\ written' = [written EXCEPT ![save.ride].stops = memory[save.ride]]
    /\ NextStep("commit")
    /\ UNCHANGED <<lock, inTransaction, memory, failedCommit, file, accounts, auth, replied>>

Commit ==
    /\ SaveStep("commit") /\ MayCommit("history")
    /\ Holds("history", "exclusive")
    /\ NextStep("flush")
    /\ UNCHANGED <<inTransaction, written, memory, failedCommit, file, accounts, auth, replied>>

\* SQLITE_BUSY: execute throws out of saveRide.  The transaction stays open and
\* the connection keeps the PENDING lock it took on its way to EXCLUSIVE.
CommitThrows ==
    /\ SaveStep("commit") /\ ~MayCommit("history")
    /\ Holds("history", "pending")
    /\ failedCommit' = TRUE
    /\ save' = Idle
    /\ UNCHANGED <<inTransaction, written, memory, file, accounts, auth, replied>>

Committed ==
    /\ SaveStep("flush")
    /\ file' = written
    /\ inTransaction' = FALSE
    /\ Holds("history", "none")
    /\ save' = Idle
    /\ UNCHANGED <<written, memory, failedCommit, accounts, auth, replied>>

\* ratingForRide and the like, which every answer calls; inside an open
\* transaction they take no further lock.
ReadRow ==
    /\ SaveStep("idle") /\ ~inTransaction /\ MayRead("history")
    /\ Holds("history", "shared")
    /\ save' = [step |-> "reading"]
    /\ UNCHANGED <<inTransaction, written, memory, failedCommit, file, accounts, auth, replied>>

RowRead ==
    /\ SaveStep("reading")
    /\ Holds("history", "none")
    /\ save' = Idle
    /\ UNCHANGED <<inTransaction, written, memory, failedCommit, file, accounts, auth, replied>>

HistoryStep ==
    \/ \E r \in Rides : ChangeRide(r)
    \/ Begin \/ BeginThrows
    \/ Upsert \/ UpsertFails
    \/ ReplaceStops
    \/ Commit \/ CommitThrows \/ Committed
    \/ ReadRow \/ RowRead

-----------------------------------------------------------------------------
(* AuthStore.  One thread at a time is in the store.                       *)

AuthStep(step) == auth.step = step
Goes(step) == auth' = [auth EXCEPT !.step = step]
AuthKeeps == UNCHANGED <<inTransaction, written, history, file>>

Call(op, e, step, to) == auth' = [op |-> op, email |-> e, step |-> step, to |-> to]

\* setAccountActive updates at once; the others select first.
CallAuthStore ==
    /\ AuthStep("idle")
    /\ \E e \in Emails :
          \/ Call("getSessionUser", e, "select", "none")
          \/ Call("registerAccount", e, "select", "active")
          \/ Call("setAccountActive", e, "write", "active")
          \/ Call("setAccountActive", e, "write", "inactive")
    /\ UNCHANGED <<lock, accounts, replied>> /\ AuthKeeps

\* sqlite3_step returns the row; the SHARED lock is held until finalize.
Select ==
    /\ AuthStep("select") /\ MayRead("auth")
    /\ Holds("auth", "shared")
    /\ Goes("row")
    /\ UNCHANGED <<accounts, replied>> /\ AuthKeeps

\* Registration goes on to insert if it saw no such account.
Registering == auth.op = "registerAccount"

Finalize ==
    /\ AuthStep("row")
    /\ Holds("auth", "none")
    /\ auth' = IF Registering /\ accounts[auth.email] = "none"
               THEN [auth EXCEPT !.step = "write"] ELSE Idle
    /\ UNCHANGED <<accounts, replied>> /\ AuthKeeps

\* SQLITE_BUSY reads as "no such account".
SelectBusy ==
    /\ AuthStep("select") /\ ~MayRead("auth")
    /\ auth' = IF Registering THEN [auth EXCEPT !.step = "write"] ELSE Idle
    /\ UNCHANGED <<lock, accounts, replied>> /\ AuthKeeps

\* The email is UNIQUE, and an update must meet a row to count as done.
Fits_Unchecked == TRUE
Fits == (accounts[auth.email] = "none") = Registering

Write ==
    /\ AuthStep("write") /\ MayReserve("auth") /\ Fits
    /\ Holds("auth", "reserved")
    /\ Goes("commit")
    /\ UNCHANGED <<accounts, replied>> /\ AuthKeeps

\* Returns false; registration is then answered "Account already exists.",
\* (de)activation "User not found.".
WriteFails ==
    /\ AuthStep("write") /\ ~(MayReserve("auth") /\ Fits)
    /\ auth' = Idle
    /\ UNCHANGED <<lock, accounts, replied>> /\ AuthKeeps

WriteCommits ==
    /\ AuthStep("commit") /\ MayCommit("auth")
    /\ Holds("auth", "exclusive")
    /\ Goes("flush")
    /\ UNCHANGED <<accounts, replied>> /\ AuthKeeps

\* The statement is a transaction of its own, which SQLite rolls back.
WriteCommitBusy_SaidDone ==
    /\ AuthStep("commit") /\ ~MayCommit("auth")
    /\ Holds("auth", "none")
    /\ replied' = [replied EXCEPT ![auth.email] = auth.to]
    /\ auth' = Idle
    /\ UNCHANGED accounts /\ AuthKeeps

WriteCommitBusy ==
    /\ AuthStep("commit") /\ ~MayCommit("auth")
    /\ Holds("auth", "none")
    /\ auth' = Idle
    /\ UNCHANGED <<accounts, replied>> /\ AuthKeeps

Written ==
    /\ AuthStep("flush")
    /\ accounts' = [accounts EXCEPT ![auth.email] = auth.to]
    /\ replied' = [replied EXCEPT ![auth.email] = auth.to]
    /\ Holds("auth", "none")
    /\ auth' = Idle
    /\ AuthKeeps

AuthStoreStep ==
    \/ CallAuthStore
    \/ Select \/ SelectBusy \/ Finalize
    \/ Write \/ WriteFails
    \/ WriteCommits \/ WriteCommitBusy \/ Written

-----------------------------------------------------------------------------

\* The process ends and starts again: SQLite drops locks and open transactions,
\* and restorePersistedRides reads the file.
Restart ==
    /\ lock' = [c \in Connections |-> "none"]
    /\ inTransaction' = FALSE
    /\ written' = file
    /\ memory' = [r \in Rides |-> file[r].row]
    /\ save' = Idle
    /\ auth' = Idle
    /\ failedCommit' = FALSE
    /\ UNCHANGED <<file, accounts, replied>>

Next == HistoryStep \/ AuthStoreStep \/ Restart

Spec == Init /\ [][Next]_vars

-----------------------------------------------------------------------------
(* Properties *)

\* saveRide is all or nothing although it is several statements, some of whose
\* results nobody looks at, and although a transaction may be left open: the row
\* and the stops in the file are always those of one version, and a commit
\* brings exactly the ride that was being saved.
Saves == INSTANCE AtomicSaves WITH
    SavedRides <- Rides, LastVersion <- MaxVersion,
    current <- memory, saved <- file

SavesAreAtomic == Saves!AtomicSpec

\* Every way out of saveRide closes the transaction and gives the lock back,
\* save one: the COMMIT that throws.
OpenOnlyAfterFailedCommit ==
    save.step = "idle" /\ ~failedCommit => ~inTransaction /\ lock["history"] = "none"

\* What AuthStore reports as done is in the file and stays there, and what it
\* reports as refused has changed nothing, whatever the other connection does
\* and whenever the process ends.
RepliesHold == accounts = replied

\* A deactivated account stays deactivated until an administrator activates it:
\* registering the address again does not revive it, although the check for an
\* existing account reads "none" whenever the file is locked.
DeactivatedStays ==
    [][\A e \in Emails :
          accounts[e] = "inactive" /\ accounts'[e] # "inactive" => auth.op = "setAccountActive"]_vars

\* readme.md:364, "All lifecycle transitions are persisted to SQLite
\* immediately": once the handler has returned, the file has the ride as it is
\* in memory.
TransitionsPersisted == save.step = "idle" => \A r \in Rides : file[r].row = memory[r]
=============================================================================
