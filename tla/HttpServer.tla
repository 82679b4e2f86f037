----------------------------- MODULE HttpServer -----------------------------
(***************************************************************************)
(* The routes of runCrowServer between their three locks.  A request is    *)
(* checked against AuthStore first (requireRole), then runs its handler    *)
(* under DemoRideBackend::backendMutex, whose writes take                  *)
(* RideHistoryStore::storeMutex, and an administrator's request is logged  *)
(* after that (logAdminAction, which takes storeMutex alone).  Nothing     *)
(* holds the three parts together, and any of the server's threads may     *)
(* step in between.                                                        *)
(*                                                                         *)
(* What a handler does to rides and drivers is RideBackend's subject; here *)
(* it is the sequence of locks and statements still to come, any of which  *)
(* may fail on a lock of AuthStore's connection: SqliteFile says when.     *)
(* Here it matters what is done about it: a COMMIT that throws leaves its  *)
(* transaction open on the connection that all requests share.  A request  *)
(* that fails its check changes nothing and is left out, and so are those  *)
(* that only read.                                                         *)
(***************************************************************************)
EXTENDS Sessions, Sequences

CONSTANTS
    Threads, Nobody,
    Managed         \* bound: the accounts administrators create and (de)activate

ASSUME ThreadsAssumption ==
    /\ Nobody \notin Threads \cup Accounts
    /\ Managed \subseteq Accounts

VARIABLES
    threads,        \* thread -> the request it serves and what is left to do
    backendMutex, storeMutex,       \* the thread that holds it, or Nobody
    inTransaction,  \* threads with a statement in the open transaction
    auditTable,     \* account -> what its last committed row in admin_audit_logs says
    \* history variables, which no guard reads
    late,           \* a deactivation was carried out for a deactivated administrator
    excused         \* accounts whose audit rows may be missing or out of order: two
                    \* requests overlapped, or a row was not written or not committed

locks == <<backendMutex, storeMutex>>
vars == <<users, session, threads, locks, inTransaction, auditTable, late, excused>>

\* A store method of one statement is one step, which needs storeMutex free;
\* saveRide takes it with BEGIN and gives it back with COMMIT.
SaveRide == <<"begin", "commit">>

\* getDriverProfile holds storeMutex and may call saveDriverProfile, which takes no
\* lock: not then, and not when a handler calls it.
SaveDriverProfile_Locked == <<"lock_store", "write", "unlock_store">>
SaveDriverProfile == <<"write">>
GetDriverProfile == <<"lock_store">> \o SaveDriverProfile \o <<"unlock_store">>

Backend(body) == <<"lock_backend">> \o body \o <<"unlock_backend">>

\* A rider's request on a ride, a driver's on his availability; a driver's request
\* on a ride is the first with GetDriverProfile before it.
RideRequest   == Backend(<<"find">> \o SaveRide)
StatusRequest == Backend(GetDriverProfile \o SaveDriverProfile \o <<"insert">>)
CancelRequest == Backend(<<"find">> \o SaveRide) \o <<"log">>
ResetRequest  == Backend(<<"clear">>) \o <<"log">>
ActiveRequest == <<"update", "log">>
CreateRequest == <<"register", "log">>

Instructions == {"lock_backend", "unlock_backend", "lock_store", "unlock_store", "find",
                 "begin", "commit", "write", "insert", "clear", "update", "register", "log"}

\* target, to: the account an administrator changes, and what it becomes; actor:
\* who asked for that, until it is done.
Idle == [todo |-> <<>>, actor |-> Nobody, target |-> Nobody, to |-> "none"]

RequestType ==
    [todo : Seq(Instructions), actor : Accounts \cup {Nobody},
     target : Accounts \cup {Nobody}, to : {"none", "active", "inactive"}]

TypeOK ==
    /\ SessionsTypeOK
    /\ threads \in [Threads -> RequestType]
    /\ backendMutex \in Threads \cup {Nobody}
    /\ storeMutex \in Threads \cup {Nobody}
    /\ inTransaction \subseteq Threads
    /\ auditTable \in [Accounts -> {"none", "active", "inactive"}]
    /\ late \in BOOLEAN
    /\ excused \subseteq Accounts

Init ==
    /\ SessionsInit
    /\ threads = [th \in Threads |-> Idle]
    /\ backendMutex = Nobody
    /\ storeMutex = Nobody
    /\ inTransaction = {}
    /\ auditTable = [e \in Accounts |-> "none"]
    /\ late = FALSE
    /\ excused = {}

-----------------------------------------------------------------------------
(* Requests that AuthStore answers alone *)

Unlocked == UNCHANGED <<threads, locks, inTransaction, auditTable, late, excused>>

Doing(th, what) == threads[th].todo # <<>> /\ Head(threads[th].todo) = what

\* A COMMIT has failed.  Nothing ends its transaction before the process ends, and
\* its lock on the file refuses AuthStore's statements.
LeftOpen == inTransaction # {} /\ \A th \in Threads : ~Doing(th, "commit")

\* POST /api/auth/register, without ALLOW_PUBLIC_ADMIN_SIGNUP.
Register(e) ==
    RoleOf[e] # "admin" /\ ~LeftOpen /\ RegisterAccount(e) /\ UNCHANGED session /\ Unlocked

Login(e) == ~LeftOpen /\ Authenticate(e) /\ Unlocked

LogoutRequest(t) == Logout(t) /\ Unlocked

-----------------------------------------------------------------------------
(* Requests that reach a handler: the check and the rest *)

Serve(th, request) ==
    /\ threads[th] = Idle
    /\ threads' = [threads EXCEPT ![th] = request]
    /\ UNCHANGED <<users, session, locks, inTransaction, auditTable, late, excused>>

\* requireRole.
RequireRole(role, e) ==
    RoleOf[e] = role /\ ~LeftOpen /\ \E t \in DOMAIN sessionToEmail : SessionUser(t, e)

Request(todo) == [Idle EXCEPT !.todo = todo]

RideOrDrive(th, e) ==
    /\ RequireRole("rider", e) \/ RequireRole("driver", e)
    /\ \E todo \in {RideRequest, IF RoleOf[e] = "driver" THEN StatusRequest ELSE RideRequest} :
          Serve(th, Request(todo))

Administer(th, e) ==
    /\ RequireRole("admin", e)
    /\ \E todo \in {CancelRequest, ResetRequest} : Serve(th, Request(todo))

CreateUser(th, e, target) ==
    /\ RequireRole("admin", e)
    /\ Serve(th, [todo |-> CreateRequest,
                  actor |-> e, target |-> target, to |-> "active"])

NotOneself_Unchecked(e, target, to) == TRUE
NotOneself(e, target, to) == to = "inactive" => target # e

SetUserActive(th, e, target, to) ==
    /\ RequireRole("admin", e)
    /\ NotOneself(e, target, to)
    /\ Serve(th, [todo |-> ActiveRequest, actor |-> e, target |-> target, to |-> to])

-----------------------------------------------------------------------------
(* The steps of a handler *)

\* An answered request leaves nothing behind in its thread.
Left(th, todo) ==
    threads' = [threads EXCEPT ![th] = IF todo = <<>> THEN Idle ELSE [@ EXCEPT !.todo = todo]]

Done(th) == Left(th, Tail(threads[th].todo))

LockBackend(th) ==
    /\ Doing(th, "lock_backend") /\ backendMutex = Nobody
    /\ backendMutex' = th
    /\ Done(th)
    /\ UNCHANGED <<users, session, storeMutex, inTransaction, auditTable, late, excused>>

UnlockBackend(th) ==
    /\ Doing(th, "unlock_backend")
    /\ backendMutex' = Nobody
    /\ Done(th)
    /\ UNCHANGED <<users, session, storeMutex, inTransaction, auditTable, late, excused>>

LockStore(th) ==
    /\ Doing(th, "lock_store") /\ storeMutex = Nobody
    /\ storeMutex' = th
    /\ Done(th)
    /\ UNCHANGED <<users, session, backendMutex, inTransaction, auditTable, late, excused>>

UnlockStore(th) ==
    /\ Doing(th, "unlock_store")
    /\ storeMutex' = Nobody
    /\ Done(th)
    /\ UNCHANGED <<users, session, backendMutex, inTransaction, auditTable, late, excused>>

\* The ride is unknown, finished, or not this account's: answered 400, no audit row.
Find(th) ==
    /\ Doing(th, "find")
    /\ Done(th) \/ Left(th, <<"unlock_backend">>)
    /\ UNCHANGED <<users, session, locks, inTransaction, auditTable, late, excused>>

Begin(th) ==
    /\ Doing(th, "begin") /\ storeMutex = Nobody /\ inTransaction = {}
    /\ storeMutex' = th
    /\ inTransaction' = {th}
    /\ Done(th)
    /\ UNCHANGED <<users, session, backendMutex, auditTable, late, excused>>

\* "cannot start a transaction within a transaction": saveRide saves nothing, and
\* persistRide catches what it throws.
BeginThrows(th) ==
    /\ Doing(th, "begin") /\ storeMutex = Nobody /\ inTransaction # {}
    /\ Left(th, Tail(Tail(threads[th].todo)))
    /\ UNCHANGED <<users, session, locks, inTransaction, auditTable, late, excused>>

\* COMMIT, or the ROLLBACK of a save that failed.
Commit(th) ==
    /\ Doing(th, "commit")
    /\ storeMutex' = Nobody
    /\ inTransaction' = {}
    /\ Done(th)
    /\ UNCHANGED <<users, session, backendMutex, auditTable, late, excused>>

\* COMMIT meets a reader's lock: the guard frees storeMutex, nobody rolls back.
CommitThrows(th) ==
    /\ Doing(th, "commit")
    /\ storeMutex' = Nobody
    /\ Done(th)
    /\ UNCHANGED <<users, session, backendMutex, inTransaction, auditTable, late, excused>>

\* One connection: a statement joins the transaction that is open on it.
Joins(th) == inTransaction' = IF inTransaction = {} THEN {} ELSE inTransaction \cup {th}

\* saveDriverProfile.
Write(th) ==
    /\ Doing(th, "write")
    /\ Joins(th)
    /\ Done(th)
    /\ UNCHANGED <<users, session, locks, auditTable, late, excused>>

StoreFree_NotAsked == TRUE
StoreFree == storeMutex = Nobody

\* logDriverStatus.
Insert(th) ==
    /\ Doing(th, "insert") /\ StoreFree
    /\ Joins(th)
    /\ Done(th)
    /\ UNCHANGED <<users, session, locks, auditTable, late, excused>>

\* clearAll deletes admin_audit_logs with the rest, for good unless it joins a
\* transaction that nobody will commit.
Clear(th) ==
    /\ Doing(th, "clear") /\ StoreFree
    /\ Joins(th)
    /\ auditTable' = IF LeftOpen THEN auditTable ELSE [e \in Accounts |-> "none"]
    /\ Done(th)
    /\ UNCHANGED <<users, session, locks, late, excused>>

\* One of its statements fails, admin_audit_logs being the last: answered 500, no row.
ClearThrows(th) ==
    /\ Doing(th, "clear") /\ StoreFree
    /\ Joins(th)
    /\ Left(th, <<"unlock_backend">>)
    /\ UNCHANGED <<users, session, locks, auditTable, late, excused>>

RowWritten(th) ==
    /\ ~LeftOpen
    /\ auditTable' = [e \in Accounts |->
                        IF e = threads[th].target THEN threads[th].to ELSE auditTable[e]]
    /\ UNCHANGED excused

\* The insert failed, which nobody looks at, or is never committed.
RowLost(th) ==
    /\ excused' = excused \cup ({threads[th].target} \cap Accounts)
    /\ UNCHANGED auditTable

\* logAdminAction.
Log(th) ==
    /\ Doing(th, "log") /\ StoreFree
    /\ Joins(th)
    /\ RowWritten(th) \/ RowLost(th)
    /\ Done(th)
    /\ UNCHANGED <<users, session, locks, late>>

\* Has changed an account and not logged it yet.
Owes(th, e) == threads[th].target = e /\ threads[th].actor = Nobody

Carries(th) ==
    /\ late' = (late \/ (threads[th].to = "inactive" /\ ~IsActive(threads[th].actor)))
    /\ excused' = IF \E other \in Threads : Owes(other, threads[th].target)
                  THEN excused \cup {threads[th].target}
                  ELSE excused \ {threads[th].target}
    /\ threads' = [threads EXCEPT ![th].todo = Tail(@), ![th].actor = Nobody]

UpdateUser(th) ==
    /\ Doing(th, "update") /\ ~LeftOpen
    /\ SetAccountActive(threads[th].target, threads[th].to)
    /\ Carries(th)
    /\ UNCHANGED <<session, locks, inTransaction, auditTable>>

RegisterUser(th) ==
    /\ Doing(th, "register") /\ ~LeftOpen
    /\ RegisterAccount(threads[th].target)
    /\ Carries(th)
    /\ UNCHANGED <<session, locks, inTransaction, auditTable>>

\* "User not found.", "Account already exists.", which is what AuthStore makes of a
\* statement that fails, too: answered without a log row.
AfterRefusal_Logged(th) == Tail(threads[th].todo)
AfterRefusal(th) == <<>>

UserRefused(th) ==
    /\ Doing(th, "update") \/ Doing(th, "register")
    /\ Left(th, AfterRefusal(th))
    /\ UNCHANGED <<users, session, locks, inTransaction, auditTable, late, excused>>

HandlerStep(th) ==
    \/ LockBackend(th) \/ UnlockBackend(th)
    \/ LockStore(th) \/ UnlockStore(th)
    \/ Find(th)
    \/ Begin(th) \/ BeginThrows(th)
    \/ Commit(th) \/ CommitThrows(th)
    \/ Write(th) \/ Insert(th)
    \/ Clear(th) \/ ClearThrows(th)
    \/ UpdateUser(th) \/ RegisterUser(th) \/ UserRefused(th)
    \/ Log(th)

-----------------------------------------------------------------------------

\* The process ends and starts again.
Restart ==
    /\ RestartAuthStore
    /\ threads' = [th \in Threads |-> Idle]
    /\ backendMutex' = Nobody
    /\ storeMutex' = Nobody
    /\ inTransaction' = {}
    /\ excused' = excused \cup {e \in Accounts : \E th \in Threads : Owes(th, e)}
    /\ UNCHANGED <<auditTable, late>>

Next ==
    \/ \E e \in Accounts : Register(e) \/ Login(e)
    \/ \E t \in DOMAIN sessionToEmail : LogoutRequest(t)
    \/ \E th \in Threads, e \in Accounts :
          \/ RideOrDrive(th, e)
          \/ Administer(th, e)
          \/ \E target \in Managed :
                \/ CreateUser(th, e, target)
                \/ \E to \in {"active", "inactive"} : SetUserActive(th, e, target, to)
    \/ \E th \in Threads : HandlerStep(th)
    \/ Restart

\* A thread that can go on does; nothing is assumed of who gets a mutex, of
\* clients, or of restarts.
Fairness == \A th \in Threads : WF_vars(HandlerStep(th))

Spec == Init /\ [][Next]_vars /\ Fairness

-----------------------------------------------------------------------------
(* Properties *)

\* Nobody's statement is committed or rolled back by another request: when a
\* transaction comes to its COMMIT, all that is in it is its own.  One connection is
\* kept apart by two mutexes of which saveDriverProfile takes neither itself and
\* logAdminAction only one.  A transaction whose COMMIT has thrown is joined by
\* whoever comes next, but nobody comes to a COMMIT again, as every BEGIN throws.
TransactionIsOwn ==
    \A th \in Threads : Doing(th, "commit") => storeMutex = th /\ inTransaction = {th}

\* "You cannot deactivate your current admin session." keeps an administrator
\* active, as long as nobody acts on a check that another request has overtaken:
\* two administrators who deactivate each other at once leave none.
SomeAdminActive == late \/ \E e \in Accounts : RoleOf[e] = "admin" /\ IsActive(e)

\* The token of a session never comes to stand for another account, nor comes back
\* after its logout, before the next restart.
SessionsKeepOwner ==
    [][\A t \in 1 .. nextSessionId :
          t \in DOMAIN sessionToEmail' =>
              t \in DOMAIN sessionToEmail /\ sessionToEmail'[t] = sessionToEmail[t]]_session

\* The last audit row about an account says whether it is active, once nobody has a
\* row about it to write: no step of a handler, and no failure of a change, of a reset
\* or of a save, makes the log tell what was not done.  It may lack what was done,
\* until the next change that is logged, where a row was lost, the process ended
\* before it was written, or two requests about the account overlapped.
AuditTellsState ==
    \A e \in Accounts \ excused :
        auditTable[e] # "none" /\ (\A th \in Threads : ~Owes(th, e)) =>
            e \in DOMAIN users /\ users[e] = auditTable[e]

Busy == \E th \in Threads : threads[th] # Idle

\* A request's thread does not have to wait: the mutex that its next step takes,
\* or of which its statement makes sure, is free.
TakesStore == {"lock_store", "begin", "insert", "clear", "log"}

GoesOn(th) ==
    /\ threads[th] # Idle
    /\ Doing(th, "lock_backend") => backendMutex = Nobody
    /\ (\E what \in TakesStore : Doing(th, what)) => storeMutex = Nobody

\* No deadlock: while requests are being served, some thread does not wait, though
\* most hold one mutex when they ask for the other, and neither can be taken twice
\* by one thread.
SomebodyGoesOn == Busy => \E th \in Threads : GoesOn(th)

\* Nobody waits for ever on everybody: as long as requests are being served,
\* requests get answered.
Answer == \E th \in Threads : threads[th] # Idle /\ threads'[th] = Idle

ServerKeepsAnswering == []<>~Busy \/ []<><<Answer>>_vars
=============================================================================
