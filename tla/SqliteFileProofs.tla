-------------------------- MODULE SqliteFileProofs --------------------------
(***************************************************************************)
(* Proofs about SqliteFile, for any rides, accounts and bound: its types,  *)
(* that saveRide leaves its transaction open only when a COMMIT failed,    *)
(* that it implements AtomicSaves, and that AuthStore's answers hold.      *)
(***************************************************************************)
EXTENDS SqliteFile, TLAPS

\* The transaction is open from BEGIN to the end of saveRide and at no other
\* time, unless a COMMIT failed; and it differs from the file in the ride that is
\* being saved at most.
OpenInv ==
    /\ save.step \in {"idle", "begin"} /\ ~failedCommit => ~inTransaction /\ lock["history"] = "none"
    /\ save.step = "reading" => ~inTransaction
    /\ save.step \in {"upsert", "stops", "commit", "flush"} => inTransaction
    /\ save.step = "upsert" => written = file
    /\ save.step = "stops" =>
          written = [file EXCEPT ![save.ride].row = memory[save.ride]]
    /\ save.step \in {"commit", "flush"} =>
          written = [file EXCEPT ![save.ride] =
                        [row |-> memory[save.ride], stops |-> memory[save.ride]]]

\* What is about to be written fits the row that is there, and is not the work of
\* a session check.
WriteInv ==
    /\ auth.step \in {"write", "commit", "flush"} => auth.op # "getSessionUser"
    /\ auth.step \in {"commit", "flush"} => Fits
    /\ accounts = replied

IInv == TypeOK /\ OpenInv /\ WriteInv

-----------------------------------------------------------------------------

LEMMA InitTypeOK == Init => TypeOK
<1> SUFFICES ASSUME Init PROVE TypeOK
    OBVIOUS
<1>1. 0 \in Versions
    BY FileAssumption DEF Versions
<1>2. file \in RowsType /\ written \in RowsType /\ memory \in [Rides -> Versions]
    BY <1>1 DEF Init, RowsType
<1>3. Idle \in SaveType /\ Idle \in AuthType
    BY DEF Idle, SaveType, AuthType
<1>4. lock \in [Connections -> LockLevels]
    BY DEF Init, LockLevels
<1>5. accounts \in [Emails -> AccountStates] /\ replied \in [Emails -> AccountStates]
    BY DEF Init, AccountStates
<1> QED
    BY <1>2, <1>3, <1>4, <1>5 DEF Init, TypeOK

LEMMA HistoryTypeOK == TypeOK /\ HistoryStep => TypeOK'
<1> SUFFICES ASSUME TypeOK, HistoryStep PROVE TypeOK'
    OBVIOUS
<1> USE FileAssumption DEF TypeOK, Connections, LockLevels, RowsType, Versions, SaveType,
        SaveStep, NextStep, Holds, Idle, connection, history
<1>1. CASE \E r \in Rides : ChangeRide(r)
    BY <1>1 DEF ChangeRide
<1>2. CASE Begin
    BY <1>2 DEF Begin
<1>3. CASE BeginThrows
    BY <1>3 DEF BeginThrows
<1>4. CASE Upsert
    BY <1>4 DEF Upsert
<1>5. CASE UpsertFails
    BY <1>5 DEF UpsertFails
<1>6. CASE ReplaceStops
    BY <1>6 DEF ReplaceStops
<1>7. CASE Commit
    BY <1>7 DEF Commit
<1>8. CASE CommitThrows
    BY <1>8 DEF CommitThrows
<1>9. CASE Committed
    BY <1>9 DEF Committed
<1>10. CASE ReadRow
    BY <1>10 DEF ReadRow
<1>11. CASE RowRead
    BY <1>11 DEF RowRead
<1> QED
    BY <1>1, <1>2, <1>3, <1>4, <1>5, <1>6, <1>7, <1>8, <1>9, <1>10, <1>11 DEF HistoryStep

LEMMA AuthTypeOK == TypeOK /\ AuthStoreStep => TypeOK'
<1> SUFFICES ASSUME TypeOK, AuthStoreStep PROVE TypeOK'
    OBVIOUS
<1> USE DEF TypeOK, Connections, LockLevels, AuthType, AccountStates, AuthStep, Goes, AuthKeeps,
        Holds, Idle, history
<1>1. CASE CallAuthStore
    BY <1>1 DEF CallAuthStore, Call
<1>2. CASE Select
    BY <1>2 DEF Select
<1>3. CASE SelectBusy
    BY <1>3 DEF SelectBusy
<1>4. CASE Finalize
    BY <1>4 DEF Finalize
<1>5. CASE Write
    BY <1>5 DEF Write
<1>6. CASE WriteFails
    BY <1>6 DEF WriteFails
<1>7. CASE WriteCommits
    BY <1>7 DEF WriteCommits
<1>8. CASE WriteCommitBusy
    BY <1>8 DEF WriteCommitBusy
<1>9. CASE Written
    BY <1>9 DEF Written
<1> QED
    BY <1>1, <1>2, <1>3, <1>4, <1>5, <1>6, <1>7, <1>8, <1>9 DEF AuthStoreStep

LEMMA RestartTypeOK == TypeOK /\ Restart => TypeOK'
<1> SUFFICES ASSUME TypeOK, Restart PROVE TypeOK'
    OBVIOUS
<1>1. memory' \in [Rides -> Versions]
    BY DEF TypeOK, Restart, RowsType
<1>2. Idle \in SaveType /\ Idle \in AuthType
    BY DEF Idle, SaveType, AuthType
<1>3. lock' \in [Connections -> LockLevels]
    BY DEF Restart, LockLevels
<1> QED
    BY <1>1, <1>2, <1>3 DEF TypeOK, Restart

-----------------------------------------------------------------------------

LEMMA InitIInv == Init => IInv
<1> SUFFICES ASSUME Init PROVE IInv
    OBVIOUS
<1>1. TypeOK
    BY InitTypeOK
<1>2. OpenInv
    BY DEF Init, OpenInv, Idle, Connections
<1>3. WriteInv
    BY DEF Init, WriteInv, Idle
<1> QED
    BY <1>1, <1>2, <1>3 DEF IInv

\* AuthStore's steps leave the other store alone.
LEMMA AuthKeepsOpenInv == IInv /\ AuthStoreStep => OpenInv'
<1> SUFFICES ASSUME IInv, AuthStoreStep PROVE OpenInv'
    OBVIOUS
<1>1. UNCHANGED <<inTransaction, written, memory, save, failedCommit, file>>
    BY DEF AuthStoreStep, AuthKeeps, history, CallAuthStore, Select, SelectBusy, Finalize, Write,
        WriteFails, WriteCommits, WriteCommitBusy, Written
<1>2. lock'["history"] = lock["history"]
    BY DEF IInv, TypeOK, AuthStoreStep, Holds, Connections, CallAuthStore, Select, SelectBusy,
        Finalize, Write, WriteFails, WriteCommits, WriteCommitBusy, Written
<1> QED
    BY <1>1, <1>2 DEF IInv, OpenInv

LEMMA HistoryOpenInv == IInv /\ HistoryStep => OpenInv'
<1> SUFFICES ASSUME IInv, HistoryStep PROVE OpenInv'
    OBVIOUS
<1> USE DEF IInv, OpenInv, TypeOK, SaveType, Connections, SaveStep, NextStep, Holds, Idle,
        connection, history
<1>1. CASE \E r \in Rides : ChangeRide(r)
    BY <1>1 DEF ChangeRide
<1>2. CASE Begin
    BY <1>2 DEF Begin
<1>3. CASE BeginThrows
    BY <1>3 DEF BeginThrows
<1>4. CASE Upsert
    BY <1>4 DEF Upsert
<1>5. CASE UpsertFails
    BY <1>5 DEF UpsertFails
<1>6. CASE ReplaceStops
    <2>1. /\ save \in [step : {"begin", "upsert", "stops", "commit", "flush"}, ride : Rides]
          /\ save' = [save EXCEPT !.step = "commit"]
          /\ written = [file EXCEPT ![save.ride].row = memory[save.ride]]
          /\ written' = [written EXCEPT ![save.ride].stops = memory[save.ride]]
          /\ UNCHANGED <<file, memory, inTransaction>>
        BY <1>6 DEF ReplaceStops
    <2> DEFINE v == memory[save.ride]
               whole == [file EXCEPT ![save.ride] = [row |-> v, stops |-> v]]
    <2>2. save.ride \in Rides /\ v \in Versions
        BY <2>1
    <2>3. file \in [Rides -> [row : Versions, stops : Versions]]
        BY DEF RowsType
    <2>4. written[save.ride] = [row |-> v, stops |-> file[save.ride].stops]
        BY <2>1, <2>2, <2>3
    <2>5. written'[save.ride] = [row |-> v, stops |-> v]
        BY <2>1, <2>2, <2>3, <2>4
    <2>6. \A r \in Rides : written'[r] = whole[r]
        BY <2>1, <2>2, <2>3, <2>5
    <2>7. DOMAIN written' = Rides /\ written' = [r \in Rides |-> written'[r]]
        BY <2>1, <2>3
    <2>8. written' = whole
        BY <2>3, <2>6, <2>7
    <2>9. save'.step = "commit" /\ save'.ride = save.ride
        BY <2>1
    <2>10. written' = [file' EXCEPT ![save'.ride] =
                          [row |-> memory'[save'.ride], stops |-> memory'[save'.ride]]]
        BY <2>1, <2>8, <2>9, Zenon
    <2>11. inTransaction'
        BY <1>6, <2>1 DEF ReplaceStops
    <2> QED
        BY <2>9, <2>10, <2>11, Zenon
<1>7. CASE Commit
    BY <1>7 DEF Commit
<1>8. CASE CommitThrows
    BY <1>8 DEF CommitThrows
<1>9. CASE Committed
    BY <1>9 DEF Committed
<1>10. CASE ReadRow
    BY <1>10 DEF ReadRow
<1>11. CASE RowRead
    BY <1>11 DEF RowRead
<1> QED
    BY <1>1, <1>2, <1>3, <1>4, <1>5, <1>6, <1>7, <1>8, <1>9, <1>10, <1>11 DEF HistoryStep

LEMMA AuthWriteInv == IInv /\ AuthStoreStep => WriteInv'
<1> SUFFICES ASSUME IInv, AuthStoreStep PROVE WriteInv'
    OBVIOUS
<1> USE DEF IInv, WriteInv, TypeOK, AuthType, AuthStep, Goes, Idle, Fits, Registering
<1>1. CASE CallAuthStore
    BY <1>1 DEF CallAuthStore, Call
<1>2. CASE Select
    BY <1>2 DEF Select
<1>3. CASE SelectBusy
    BY <1>3 DEF SelectBusy
<1>4. CASE Finalize
    BY <1>4 DEF Finalize
<1>5. CASE Write
    BY <1>5 DEF Write
<1>6. CASE WriteFails
    BY <1>6 DEF WriteFails
<1>7. CASE WriteCommits
    BY <1>7 DEF WriteCommits
<1>8. CASE WriteCommitBusy
    BY <1>8 DEF WriteCommitBusy
<1>9. CASE Written
    BY <1>9 DEF Written
<1> QED
    BY <1>1, <1>2, <1>3, <1>4, <1>5, <1>6, <1>7, <1>8, <1>9 DEF AuthStoreStep

LEMMA NextIInv == IInv /\ [Next]_vars => IInv'
<1> SUFFICES ASSUME IInv, [Next]_vars PROVE IInv'
    OBVIOUS
<1>1. CASE HistoryStep
    <2>1. UNCHANGED <<accounts, auth, replied>>
        BY <1>1 DEF HistoryStep, ChangeRide, Begin, BeginThrows, Upsert, UpsertFails, ReplaceStops,
            Commit, CommitThrows, Committed, ReadRow, RowRead
    <2>2. WriteInv'
        BY <2>1 DEF IInv, WriteInv, Fits, Registering
    <2> QED
        BY <1>1, <2>2, HistoryTypeOK, HistoryOpenInv DEF IInv
<1>2. CASE AuthStoreStep
    BY <1>2, AuthTypeOK, AuthKeepsOpenInv, AuthWriteInv DEF IInv
<1>3. CASE Restart
    <2>1. OpenInv' /\ WriteInv'
        BY <1>3 DEF IInv, Restart, OpenInv, WriteInv, Idle, Connections
    <2> QED
        BY <1>3, <2>1, RestartTypeOK DEF IInv
<1>4. CASE UNCHANGED vars
    BY <1>4 DEF IInv, TypeOK, OpenInv, WriteInv, Fits, Registering, vars, connection, history
<1> QED
    BY <1>1, <1>2, <1>3, <1>4 DEF Next

THEOREM Invariant == Spec => []IInv
BY InitIInv, NextIInv, PTL DEF Spec

-----------------------------------------------------------------------------

\* The state of the connections, of both stores and of the file is always of its
\* type, in particular a lock is one of SQLite's five.
THEOREM TypeCorrect == Spec => []TypeOK
<1>1. IInv => TypeOK
    BY DEF IInv
<1> QED
    BY <1>1, Invariant, PTL

\* RideHistoryStore.cpp:211-288: whichever statement of saveRide fails, the
\* transaction is closed and the lock given back, unless it is the COMMIT.
THEOREM ClosedUnlessCommitFailed == Spec => []OpenOnlyAfterFailedCommit
<1>1. IInv => OpenOnlyAfterFailedCommit
    BY DEF IInv, OpenInv, OpenOnlyAfterFailedCommit
<1> QED
    BY <1>1, Invariant, PTL

\* AuthStore.cpp:151-182, 253-266: what was answered as done is in the users table,
\* and nothing else is.
THEOREM AnswersHold == Spec => []RepliesHold
<1>1. IInv => RepliesHold
    BY DEF IInv, WriteInv, RepliesHold
<1> QED
    BY <1>1, Invariant, PTL

\* AuthStore.cpp:159: a check for an existing account that fails on a lock does not
\* let a registration revive a deactivated account.
THEOREM RegistrationRevivesNobody == Spec => DeactivatedStays
<1> DEFINE Stays == \A e \in Emails :
        accounts[e] = "inactive" /\ accounts'[e] # "inactive" => auth.op = "setAccountActive"
<1>1. IInv /\ [Next]_vars => [Stays]_vars
    <2> SUFFICES ASSUME IInv, Next, NEW e \in Emails,
                        accounts[e] = "inactive", accounts'[e] # "inactive"
                 PROVE  auth.op = "setAccountActive"
        OBVIOUS
    <2>1. Written
        BY DEF Next, HistoryStep, AuthStoreStep, Restart, ChangeRide, Begin, BeginThrows, Upsert,
            UpsertFails, ReplaceStops, Commit, CommitThrows, Committed, ReadRow, RowRead,
            CallAuthStore, Select, SelectBusy, Finalize, Write, WriteFails, WriteCommits,
            WriteCommitBusy
    <2>2. auth.email = e
        BY <2>1 DEF Written, IInv, TypeOK
    <2>3. auth.op \in {"registerAccount", "setAccountActive"} /\ Fits
        BY <2>1 DEF Written, AuthStep, IInv, WriteInv, TypeOK, AuthType
    <2> QED
        BY <2>2, <2>3 DEF Fits, Registering
<1> QED
    BY <1>1, Invariant, PTL DEF Spec, DeactivatedStays

\* saveRide, a sequence of statements on a shared file, implements the atomic save
\* RideBackend works with: row and stops are always of one version.
THEOREM ImplementsAtomicSaves == Spec => SavesAreAtomic
<1>1. Init => Saves!AtomicInit
    BY DEF Init, Saves!AtomicInit
<1>2. IInv /\ [Next]_vars => [Saves!AtomicNext]_<<memory, file>>
    <2> SUFFICES ASSUME IInv, [Next]_vars PROVE [Saves!AtomicNext]_<<memory, file>>
        OBVIOUS
    <2>1. CASE \E r \in Rides : ChangeRide(r)
        BY <2>1 DEF ChangeRide, Saves!AtomicNext, Saves!Change
    <2>2. CASE Committed
        <3>1. save.ride \in Rides /\ Saves!Save(save.ride)
            BY <2>2 DEF Committed, SaveStep, IInv, OpenInv, TypeOK, SaveType, Saves!Save
        <3> QED
            BY <3>1 DEF Saves!AtomicNext
    <2>3. CASE Restart
        BY <2>3 DEF Restart, Saves!AtomicNext, Saves!Reload
    <2>4. CASE \/ Begin \/ BeginThrows \/ Upsert \/ UpsertFails \/ ReplaceStops
               \/ Commit \/ CommitThrows \/ ReadRow \/ RowRead
        BY <2>4 DEF Begin, BeginThrows, Upsert, UpsertFails, ReplaceStops, Commit, CommitThrows,
            ReadRow, RowRead
    <2>5. CASE AuthStoreStep
        BY <2>5 DEF AuthStoreStep, AuthKeeps, history, CallAuthStore, Select, SelectBusy, Finalize,
            Write, WriteFails, WriteCommits, WriteCommitBusy, Written
    <2>6. CASE UNCHANGED vars
        BY <2>6 DEF vars, history
    <2> QED
        BY <2>1, <2>2, <2>3, <2>4, <2>5, <2>6 DEF Next, HistoryStep
<1> QED
    BY <1>1, <1>2, Invariant, PTL DEF Spec, SavesAreAtomic, Saves!AtomicSpec
=============================================================================
