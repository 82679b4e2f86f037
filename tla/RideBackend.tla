---------------------------- MODULE RideBackend ----------------------------
(***************************************************************************)
(* DemoRideBackend of src/web/WebServer.cpp with the RideService it calls  *)
(* and the RideHistoryStore it writes to: the rides, drivers and account   *)
(* bindings kept in memory, and the SQLite tables that outlive the         *)
(* process.                                                                *)
(*                                                                         *)
(* Every public method of DemoRideBackend takes backendMutex for its whole *)
(* body, so a handler's reads and its change of memory are one action.     *)
(* Its writes to SQLite are not: each is an autocommitted statement or a   *)
(* transaction of its own, and the process can die between any two.  The   *)
(* writes a handler still has to issue are the sequence "pending"; the     *)
(* mutex is free exactly when it is empty.  A restart keeps the tables and *)
(* rebuilds the memory from them.                                          *)
(*                                                                         *)
(* Left out: fares and distances (they decide nothing here), names,        *)
(* saved_locations, and the two log tables, which no handler decides by.   *)
(***************************************************************************)
EXTENDS Naturals, Sequences, NearestDrivers

CONSTANTS
    Riders,             \* rider accounts, by email
    DriverAccounts,     \* driver accounts, by email
    DemoDriver,         \* driver@demo.local, bound to D1 at start
    NoAccount,          \* the empty email
    Locations,          \* location ids of the campus graph
    MainGate,           \* MNIT_MAIN_GATE
    UnknownLocation,    \* "KB", the default of getDriverProfile: in no graph
    Vehicles,           \* vehicle codes
    DefaultVehicle,     \* SEDAN
    Trips,              \* the <<source, destination>> pairs riders ask for
    ProfileForms,       \* the <<vehicle, location>> pairs drivers submit
    Eta,                \* [<<from, to>> |-> minutes]; its domain: pairs with a route
    SeedCount,          \* drivers D1..Dn of initializeDemoState
    SeedLocation, SeedVehicle, SeedStatus,
    MaxMatches,         \* drivers a request is shown to: 3 in the code
    CancellationFee,    \* 30
    MaxRides, MaxDrivers, MaxStops,   \* bounds on ids and on stops per ride
    Faults              \* subset of FaultKinds: what may go wrong

\* crash:          the process dies between two steps (or is restarted)
\* crash_in_reset: it may die while clearAll is deleting
\* save_fails:     a statement that saves fails (SQLITE_BUSY, disk full) and nobody is told
\* clear_fails:    one of clearAll fails the same way, and clearAll throws
FaultKinds == {"crash", "crash_in_reset", "save_fails", "clear_fails"}

DriverStatuses == {"AVAILABLE", "ON_TRIP", "OFFLINE"}
RideStatuses   == {"REQUESTED", "DRIVER_ASSIGNED", "IN_PROGRESS",
                   "COMPLETED", "CANCELLED"}
Active   == {"DRIVER_ASSIGNED", "IN_PROGRESS"}
Finished == {"COMPLETED", "CANCELLED"}

\* Driver ids: Dn and DWEB-n are both written n; the seeds are 1..SeedCount and
\* nextDriverId starts at SeedCount, so the two never meet.  0 is "no driver".
NoDriver  == 0
Seeds     == 1 .. SeedCount
DriverIds == 1 .. MaxDrivers
RideIds   == 1 .. MaxRides

ASSUME BackendAssumption ==
    /\ DemoDriver \in DriverAccounts
    /\ NoAccount \notin DriverAccounts
    /\ MainGate \in Locations
    /\ UnknownLocation \notin Locations
    /\ DefaultVehicle \in Vehicles
    /\ Trips \subseteq {t \in Locations \X Locations : t[1] # t[2]}
    /\ ProfileForms \subseteq Vehicles \X Locations
    /\ DOMAIN Eta \subseteq Locations \X Locations
    /\ \A p \in DOMAIN Eta : Eta[p] \in Nat
    /\ SeedCount \in Nat \ {0}
    /\ SeedLocation \in [Seeds -> Locations]
    /\ SeedVehicle \in [Seeds -> Vehicles]
    /\ SeedStatus \in [Seeds -> DriverStatuses]
    /\ MaxMatches \in Nat
    /\ CancellationFee \in Nat
    /\ MaxRides \in Nat
    /\ MaxDrivers \in Nat /\ SeedCount <= MaxDrivers
    /\ MaxStops \in Nat
    /\ Faults \subseteq FaultKinds

VARIABLES
    \* memory of the process
    rides,          \* ride id -> ride (rides, rideById, cancellationFeeByRideId)
    drivers,        \* driver id -> driver (drivers, driverById)
    driverByEmail,  \* driver account -> driver id
    rideCounter, nextDriverId,
    pending,        \* writes the handler holding backendMutex has not made yet
    \* the SQLite file
    rideTable,      \* ride_history with ride_stops: id -> [ride, email]
    profiles,       \* driver_profiles: account -> [vehicle, location, availability]
    ratings,        \* ride_ratings: ride id -> driver_id of the row
    reasons,        \* cancel_reasons: the ride ids that have a row
    outdated        \* history variable: ride_history still has rows of rides that a reset
                    \* dropped from memory before its clearAll threw

memory == <<rides, drivers, driverByEmail, rideCounter, nextDriverId>>
tables == <<rideTable, profiles, ratings, reasons, outdated>>
vars == <<memory, pending, tables>>

RideType == [rider : Riders, vehicle : Vehicles, source : Locations,
             destination : Locations, stops : Seq(Locations),
             status : RideStatuses, driver : DriverIds \cup {NoDriver},
             fee : {0, CancellationFee}]
DriverType == [status : DriverStatuses, location : Locations, vehicle : Vehicles]
ProfileType == [vehicle : Vehicles, location : Locations \cup {UnknownLocation},
                availability : DriverStatuses]
RowType == [ride : RideType, email : DriverAccounts \cup {NoAccount}]

WriteType ==
    [op : {"saveRide", "saveCancelReason"}, key : RideIds] \cup
    [op : {"saveDriverProfile"}, key : DriverAccounts, row : ProfileType] \cup
    [op : {"saveRating"}, key : RideIds, row : DriverIds] \cup
    [op : {"clearAll"}, key : {"ride_stops", "ride_history", "ride_ratings", "cancel_reasons"}]

RidesOK ==
    /\ DOMAIN rides \subseteq RideIds
    /\ \A r \in DOMAIN rides : rides[r] \in RideType

DriversOK ==
    /\ Seeds \subseteq DOMAIN drivers /\ DOMAIN drivers \subseteq DriverIds
    /\ \A d \in DOMAIN drivers : drivers[d] \in DriverType

AccountsOK ==
    /\ DOMAIN driverByEmail \subseteq DriverAccounts
    /\ \A a \in DOMAIN driverByEmail : driverByEmail[a] \in DOMAIN drivers

CountersOK == rideCounter \in 0 .. MaxRides /\ nextDriverId \in 0 .. MaxDrivers

RideTableOK ==
    /\ DOMAIN rideTable \subseteq RideIds
    /\ \A r \in DOMAIN rideTable : rideTable[r] \in RowType

OtherTablesOK ==
    /\ DOMAIN profiles \subseteq DriverAccounts
    /\ \A a \in DOMAIN profiles : profiles[a] \in ProfileType
    /\ DOMAIN ratings \subseteq RideIds
    /\ \A r \in DOMAIN ratings : ratings[r] \in DriverIds
    /\ reasons \subseteq RideIds
    /\ outdated \in BOOLEAN

\* A ride is saved last, and is a ride of the memory.
PendingOK ==
    /\ pending \in Seq(WriteType)
    /\ \A i \in 1 .. Len(pending) : pending[i].op = "saveRide" =>
          i = Len(pending) /\ pending[i].key \in DOMAIN rides

\* Every variable holds what the program could store in it.
TypeOK ==
    /\ RidesOK
    /\ DriversOK
    /\ AccountsOK
    /\ CountersOK
    /\ PendingOK
    /\ RideTableOK
    /\ OtherTablesOK

-----------------------------------------------------------------------------
(* Tables and maps as functions whose domain grows *)

Empty == [x \in {} |-> x]
Put(f, k, v) == [x \in DOMAIN f \cup {k} |-> IF x = k THEN v ELSE f[x]]
Largest(S) == CHOOSE n \in S : \A m \in S : m <= n

-----------------------------------------------------------------------------
(* What a start of the process makes of the ride_history table T *)

RowsOf(T, d) == {r \in DOMAIN T : T[r].ride.driver = d}

BootRides_OnlyUnfinished(T) ==
    [r \in {q \in DOMAIN T : T[q].ride.status \notin Finished} |-> T[r].ride]

BootRides(T) == [r \in DOMAIN T |-> T[r].ride]

BootDriverIds(T) == Seeds \cup ({T[r].ride.driver : r \in DOMAIN T} \ {NoDriver})

\* Not read: driver_profiles.
BootStatus_NotReadingRides(T, d) == IF d \in Seeds THEN SeedStatus[d] ELSE "AVAILABLE"

BootStatus(T, d) ==
    IF \E r \in RowsOf(T, d) : T[r].ride.status \in Active THEN "ON_TRIP"
    ELSE IF d \in Seeds THEN SeedStatus[d] ELSE "AVAILABLE"

\* A driver known from history only stands at the main gate, with the vehicle of
\* a ride he served.
BootDrivers(T) ==
    [d \in BootDriverIds(T) |->
        [status |-> BootStatus(T, d),
         location |-> IF d \in Seeds THEN SeedLocation[d] ELSE MainGate,
         vehicle |-> IF d \in Seeds THEN SeedVehicle[d]
                     ELSE T[CHOOSE r \in RowsOf(T, d) : TRUE].ride.vehicle]]

RowsOfAccount(T, a) == {r \in DOMAIN T : T[r].email = a /\ T[r].ride.driver # NoDriver}

BootAccounts_OnlyDemo(T) == [a \in {DemoDriver} |-> 1]

BootAccounts(T) ==
    [a \in {DemoDriver} \cup {e \in DriverAccounts : RowsOfAccount(T, e) # {}} |->
        IF RowsOfAccount(T, a) = {} THEN 1
        ELSE T[CHOOSE r \in RowsOfAccount(T, a) : TRUE].ride.driver]

BootRideCounter_Zero(T) == 0
BootRideCounter(T) == Largest({0} \cup DOMAIN T)
BootNextDriver_Seeds(T) == SeedCount
BootNextDriver(T) == Largest({SeedCount} \cup BootDriverIds(T))

Init ==
    /\ rides = BootRides(Empty)
    /\ drivers = BootDrivers(Empty)
    /\ driverByEmail = BootAccounts(Empty)
    /\ rideCounter = BootRideCounter(Empty)
    /\ nextDriverId = BootNextDriver(Empty)
    /\ pending = <<>>
    /\ rideTable = Empty
    /\ profiles = Empty
    /\ ratings = Empty
    /\ reasons = {}
    /\ outdated = FALSE

\* Memory rebuilt from the table T, by a restart or by the demo reset.
Boot(T) ==
    /\ rides' = BootRides(T)
    /\ drivers' = BootDrivers(T)
    /\ driverByEmail' = BootAccounts(T)
    /\ rideCounter' = BootRideCounter(T)
    /\ nextDriverId' = BootNextDriver(T)

-----------------------------------------------------------------------------
(* Writes a handler issues *)

SaveRide(r) == [op |-> "saveRide", key |-> r]
SaveCancelReason(r) == [op |-> "saveCancelReason", key |-> r]
SaveDriverProfile(a, p) == [op |-> "saveDriverProfile", key |-> a, row |-> p]
SaveRating(r, d) == [op |-> "saveRating", key |-> r, row |-> d]
DeleteFrom(t) == [op |-> "clearAll", key |-> t]

\* clearAll, statement by statement, of the tables modelled here.
\* driver_profiles is not among them.
ClearAll_NotRatings == <<DeleteFrom("ride_stops"), DeleteFrom("ride_history"),
                         DeleteFrom("cancel_reasons")>>
ClearAll == <<DeleteFrom("ride_stops"), DeleteFrom("ride_history"),
              DeleteFrom("ride_ratings"), DeleteFrom("cancel_reasons")>>

MutexFree == pending = <<>>

EmailForDriver(d) ==
    IF \E a \in DOMAIN driverByEmail : driverByEmail[a] = d
    THEN CHOOSE a \in DOMAIN driverByEmail : driverByEmail[a] = d
    ELSE NoAccount

Snapshot(r) == [ride |-> rides[r], email |-> EmailForDriver(rides[r].driver)]

-----------------------------------------------------------------------------
(* Riders *)

HasActiveRide(d) == \E r \in DOMAIN rides : rides[r].driver = d /\ rides[r].status \in Active

NewRide(a, v, src, dst) ==
    [rider |-> a, vehicle |-> v, source |-> src, destination |-> dst,
     stops |-> <<>>, status |-> "REQUESTED", driver |-> NoDriver, fee |-> 0]

\* RideService::createRide, then push_back, rideById and persistRide.
CreateRide(ride) ==
    /\ rideCounter < MaxRides
    /\ rideCounter' = rideCounter + 1
    /\ rides' = Put(rides, rideCounter + 1, ride)
    /\ pending' = <<SaveRide(rideCounter + 1)>>
    /\ UNCHANGED <<drivers, driverByEmail, nextDriverId, tables>>

CreateRideForRider(a, trip, v) ==
    /\ MutexFree
    /\ CreateRide(NewRide(a, v, trip[1], trip[2]))

OwnedBy(a, r) == r \in DOMAIN rides /\ rides[r].rider = a

\* No look at the status of the original ride.
RebookRideForRider(a, r) ==
    /\ MutexFree
    /\ OwnedBy(a, r)
    /\ CreateRide(NewRide(a, rides[r].vehicle, rides[r].source, rides[r].destination))

\* findNearestDrivers: the drivers that may enter the heap, and those that are
\* in it at the end.  Which of two equally far drivers stays is not specified.
Candidates_AnyStatus(ds, r) ==
    {d \in DOMAIN ds : /\ ds[d].vehicle = rides[r].vehicle
                       /\ <<ds[d].location, rides[r].source>> \in DOMAIN Eta}

Candidates(ds, r) ==
    {d \in DOMAIN ds : /\ ds[d].status = "AVAILABLE"
                       /\ ds[d].vehicle = rides[r].vehicle
                       /\ <<ds[d].location, rides[r].source>> \in DOMAIN Eta}

EtaOf(ds, r) == [d \in Candidates(ds, r) |-> Eta[<<ds[d].location, rides[r].source>>]]

Matched(ds, r) == NearEnough(Candidates(ds, r), EtaOf(ds, r), MaxMatches)

\* matches.front(): a nearest of them.
Nearest(ds, r) ==
    {d \in Matched(ds, r) : \A e \in Candidates(ds, r) : EtaOf(ds, r)[d] <= EtaOf(ds, r)[e]}

\* RideService::assignDriver on the drivers ds: no guard of its own.
AssignDriver(ds, r, d) ==
    /\ rides' = [rides EXCEPT ![r].driver = d, ![r].status = "DRIVER_ASSIGNED"]
    /\ drivers' = [ds EXCEPT ![d].status = "ON_TRIP"]

AssignNearestForRider(a, r) ==
    /\ MutexFree
    /\ OwnedBy(a, r)
    /\ rides[r].status = "REQUESTED"
    /\ \E d \in Nearest(drivers, r) : AssignDriver(drivers, r, d)
    /\ pending' = <<SaveRide(r)>>
    /\ UNCHANGED <<driverByEmail, rideCounter, nextDriverId, tables>>

Unfinished_NotCompleted(r) == rides[r].status # "COMPLETED"
Unfinished(r) == rides[r].status \notin Finished

AddStopForRider(a, r, l) ==
    /\ MutexFree
    /\ OwnedBy(a, r)
    /\ Unfinished(r)
    /\ Len(rides[r].stops) < MaxStops
    /\ rides' = [rides EXCEPT ![r].stops = Append(@, l)]
    /\ pending' = <<SaveRide(r)>>
    /\ UNCHANGED <<drivers, driverByEmail, rideCounter, nextDriverId, tables>>

FreeDriver(ds, d) == IF d = NoDriver THEN ds ELSE [ds EXCEPT ![d].status = "AVAILABLE"]

FeeFor_StartedOnly(r) == IF rides[r].status = "IN_PROGRESS" THEN CancellationFee ELSE 0
FeeFor(r) == IF rides[r].status \in Active THEN CancellationFee ELSE 0

\* RideService::cancelRide and the fee its callers record.
CancelRide(r) ==
    /\ Unfinished(r)
    /\ rides' = [rides EXCEPT ![r].status = "CANCELLED", ![r].fee = FeeFor(r)]
    /\ drivers' = FreeDriver(drivers, rides[r].driver)
    /\ UNCHANGED <<driverByEmail, rideCounter, nextDriverId, tables>>

\* A reason is written before the ride is.
CancelRideForRider(a, r, hasReason) ==
    /\ MutexFree
    /\ OwnedBy(a, r)
    /\ CancelRide(r)
    /\ pending' = (IF hasReason THEN <<SaveCancelReason(r)>> ELSE <<>>) \o <<SaveRide(r)>>

RateRideForRider(a, r) ==
    /\ MutexFree
    /\ OwnedBy(a, r)
    /\ rides[r].status = "COMPLETED"
    /\ rides[r].driver # NoDriver
    /\ pending' = <<SaveRating(r, rides[r].driver)>>
    /\ UNCHANGED <<memory, tables>>

-----------------------------------------------------------------------------
(* Drivers.  Every handler of a driver account begins with                 *)
(* ensureDriverForAccount, which binds the account to a driver, creates    *)
(* the profile row if there is none, and copies the profile's location     *)
(* and availability into the driver.                                       *)

Bound(a) == a \in DOMAIN driverByEmail

Me(a) == IF Bound(a) THEN driverByEmail[a] ELSE nextDriverId + 1

ProfileOf(a) ==
    IF a \in DOMAIN profiles THEN profiles[a]
    ELSE IF Bound(a)
    THEN [vehicle |-> drivers[driverByEmail[a]].vehicle,
          location |-> drivers[driverByEmail[a]].location,
          availability |-> "AVAILABLE"]
    ELSE [vehicle |-> DefaultVehicle, location |-> UnknownLocation,
          availability |-> "AVAILABLE"]

ParsedStatus == {"AVAILABLE", "OFFLINE"}    \* what parseDriverStatus accepts

EnsuredStatus_NoRideCheck(a) ==
    IF ProfileOf(a).availability \in ParsedStatus THEN ProfileOf(a).availability
    ELSE IF Bound(a) THEN drivers[Me(a)].status ELSE "AVAILABLE"

\* The profile's availability, unless the driver serves a ride.
EnsuredStatus(a) ==
    IF /\ ProfileOf(a).availability \in ParsedStatus
       /\ Bound(a) => ~HasActiveRide(Me(a))
    THEN ProfileOf(a).availability
    ELSE IF Bound(a) THEN drivers[Me(a)].status ELSE "AVAILABLE"

EnsuredLocation_Unchecked(a) == ProfileOf(a).location

EnsuredLocation(a) ==
    IF ProfileOf(a).location \in Locations THEN ProfileOf(a).location
    ELSE IF Bound(a) THEN drivers[Me(a)].location ELSE MainGate

EnsuredDrivers(a) ==
    Put(drivers, Me(a),
        [status |-> EnsuredStatus(a),
         location |-> EnsuredLocation(a),
         vehicle |-> IF Bound(a) THEN drivers[Me(a)].vehicle ELSE ProfileOf(a).vehicle])

ProfileInsert(a) ==
    IF a \in DOMAIN profiles THEN <<>> ELSE <<SaveDriverProfile(a, ProfileOf(a))>>

\* The part of ensureDriverForAccount every driver action shares; the caller
\* says what becomes of the drivers it returns.
EnsureDriverForAccount(a) ==
    /\ MutexFree
    /\ Me(a) \in DriverIds
    /\ driverByEmail' = Put(driverByEmail, a, Me(a))
    /\ nextDriverId' = IF Bound(a) THEN nextDriverId ELSE Me(a)
    /\ UNCHANGED <<rideCounter, tables>>

\* GET /api/driver/state, and every driver request that is refused after
\* ensureDriverForAccount.
DriverState(a) ==
    /\ EnsureDriverForAccount(a)
    /\ drivers' = EnsuredDrivers(a)
    /\ pending' = ProfileInsert(a)
    /\ UNCHANGED rides

\* The vehicle goes to the profile only.
UpdateDriverProfileForAccount(a, v, l) ==
    /\ EnsureDriverForAccount(a)
    /\ ~HasActiveRide(Me(a))
    /\ drivers' = [EnsuredDrivers(a) EXCEPT ![Me(a)].location = l]
    /\ pending' = ProfileInsert(a) \o
         <<SaveDriverProfile(a, [vehicle |-> v, location |-> l,
                                 availability |-> EnsuredDrivers(a)[Me(a)].status])>>
    /\ UNCHANGED rides

SetDriverStatusForAccount(a, s) ==
    /\ s \in ParsedStatus
    /\ EnsureDriverForAccount(a)
    /\ ~HasActiveRide(Me(a))
    /\ drivers' = [EnsuredDrivers(a) EXCEPT ![Me(a)].status = s]
    /\ pending' = ProfileInsert(a) \o
         <<SaveDriverProfile(a, [ProfileOf(a) EXCEPT !.availability = s])>>
    /\ UNCHANGED rides

DriverCanSeeRequest(ds, d, r) ==
    /\ rides[r].status = "REQUESTED"
    /\ ds[d].status = "AVAILABLE"
    /\ d \in Matched(ds, r)

\* A rejection is only written to driver_status_logs.
RejectRideForDriver(a, r) ==
    /\ r \in DOMAIN rides
    /\ EnsureDriverForAccount(a)
    /\ DriverCanSeeRequest(EnsuredDrivers(a), Me(a), r)
    /\ drivers' = EnsuredDrivers(a)
    /\ pending' = ProfileInsert(a)
    /\ UNCHANGED rides

AcceptRideForDriver(a, r) ==
    /\ r \in DOMAIN rides
    /\ EnsureDriverForAccount(a)
    /\ rides[r].status = "REQUESTED"
    /\ EnsuredDrivers(a)[Me(a)].status = "AVAILABLE"
    /\ DriverCanSeeRequest(EnsuredDrivers(a), Me(a), r)
    /\ AssignDriver(EnsuredDrivers(a), r, Me(a))
    /\ pending' = ProfileInsert(a) \o <<SaveRide(r)>>

DrivenBy(a, r) == r \in DOMAIN rides /\ rides[r].driver = Me(a)

StartRideForDriver(a, r) ==
    /\ EnsureDriverForAccount(a)
    /\ DrivenBy(a, r)
    /\ rides[r].status = "DRIVER_ASSIGNED"
    /\ rides' = [rides EXCEPT ![r].status = "IN_PROGRESS"]
    /\ drivers' = EnsuredDrivers(a)
    /\ pending' = ProfileInsert(a) \o <<SaveRide(r)>>

CompleteRideForDriver(a, r) ==
    /\ EnsureDriverForAccount(a)
    /\ DrivenBy(a, r)
    /\ rides[r].status = "IN_PROGRESS"
    /\ rides' = [rides EXCEPT ![r].status = "COMPLETED"]
    /\ drivers' = FreeDriver(EnsuredDrivers(a), Me(a))
    /\ pending' = ProfileInsert(a) \o <<SaveRide(r)>>

-----------------------------------------------------------------------------
(* The administrator *)

\* Memory only: the profile row keeps its availability.
SetDriverStatusAsAdmin(d, s) ==
    /\ MutexFree
    /\ d \in DOMAIN drivers
    /\ s \in ParsedStatus
    /\ ~HasActiveRide(d)
    /\ drivers' = [drivers EXCEPT ![d].status = s]
    /\ UNCHANGED <<rides, driverByEmail, rideCounter, nextDriverId, pending, tables>>

CancelRideAsAdmin(r) ==
    /\ MutexFree
    /\ r \in DOMAIN rides
    /\ CancelRide(r)
    /\ pending' = <<SaveRide(r)>>

\* Memory is reseeded first; the tables are cleared one by one after.
Reset ==
    /\ MutexFree
    /\ Boot(Empty)
    /\ pending' = ClearAll
    /\ UNCHANGED tables

-----------------------------------------------------------------------------
(* The store, and the end of the process *)

Doing(op) == pending # <<>> /\ Head(pending).op = op /\ pending' = Tail(pending)
Subject == Head(pending).key
Clearing == pending # <<>> /\ Head(pending).op = "clearAll"

\* One transaction: the row and its stops, as the ride is in memory now.
WriteRide ==
    /\ Doing("saveRide")
    /\ rideTable' = Put(rideTable, Subject, Snapshot(Subject))
    /\ UNCHANGED <<memory, profiles, ratings, reasons, outdated>>

\* A failed upsert is rolled back; the request still succeeds.
WriteRideFails ==
    /\ "save_fails" \in Faults
    /\ Doing("saveRide")
    /\ UNCHANGED <<memory, tables>>

\* Nor does anybody look at the result of the other writes.
WriteIsLost ==
    /\ "save_fails" \in Faults
    /\ \E op \in {"saveDriverProfile", "saveRating", "saveCancelReason"} : Doing(op)
    /\ UNCHANGED <<memory, tables>>

WriteDriverProfile ==
    /\ Doing("saveDriverProfile")
    /\ profiles' = Put(profiles, Subject, Head(pending).row)
    /\ UNCHANGED <<memory, rideTable, ratings, reasons, outdated>>

\* The upsert replaces stars and comment; driver_id stays that of the first row.
WriteRating ==
    /\ Doing("saveRating")
    /\ ratings' = IF Subject \in DOMAIN ratings THEN ratings
                  ELSE Put(ratings, Subject, Head(pending).row)
    /\ UNCHANGED <<memory, rideTable, profiles, reasons, outdated>>

WriteCancelReason ==
    /\ Doing("saveCancelReason")
    /\ reasons' = reasons \cup {Subject}
    /\ UNCHANGED <<memory, rideTable, profiles, ratings, outdated>>

ClearTable ==
    /\ Doing("clearAll")
    /\ rideTable' = CASE Subject = "ride_stops" ->
                           [r \in DOMAIN rideTable |-> [rideTable[r] EXCEPT !.ride.stops = <<>>]]
                      [] Subject = "ride_history" -> Empty
                      [] OTHER -> rideTable
    /\ ratings' = IF Subject = "ride_ratings" THEN Empty ELSE ratings
    /\ reasons' = IF Subject = "cancel_reasons" THEN {} ELSE reasons
    /\ outdated' = (outdated /\ Subject # "ride_history")
    /\ UNCHANGED <<memory, profiles>>

\* execute throws: the rest is not deleted, the request is answered 500, and the
\* process goes on with the memory that was reseeded before.
ClearTableThrows ==
    /\ "clear_fails" \in Faults
    /\ Clearing
    /\ pending' = <<>>
    /\ outdated' = (outdated \/ DOMAIN rideTable # {})
    /\ UNCHANGED <<memory, rideTable, profiles, ratings, reasons>>

Crash ==
    /\ "crash" \in Faults
    /\ Clearing => "crash_in_reset" \in Faults
    /\ Boot(rideTable)
    /\ pending' = <<>>
    /\ UNCHANGED tables

-----------------------------------------------------------------------------

RiderStep(a) ==
    \/ \E trip \in Trips, v \in Vehicles : CreateRideForRider(a, trip, v)
    \/ \E r \in DOMAIN rides :
          \/ RebookRideForRider(a, r)
          \/ AssignNearestForRider(a, r)
          \/ \E l \in Locations : AddStopForRider(a, r, l)
          \/ \E hasReason \in BOOLEAN : CancelRideForRider(a, r, hasReason)
          \/ RateRideForRider(a, r)

DriverStep(a) ==
    \/ DriverState(a)
    \/ \E f \in ProfileForms : UpdateDriverProfileForAccount(a, f[1], f[2])
    \/ \E s \in ParsedStatus : SetDriverStatusForAccount(a, s)
    \/ \E r \in DOMAIN rides :
          \/ RejectRideForDriver(a, r)
          \/ AcceptRideForDriver(a, r)
          \/ StartRideForDriver(a, r)
          \/ CompleteRideForDriver(a, r)

AdminStep ==
    \/ \E d \in DOMAIN drivers, s \in ParsedStatus : SetDriverStatusAsAdmin(d, s)
    \/ \E r \in DOMAIN rides : CancelRideAsAdmin(r)
    \/ Reset

StoreStep ==
    \/ WriteRide
    \/ WriteRideFails
    \/ WriteIsLost
    \/ WriteDriverProfile
    \/ WriteRating
    \/ WriteCancelReason
    \/ ClearTable
    \/ ClearTableThrows

Next ==
    \/ \E a \in Riders : RiderStep(a)
    \/ \E a \in DriverAccounts : DriverStep(a)
    \/ AdminStep
    \/ StoreStep
    \/ Crash

Spec == Init /\ [][Next]_vars

-----------------------------------------------------------------------------
(* Properties *)

\* No driver serves two rides at once.  acceptRideForDriver and
\* assignNearestForRider race for the same driver, and ensureDriverForAccount,
\* setDriverStatusAsAdmin, cancelRide and a restart all rewrite his status.
ActiveExclusive ==
    \A q, r \in DOMAIN rides :
        /\ rides[q].status \in Active /\ rides[r].status \in Active
        /\ rides[q].driver = rides[r].driver
        => q = r

\* A driver is ON_TRIP exactly while he serves a ride; the only exception is a
\* driver seeded ON_TRIP (D6), who serves nobody until the administrator acts.
BusyIffServing ==
    \A d \in DOMAIN drivers :
        /\ HasActiveRide(d) => drivers[d].status = "ON_TRIP"
        /\ drivers[d].status = "ON_TRIP" =>
               HasActiveRide(d) \/ (d \in Seeds /\ SeedStatus[d] = "ON_TRIP")

\* A ride has a driver from its assignment on and not before, whichever handler
\* or restart touched it: cancelRide frees whatever driver the ride points to.
\* And a cancelled ride was charged exactly if it had one.
DriverFromAssignmentOn ==
    \A r \in DOMAIN rides :
        /\ rides[r].status = "REQUESTED" => rides[r].driver = NoDriver
        /\ rides[r].status \in Active \cup {"COMPLETED"} => rides[r].driver \in DOMAIN drivers
        /\ rides[r].status = "CANCELLED" =>
               rides[r].fee = IF rides[r].driver = NoDriver THEN 0 ELSE CancellationFee

\* At no point, so after no crash, do two active rows of ride_history name the
\* same driver: a restart never brings a driver back to two rides.
StoreExclusive ==
    \A q, r \in DOMAIN rideTable :
        /\ rideTable[q].ride.status \in Active /\ rideTable[r].ride.status \in Active
        /\ rideTable[q].ride.driver = rideTable[r].ride.driver
        => q = r

\* Whenever no handler is running, ride_history is exactly the memory; while
\* one runs they differ in the ride it has yet to save, or in what the reset
\* has yet to delete.  This is what a restart relies on.
StoreInStep ==
    ~Clearing =>
        /\ DOMAIN rideTable \subseteq DOMAIN rides
        /\ \A r \in DOMAIN rides :
              \/ r \in DOMAIN rideTable /\ rideTable[r] = Snapshot(r)
              \/ pending # <<>> /\ pending[Len(pending)] = SaveRide(r)

\* nextDriverId falls back at every restart to the largest id history knows, so
\* DWEB ids are handed out again; still no two accounts ever share a driver,
\* and history never names one driver under two accounts or two vehicles.  Only a
\* reset whose clearAll throws can bring that about, as it sets nextDriverId back
\* below ids that ride_history still names; the next reset that gets through ends it.
OneAccountPerDriver ==
    outdated \/
    /\ \A a, b \in DOMAIN driverByEmail : driverByEmail[a] = driverByEmail[b] => a = b
    /\ \A q, r \in DOMAIN rideTable :
          LET x == rideTable[q]  y == rideTable[r] IN
          /\ x.ride.driver # NoDriver /\ x.ride.driver = y.ride.driver =>
                x.email = y.email /\ x.ride.vehicle = y.ride.vehicle
          /\ x.email # NoAccount /\ x.email = y.email => x.ride.driver = y.ride.driver

\* The row of a ride stays that ride's row: over crashes and restarts, which
\* recompute the ride counter, no other ride is ever saved under its id, its
\* driver never changes, and its stops are only added to.
DurableIdentity ==
    [][\A r \in DOMAIN rideTable \cap DOMAIN rideTable' :
          LET old == rideTable[r].ride  new == rideTable'[r].ride IN
          /\ <<old.rider, old.vehicle, old.source, old.destination>> =
                <<new.rider, new.vehicle, new.source, new.destination>>
          /\ old.driver \in {NoDriver, new.driver}
          /\ Clearing \/ SubSeq(new.stops, 1, Len(old.stops)) = old.stops]_vars

\* A rating shown with a ride was given to that ride: it is completed, and the
\* driver the rating counts for is the one who drove it.
RatingsBelong ==
    \A r \in DOMAIN ratings \cap DOMAIN rides :
        rides[r].status = "COMPLETED" /\ rides[r].driver = ratings[r]

\* AI_HANDOFF.md:111, "new ride IDs do not collide with saved history": the id
\* of a ride that is created names nothing in the store.
NewIdsAreNew ==
    [][\A r \in DOMAIN rides' \ (DOMAIN rides \cup DOMAIN rideTable) :
          r \notin DOMAIN ratings /\ r \notin reasons]_vars

\* The durable history is a ledger in the sense of RideLifecycle: whatever
\* crashes, and however often, a saved ride only moves forward, keeps its
\* driver, is charged the fee exactly when it is cancelled after assignment,
\* and is never altered once it has ended.
Ledger == INSTANCE RideLifecycle WITH
    ledger <- [r \in DOMAIN rideTable |->
                 [status |-> rideTable[r].ride.status,
                  driver |-> rideTable[r].ride.driver,
                  fee    |-> rideTable[r].ride.fee]],
    LedgerRides <- RideIds, LedgerDrivers <- DriverIds,
    Unassigned <- NoDriver, Fee <- CancellationFee

DurableLifecycle == Ledger!LedgerSpec
=============================================================================
