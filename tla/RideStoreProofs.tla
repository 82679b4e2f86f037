-------------------------- MODULE RideStoreProofs --------------------------
(***************************************************************************)
(* What every handler of DemoRideBackend does to rides, drivers and        *)
(* account bindings, in one lemma (HandlerDoes), and what follows from it  *)
(* whatever fails: a ride has a driver from its assignment on, and no two  *)
(* accounts ever share a driver, although driver numbers are handed out    *)
(* again after a restart.  The second holds by AInv, which a clearAll that *)
(* throws can end: rows of rides that are gone then stand beside a memory  *)
(* that was reseeded.  BaseInv is what no failure ends, and from it the    *)
(* next reset that gets through restores AInv.                             *)
(*                                                                         *)
(* Then what the store has when no statement fails: between two handlers   *)
(* exactly the memory, over all crashes and restarts a history that        *)
(* implements RideLifecycle, and ratings that belong to their rides.  A    *)
(* row is at most one handler behind its ride (InStep), so that writing it *)
(* is one move of the ledger; that an assignment of the ledger takes a     *)
(* driver who serves nobody needs the exclusivity of the memory, and that  *)
(* it gives one to a ride without any needs the account invariant.         *)
(***************************************************************************)
EXTENDS RideBackendProofs

-----------------------------------------------------------------------------
(* What a handler may do *)

\* A ride as createRide makes it.
Fresh(x) == x.status = "REQUESTED" /\ x.driver = NoDriver /\ x.fee = 0

\* What one handler can make of the ride x: another stop, an assignment, a start, a
\* completion or a cancellation.
Moves(x, y) ==
    /\ y.rider = x.rider /\ y.vehicle = x.vehicle
    /\ y.source = x.source /\ y.destination = x.destination
    /\ \/ /\ x.status \notin Finished
          /\ \E l \in Locations : y.stops = Append(x.stops, l)
          /\ y.status = x.status /\ y.driver = x.driver /\ y.fee = x.fee
       \/ /\ y.stops = x.stops
          /\ \/ /\ x.status = "REQUESTED" /\ y.status = "DRIVER_ASSIGNED"
                /\ y.driver \in DriverIds /\ y.fee = x.fee
             \/ /\ \/ x.status = "DRIVER_ASSIGNED" /\ y.status = "IN_PROGRESS"
                   \/ x.status = "IN_PROGRESS" /\ y.status = "COMPLETED"
                /\ y.driver = x.driver /\ y.fee = x.fee
             \/ /\ x.status \notin Finished /\ y.status = "CANCELLED"
                /\ y.driver = x.driver
                /\ y.fee = IF x.status \in Active THEN CancellationFee ELSE 0

\* The last write to come is that of the ride r.
Saves(r) == pending # <<>> /\ pending[Len(pending)] = SaveRide(r)

\* The driver of a ride is known, and has the vehicle that was asked for.
Served(x) == x.driver # NoDriver => x.driver \in DOMAIN drivers /\ drivers[x.driver].vehicle = x.vehicle

RidesStep ==
    /\ \/ rideCounter' = rideCounter /\ DOMAIN rides' = DOMAIN rides
       \/ rideCounter' = rideCounter + 1 /\ DOMAIN rides' = DOMAIN rides \cup {rideCounter + 1}
    /\ \A q \in DOMAIN rides : rides'[q] = rides[q] \/ (Saves(q)' /\ Moves(rides[q], rides'[q]))
    /\ \A q \in DOMAIN rides' \ DOMAIN rides : Saves(q)' /\ Fresh(rides'[q])

DriversStep ==
    /\ DOMAIN drivers \subseteq DOMAIN drivers'
    /\ \A d \in DOMAIN drivers : drivers'[d].vehicle = drivers[d].vehicle
    /\ \A q \in DOMAIN rides : rides'[q].driver = rides[q].driver \/ Served(rides[q])'

\* At most one account is bound, to a number that no driver has.
AccountsStep ==
    \/ /\ DOMAIN driverByEmail' = DOMAIN driverByEmail
       /\ \A b \in DOMAIN driverByEmail : driverByEmail'[b] = driverByEmail[b]
       /\ DOMAIN drivers' = DOMAIN drivers
       /\ nextDriverId' = nextDriverId
    \/ /\ nextDriverId' = nextDriverId + 1
       /\ DOMAIN drivers' = DOMAIN drivers \cup {nextDriverId + 1}
       /\ \E a \in DriverAccounts \ DOMAIN driverByEmail :
             driverByEmail' = Put(driverByEmail, a, nextDriverId + 1)

Handler ==
    /\ MutexFree /\ UNCHANGED tables
    /\ \A i \in 1 .. Len(pending') : pending'[i].op # "clearAll"
    /\ RidesStep
    /\ DriversStep
    /\ AccountsStep

\* A handler that leaves drivers and accounts alone.
LEMMA DriversKept ==
    ASSUME UNCHANGED <<drivers, driverByEmail, nextDriverId>>,
           \A q \in DOMAIN rides : rides'[q].driver = rides[q].driver
    PROVE  DriversStep /\ AccountsStep
BY DEF DriversStep, AccountsStep

\* A handler that leaves the rides alone.
LEMMA RidesKept ==
    ASSUME UNCHANGED <<rides, rideCounter>>
    PROVE  RidesStep
BY DEF RidesStep

\* A handler that changes one ride and saves it last.
LEMMA RideMoved ==
    ASSUME TypeOK, NEW r \in DOMAIN rides, DOMAIN rides' = DOMAIN rides, UNCHANGED rideCounter,
           \A q \in DOMAIN rides : q # r => rides'[q] = rides[q],
           Moves(rides[r], rides'[r]),
           NEW s \in Seq(WriteType), pending' = s \o <<SaveRide(r)>>,
           \A i \in 1 .. Len(s) : s[i].op # "clearAll"
    PROVE  RidesStep /\ \A i \in 1 .. Len(pending') : pending'[i].op # "clearAll"
<1>1. SaveRide(r) \in WriteType /\ SaveRide(r).op # "clearAll"
  BY WriteFacts DEF TypeOK, RidesOK
<1>2. Saves(r)' /\ \A i \in 1 .. Len(pending') : pending'[i].op # "clearAll"
  BY <1>1, LastOf DEF Saves
<1> QED
  BY <1>2 DEF RidesStep

\* RideService::createRide, whichever ride it is.
LEMMA CreateDoes ==
    ASSUME TypeOK, IdsIssued, MutexFree, NEW x \in RideType, Fresh(x), CreateRide(x)
    PROVE  Handler
<1>1. rideCounter + 1 \in RideIds /\ rideCounter + 1 \notin DOMAIN rides
  <2>1. rideCounter \in Nat /\ \A q \in DOMAIN rides : q \in Nat /\ q <= rideCounter
    BY BackendAssumption DEF TypeOK, CountersOK, RidesOK, RideIds, IdsIssued
  <2> QED
    BY <2>1, BackendAssumption DEF CreateRide, RideIds
<1>2. PICK n \in RideIds : n = rideCounter + 1 /\ n \notin DOMAIN rides
  BY <1>1
<1>3. /\ pending' = <<SaveRide(n)>>
      /\ UNCHANGED <<drivers, driverByEmail, nextDriverId, tables>>
      /\ rides' = Put(rides, n, x)
      /\ rideCounter' = rideCounter + 1
  BY <1>2 DEF CreateRide
<1>4. /\ DOMAIN rides' = DOMAIN rides \cup {n}
      /\ rides'[n] = x
      /\ \A q \in DOMAIN rides : rides'[q] = rides[q]
  BY <1>2, <1>3 DEF Put
<1>5. SaveRide(n) \in WriteType /\ SaveRide(n).op = "saveRide"
  BY WriteFacts
<1>6. Len(pending') = 1 /\ pending'[1] = SaveRide(n) /\ pending' # <<>>
  BY <1>3
<1>7. Saves(n)' /\ \A i \in 1 .. Len(pending') : pending'[i].op # "clearAll"
  BY <1>5, <1>6 DEF Saves
<1>8. RidesStep
  BY <1>2, <1>3, <1>4, <1>7 DEF RidesStep
<1>9. DriversStep /\ AccountsStep
  BY <1>3, <1>4, DriversKept
<1> QED
  BY <1>3, <1>7, <1>8, <1>9 DEF Handler

\* RideService::cancelRide frees a driver; his vehicle stays.
LEMMA FreedVehicle ==
    ASSUME NEW ds, NEW d, \A e \in DOMAIN ds : ds[e] \in DriverType
    PROVE  /\ DOMAIN FreeDriver(ds, d) = DOMAIN ds
           /\ \A e \in DOMAIN ds : FreeDriver(ds, d)[e].vehicle = ds[e].vehicle
BY DEF FreeDriver, DriverType

\* RideService::cancelRide, on behalf of a rider or of the administrator.
LEMMA CancelDoes ==
    ASSUME TypeOK, NEW r \in DOMAIN rides, CancelRide(r), MutexFree,
           NEW before \in Seq(WriteType), \A i \in 1 .. Len(before) : before[i].op # "clearAll",
           pending' = before \o <<SaveRide(r)>>
    PROVE  Handler
<1>1. rides[r] \in RideType /\ Unfinished(r) /\ UNCHANGED <<driverByEmail, rideCounter, nextDriverId, tables>>
  BY DEF CancelRide, TypeOK, RidesOK
<1>2. /\ DOMAIN rides' = DOMAIN rides
      /\ \A q \in DOMAIN rides : q # r => rides'[q] = rides[q]
      /\ rides'[r] = [rides[r] EXCEPT !.status = "CANCELLED", !.fee = FeeFor(r)]
  BY DEF CancelRide
<1>3. Moves(rides[r], rides'[r])
  BY <1>1, <1>2 DEF Moves, RideType, Unfinished, FeeFor
<1>4. RidesStep /\ \A i \in 1 .. Len(pending') : pending'[i].op # "clearAll"
  BY <1>1, <1>2, <1>3, RideMoved
<1>5. /\ DOMAIN drivers' = DOMAIN drivers
      /\ \A d \in DOMAIN drivers : drivers'[d].vehicle = drivers[d].vehicle
  BY FreedVehicle DEF CancelRide, TypeOK, DriversOK
<1>6. \A q \in DOMAIN rides : rides'[q].driver = rides[q].driver
  BY <1>1, <1>2 DEF RideType
<1>7. DriversStep /\ AccountsStep
  BY <1>1, <1>5, <1>6 DEF DriversStep, AccountsStep
<1> QED
  BY <1>1, <1>4, <1>7 DEF Handler

\* The rider's handlers.
LEMMA RiderDoes ==
    ASSUME TypeOK, IdsIssued, NEW a \in Riders, RiderStep(a)
    PROVE  Handler
<1>1. ASSUME NEW trip \in Trips, NEW v \in Vehicles, CreateRideForRider(a, trip, v)
      PROVE  Handler
  <2>1. trip[1] \in Locations /\ trip[2] \in Locations
    BY BackendAssumption
  <2>2. NewRide(a, v, trip[1], trip[2]) \in RideType /\ Fresh(NewRide(a, v, trip[1], trip[2]))
    BY <2>1, NewRideTyped DEF NewRide, Fresh
  <2> QED
    BY <1>1, <2>2, CreateDoes DEF CreateRideForRider
<1>2. ASSUME NEW r \in DOMAIN rides, RebookRideForRider(a, r)
      PROVE  Handler
  <2> DEFINE x == NewRide(a, rides[r].vehicle, rides[r].source, rides[r].destination)
  <2>1. x \in RideType /\ Fresh(x)
    BY NewRideTyped DEF TypeOK, RidesOK, RideType, NewRide, Fresh
  <2> QED
    BY <1>2, <2>1, CreateDoes DEF RebookRideForRider
<1>3. <<>> \in Seq(WriteType) /\ \A i \in 1 .. Len(<<>>) : <<>>[i].op # "clearAll"
  OBVIOUS
<1>4. ASSUME NEW r \in DOMAIN rides, AssignNearestForRider(a, r)
      PROVE  Handler
  <2>1. PICK d \in Nearest(drivers, r) : AssignDriver(drivers, r, d)
    BY <1>4 DEF AssignNearestForRider
  <2>2. /\ d \in DOMAIN drivers /\ d \in DriverIds /\ drivers[d].vehicle = rides[r].vehicle
        /\ drivers[d] \in DriverType
    BY <2>1 DEF Nearest, Matched, NearEnough, Candidates, TypeOK, DriversOK
  <2>3. /\ MutexFree /\ rides[r].status = "REQUESTED" /\ rides[r] \in RideType
        /\ pending' = <<>> \o <<SaveRide(r)>>
        /\ UNCHANGED <<driverByEmail, rideCounter, nextDriverId, tables>>
    BY <1>4 DEF AssignNearestForRider, TypeOK, RidesOK
  <2>4. /\ DOMAIN rides' = DOMAIN rides
        /\ \A q \in DOMAIN rides : q # r => rides'[q] = rides[q]
        /\ rides'[r] = [rides[r] EXCEPT !.driver = d, !.status = "DRIVER_ASSIGNED"]
    BY <2>1 DEF AssignDriver
  <2>5. Moves(rides[r], rides'[r])
    BY <2>2, <2>3, <2>4 DEF Moves, RideType
  <2>6. RidesStep /\ \A i \in 1 .. Len(pending') : pending'[i].op # "clearAll"
    BY <1>3, <2>3, <2>4, <2>5, RideMoved
  <2>7. /\ DOMAIN drivers' = DOMAIN drivers
        /\ \A e \in DOMAIN drivers : drivers'[e].vehicle = drivers[e].vehicle
    BY <2>1 DEF AssignDriver, TypeOK, DriversOK, DriverType
  <2>8. Served(rides[r])'
    BY <2>2, <2>3, <2>4, <2>7 DEF Served, RideType
  <2>9. DriversStep /\ AccountsStep
    BY <2>3, <2>4, <2>7, <2>8 DEF DriversStep, AccountsStep
  <2> QED
    BY <2>3, <2>6, <2>9 DEF Handler
<1>5. ASSUME NEW r \in DOMAIN rides, NEW l \in Locations, AddStopForRider(a, r, l)
      PROVE  Handler
  <2>1. /\ MutexFree /\ Unfinished(r) /\ rides[r] \in RideType
        /\ rides' = [rides EXCEPT ![r].stops = Append(@, l)]
        /\ pending' = <<>> \o <<SaveRide(r)>>
        /\ UNCHANGED <<drivers, driverByEmail, rideCounter, nextDriverId, tables>>
    BY <1>5 DEF AddStopForRider, TypeOK, RidesOK
  <2>2. /\ DOMAIN rides' = DOMAIN rides
        /\ \A q \in DOMAIN rides : q # r => rides'[q] = rides[q]
        /\ rides'[r] = [rides[r] EXCEPT !.stops = Append(rides[r].stops, l)]
    BY <2>1
  <2>3. Moves(rides[r], rides'[r])
    BY <2>1, <2>2 DEF Moves, RideType, Unfinished
  <2>4. RidesStep /\ \A i \in 1 .. Len(pending') : pending'[i].op # "clearAll"
    BY <1>3, <2>1, <2>2, <2>3, RideMoved
  <2>5. \A q \in DOMAIN rides : rides'[q].driver = rides[q].driver
    BY <2>1, <2>2 DEF RideType
  <2> QED
    BY <2>1, <2>4, <2>5, DriversKept DEF Handler
<1>6. ASSUME NEW r \in DOMAIN rides, NEW hasReason \in BOOLEAN, CancelRideForRider(a, r, hasReason)
      PROVE  Handler
  <2> DEFINE before == IF hasReason THEN <<SaveCancelReason(r)>> ELSE <<>>
  <2>1. SaveCancelReason(r) \in WriteType /\ SaveCancelReason(r).op # "clearAll"
    BY WriteFacts DEF TypeOK, RidesOK
  <2>2. before \in Seq(WriteType) /\ \A i \in 1 .. Len(before) : before[i].op # "clearAll"
    BY <2>1
  <2>3. pending' = before \o <<SaveRide(r)>> /\ CancelRide(r) /\ MutexFree
    BY <1>6 DEF CancelRideForRider
  <2> HIDE DEF before
  <2> QED
    BY <2>2, <2>3, CancelDoes
<1>7. ASSUME NEW r \in DOMAIN rides, RateRideForRider(a, r)
      PROVE  Handler
  <2>1. /\ MutexFree /\ UNCHANGED <<memory, tables>>
        /\ pending' = <<SaveRating(r, rides[r].driver)>>
        /\ SaveRating(r, rides[r].driver).op # "clearAll"
    BY <1>7 DEF RateRideForRider, SaveRating
  <2>2. \A i \in 1 .. Len(pending') : pending'[i].op # "clearAll"
    BY <2>1
  <2> QED
    BY <2>1, <2>2, RidesKept, DriversKept DEF Handler, memory
<1> QED
  BY <1>1, <1>2, <1>4, <1>5, <1>6, <1>7 DEF RiderStep

\* The driver whom ensureDriverForAccount returns: a known one with the vehicle he
\* has, or a new one under the next number.
LEMMA EnsureBinds ==
    ASSUME TypeOK, IdsIssued, NEW a \in DriverAccounts, EnsureDriverForAccount(a),
           DOMAIN drivers' = DOMAIN EnsuredDrivers(a)
    PROVE  /\ AccountsStep
           /\ DOMAIN EnsuredDrivers(a) = DOMAIN drivers \cup {Me(a)}
           /\ \A d \in DOMAIN drivers : EnsuredDrivers(a)[d].vehicle = drivers[d].vehicle
<1>1. /\ DOMAIN EnsuredDrivers(a) = DOMAIN drivers \cup {Me(a)}
      /\ \A d \in DOMAIN drivers : d # Me(a) => EnsuredDrivers(a)[d] = drivers[d]
      /\ Me(a) \in DriverIds
  BY EnsureFacts
<1>2. driverByEmail' = Put(driverByEmail, a, Me(a))
      /\ nextDriverId' = (IF Bound(a) THEN nextDriverId ELSE Me(a))
  BY DEF EnsureDriverForAccount
<1>3. CASE Bound(a)
  <2>1. Me(a) = driverByEmail[a] /\ a \in DOMAIN driverByEmail /\ Me(a) \in DOMAIN drivers
    BY <1>3 DEF Me, Bound, TypeOK, AccountsOK
  <2>2. EnsuredDrivers(a)[Me(a)].vehicle = drivers[Me(a)].vehicle
    BY <1>3 DEF EnsuredDrivers, Put
  <2>3. /\ DOMAIN driverByEmail' = DOMAIN driverByEmail
        /\ \A b \in DOMAIN driverByEmail : driverByEmail'[b] = driverByEmail[b]
    BY <1>2, <2>1 DEF Put
  <2>4. AccountsStep
    BY <1>1, <1>2, <1>3, <2>1, <2>3 DEF AccountsStep
  <2> QED
    BY <1>1, <2>2, <2>4
<1>4. CASE ~Bound(a)
  <2>1. Me(a) = nextDriverId + 1 /\ a \notin DOMAIN driverByEmail
    BY <1>4 DEF Me, Bound
  <2>2. Me(a) \notin DOMAIN drivers
    <3>1. nextDriverId \in Nat /\ \A d \in DOMAIN drivers : d \in Nat /\ d <= nextDriverId
      BY BackendAssumption DEF TypeOK, CountersOK, DriversOK, DriverIds, IdsIssued
    <3> QED
      BY <2>1, <3>1
  <2>3. AccountsStep
    BY <1>1, <1>2, <1>4, <2>1 DEF AccountsStep
  <2> QED
    BY <1>1, <2>2, <2>3
<1> QED
  BY <1>3, <1>4

\* A driver's handler that leaves the rides alone.
LEMMA DriverQuiet ==
    ASSUME TypeOK, IdsIssued, NEW a \in DriverAccounts, EnsureDriverForAccount(a),
           UNCHANGED rides,
           DOMAIN drivers' = DOMAIN EnsuredDrivers(a),
           \A d \in DOMAIN EnsuredDrivers(a) : drivers'[d].vehicle = EnsuredDrivers(a)[d].vehicle,
           \A i \in 1 .. Len(pending') : pending'[i].op # "clearAll"
    PROVE  Handler
<1>1. AccountsStep
      /\ DOMAIN EnsuredDrivers(a) = DOMAIN drivers \cup {Me(a)}
      /\ \A d \in DOMAIN drivers : EnsuredDrivers(a)[d].vehicle = drivers[d].vehicle
  BY EnsureBinds
<1>2. MutexFree /\ UNCHANGED <<tables, rideCounter>>
  BY DEF EnsureDriverForAccount
<1>3. DriversStep
  BY <1>1 DEF DriversStep
<1> QED
  BY <1>1, <1>2, <1>3, RidesKept DEF Handler

\* ... and one that changes a ride.
LEMMA DriverMoves ==
    ASSUME TypeOK, IdsIssued, NEW a \in DriverAccounts, EnsureDriverForAccount(a),
           NEW r \in DOMAIN rides, DOMAIN rides' = DOMAIN rides,
           \A q \in DOMAIN rides : q # r => rides'[q] = rides[q],
           Moves(rides[r], rides'[r]),
           DOMAIN drivers' = DOMAIN EnsuredDrivers(a),
           \A d \in DOMAIN EnsuredDrivers(a) : drivers'[d].vehicle = EnsuredDrivers(a)[d].vehicle,
           rides'[r].driver = rides[r].driver \/ Served(rides[r])',
           pending' = ProfileInsert(a) \o <<SaveRide(r)>>
    PROVE  Handler
<1>1. AccountsStep
      /\ DOMAIN EnsuredDrivers(a) = DOMAIN drivers \cup {Me(a)}
      /\ \A d \in DOMAIN drivers : EnsuredDrivers(a)[d].vehicle = drivers[d].vehicle
  BY EnsureBinds
<1>2. MutexFree /\ UNCHANGED <<tables, rideCounter>>
  BY DEF EnsureDriverForAccount
<1>3. DriversStep
  BY <1>1 DEF DriversStep
<1>4. /\ ProfileInsert(a) \in Seq(WriteType)
      /\ \A i \in 1 .. Len(ProfileInsert(a)) : ProfileInsert(a)[i].op # "clearAll"
  BY EnsureFacts
<1>5. RidesStep /\ \A i \in 1 .. Len(pending') : pending'[i].op # "clearAll"
  BY <1>2, <1>4, RideMoved
<1> QED
  BY <1>1, <1>2, <1>3, <1>5 DEF Handler

\* The driver's handlers.
LEMMA DriverDoes ==
    ASSUME TypeOK, IdsIssued, NEW a \in DriverAccounts, DriverStep(a)
    PROVE  Handler
<1>1. ASSUME EnsureDriverForAccount(a)
      PROVE  /\ Me(a) \in DriverIds /\ Me(a) \in DOMAIN EnsuredDrivers(a)
             /\ \A d \in DOMAIN EnsuredDrivers(a) : EnsuredDrivers(a)[d] \in DriverType
             /\ ProfileInsert(a) \in Seq(WriteType)
             /\ \A i \in 1 .. Len(ProfileInsert(a)) : ProfileInsert(a)[i].op # "clearAll"
             /\ ProfileOf(a) \in ProfileType
  BY <1>1, EnsureFacts
<1>2. ASSUME EnsureDriverForAccount(a), NEW p \in ProfileType,
             pending' = ProfileInsert(a) \o <<SaveDriverProfile(a, p)>>
      PROVE  \A i \in 1 .. Len(pending') : pending'[i].op # "clearAll"
  <2>1. SaveDriverProfile(a, p) \in WriteType /\ SaveDriverProfile(a, p).op # "clearAll"
    BY WriteFacts
  <2> QED
    BY <1>1, <1>2, <2>1, LastOf
<1>3. ASSUME DriverState(a)
      PROVE  Handler
  BY <1>1, <1>3, DriverQuiet DEF DriverState
<1>4. ASSUME NEW v \in Vehicles, NEW l \in Locations, UpdateDriverProfileForAccount(a, v, l)
      PROVE  Handler
  <2> DEFINE p == [vehicle |-> v, location |-> l, availability |-> EnsuredDrivers(a)[Me(a)].status]
  <2>1. EnsureDriverForAccount(a) /\ UNCHANGED rides
        /\ pending' = ProfileInsert(a) \o <<SaveDriverProfile(a, p)>>
        /\ drivers' = [EnsuredDrivers(a) EXCEPT ![Me(a)].location = l]
    BY <1>4 DEF UpdateDriverProfileForAccount
  <2>2. p \in ProfileType
    BY <1>1, <2>1 DEF ProfileType, DriverType
  <2>3. /\ DOMAIN drivers' = DOMAIN EnsuredDrivers(a)
        /\ \A d \in DOMAIN EnsuredDrivers(a) : drivers'[d].vehicle = EnsuredDrivers(a)[d].vehicle
    BY <1>1, <2>1 DEF DriverType
  <2> HIDE DEF p
  <2> QED
    BY <1>2, <2>1, <2>2, <2>3, DriverQuiet
<1>5. ASSUME NEW s \in ParsedStatus, SetDriverStatusForAccount(a, s)
      PROVE  Handler
  <2> DEFINE p == [ProfileOf(a) EXCEPT !.availability = s]
  <2>1. EnsureDriverForAccount(a) /\ UNCHANGED rides
        /\ pending' = ProfileInsert(a) \o <<SaveDriverProfile(a, p)>>
        /\ drivers' = [EnsuredDrivers(a) EXCEPT ![Me(a)].status = s]
    BY <1>5 DEF SetDriverStatusForAccount
  <2>2. p \in ProfileType
    BY <1>1, <2>1 DEF ProfileType, ParsedStatus, DriverStatuses
  <2>3. /\ DOMAIN drivers' = DOMAIN EnsuredDrivers(a)
        /\ \A d \in DOMAIN EnsuredDrivers(a) : drivers'[d].vehicle = EnsuredDrivers(a)[d].vehicle
    BY <1>1, <2>1 DEF DriverType
  <2> HIDE DEF p
  <2> QED
    BY <1>2, <2>1, <2>2, <2>3, DriverQuiet
<1>6. ASSUME NEW r \in DOMAIN rides, RejectRideForDriver(a, r)
      PROVE  Handler
  BY <1>1, <1>6, DriverQuiet DEF RejectRideForDriver
<1>7. ASSUME NEW r \in DOMAIN rides, AcceptRideForDriver(a, r)
      PROVE  Handler
  <2>1. /\ EnsureDriverForAccount(a) /\ AssignDriver(EnsuredDrivers(a), r, Me(a))
        /\ rides[r].status = "REQUESTED" /\ rides[r] \in RideType
        /\ pending' = ProfileInsert(a) \o <<SaveRide(r)>>
    BY <1>7 DEF AcceptRideForDriver, TypeOK, RidesOK
  <2>2. EnsuredDrivers(a)[Me(a)].vehicle = rides[r].vehicle
    BY <1>7 DEF AcceptRideForDriver, DriverCanSeeRequest, Matched, NearEnough, Candidates
  <2>3. /\ DOMAIN rides' = DOMAIN rides
        /\ \A q \in DOMAIN rides : q # r => rides'[q] = rides[q]
        /\ rides'[r] = [rides[r] EXCEPT !.driver = Me(a), !.status = "DRIVER_ASSIGNED"]
    BY <2>1 DEF AssignDriver
  <2>4. Moves(rides[r], rides'[r]) /\ rides'[r].driver = Me(a) /\ rides'[r].vehicle = rides[r].vehicle
    BY <1>1, <2>1, <2>3 DEF Moves, RideType
  <2>5. /\ DOMAIN drivers' = DOMAIN EnsuredDrivers(a)
        /\ \A d \in DOMAIN EnsuredDrivers(a) : drivers'[d].vehicle = EnsuredDrivers(a)[d].vehicle
    BY <1>1, <2>1 DEF AssignDriver, DriverType
  <2>6. Served(rides[r])'
    BY <1>1, <2>1, <2>2, <2>4, <2>5 DEF Served
  <2> QED
    BY <2>1, <2>3, <2>4, <2>5, <2>6, DriverMoves
<1>8. ASSUME NEW r \in DOMAIN rides, StartRideForDriver(a, r)
      PROVE  Handler
  <2>1. /\ EnsureDriverForAccount(a) /\ drivers' = EnsuredDrivers(a)
        /\ rides[r].status = "DRIVER_ASSIGNED" /\ rides[r] \in RideType
        /\ rides' = [rides EXCEPT ![r].status = "IN_PROGRESS"]
        /\ pending' = ProfileInsert(a) \o <<SaveRide(r)>>
    BY <1>8 DEF StartRideForDriver, TypeOK, RidesOK
  <2>2. /\ DOMAIN rides' = DOMAIN rides
        /\ \A q \in DOMAIN rides : q # r => rides'[q] = rides[q]
        /\ rides'[r] = [rides[r] EXCEPT !.status = "IN_PROGRESS"]
    BY <2>1
  <2>3. Moves(rides[r], rides'[r]) /\ rides'[r].driver = rides[r].driver
    BY <2>1, <2>2 DEF Moves, RideType
  <2> QED
    BY <2>1, <2>2, <2>3, DriverMoves
<1>9. ASSUME NEW r \in DOMAIN rides, CompleteRideForDriver(a, r)
      PROVE  Handler
  <2>1. /\ EnsureDriverForAccount(a) /\ drivers' = FreeDriver(EnsuredDrivers(a), Me(a))
        /\ rides[r].status = "IN_PROGRESS" /\ rides[r] \in RideType
        /\ rides' = [rides EXCEPT ![r].status = "COMPLETED"]
        /\ pending' = ProfileInsert(a) \o <<SaveRide(r)>>
    BY <1>9 DEF CompleteRideForDriver, TypeOK, RidesOK
  <2>2. /\ DOMAIN rides' = DOMAIN rides
        /\ \A q \in DOMAIN rides : q # r => rides'[q] = rides[q]
        /\ rides'[r] = [rides[r] EXCEPT !.status = "COMPLETED"]
    BY <2>1
  <2>3. Moves(rides[r], rides'[r]) /\ rides'[r].driver = rides[r].driver
    BY <2>1, <2>2 DEF Moves, RideType
  <2>4. /\ DOMAIN drivers' = DOMAIN EnsuredDrivers(a)
        /\ \A d \in DOMAIN EnsuredDrivers(a) : drivers'[d].vehicle = EnsuredDrivers(a)[d].vehicle
    BY <1>1, <2>1, FreedVehicle
  <2> QED
    BY <2>1, <2>2, <2>3, <2>4, DriverMoves
<1> QED
  BY <1>3, <1>4, <1>5, <1>6, <1>7, <1>8, <1>9, BackendAssumption DEF DriverStep

\* The administrator's handlers, except for the reset.
LEMMA AdminDoes ==
    ASSUME TypeOK, IdsIssued, AdminStep, ~Reset
    PROVE  Handler
<1>1. ASSUME NEW d \in DOMAIN drivers, NEW s \in ParsedStatus, SetDriverStatusAsAdmin(d, s)
      PROVE  Handler
  <2>1. /\ MutexFree /\ drivers' = [drivers EXCEPT ![d].status = s]
        /\ UNCHANGED <<rides, driverByEmail, rideCounter, nextDriverId, pending, tables>>
    BY <1>1 DEF SetDriverStatusAsAdmin
  <2>2. /\ DOMAIN drivers' = DOMAIN drivers
        /\ \A e \in DOMAIN drivers : drivers'[e].vehicle = drivers[e].vehicle
    BY <2>1 DEF TypeOK, DriversOK, DriverType
  <2>3. DriversStep /\ AccountsStep
    BY <2>1, <2>2 DEF DriversStep, AccountsStep
  <2>4. \A i \in 1 .. Len(pending') : pending'[i].op # "clearAll"
    BY <2>1 DEF MutexFree
  <2> QED
    BY <2>1, <2>3, <2>4, RidesKept DEF Handler
<1>2. ASSUME NEW r \in DOMAIN rides, CancelRideAsAdmin(r)
      PROVE  Handler
  <2>1. pending' = <<>> \o <<SaveRide(r)>> /\ CancelRide(r) /\ MutexFree
    BY <1>2 DEF CancelRideAsAdmin
  <2>2. <<>> \in Seq(WriteType) /\ \A i \in 1 .. Len(<<>>) : <<>>[i].op # "clearAll"
    OBVIOUS
  <2> QED
    BY <2>1, <2>2, CancelDoes
<1> QED
  BY <1>1, <1>2 DEF AdminStep

\* Every step is one of a handler, of the reset, of the store, or a crash.
LEMMA HandlerDoes ==
    ASSUME TypeOK, IdsIssued, Next
    PROVE  Handler \/ Reset \/ StoreStep \/ Crash
BY RiderDoes, DriverDoes, AdminDoes DEF Next

-----------------------------------------------------------------------------
(* The invariant *)

\* A ride has a driver from its assignment on, and a fee if it is cancelled then.
RideOK(x) ==
    /\ x.status = "REQUESTED" => x.driver = NoDriver
    /\ x.status \in Active \cup {"COMPLETED"} => x.driver # NoDriver
    /\ x.fee = IF x.status = "CANCELLED" /\ x.driver # NoDriver THEN CancellationFee ELSE 0

\* No two accounts have one driver.
Injective(f) == \A a, b \in DOMAIN f : f[a] = f[b] => a = b

AccountsInv ==
    /\ DemoDriver \in DOMAIN driverByEmail /\ driverByEmail[DemoDriver] = 1
    /\ Injective(driverByEmail)
    /\ \A d \in Seeds : drivers[d].vehicle = SeedVehicle[d]

RidesInv == \A r \in DOMAIN rides : RideOK(rides[r]) /\ Served(rides[r])

\* What account the rows of two rides name, and what vehicle, goes with the driver.
RowsAgree(x, y) ==
    /\ x.ride.driver # NoDriver /\ x.ride.driver = y.ride.driver =>
          x.email = y.email /\ x.ride.vehicle = y.ride.vehicle
    /\ x.email # NoAccount /\ x.email = y.email => x.ride.driver = y.ride.driver

\* A table from which a restart gets one account per driver.
TableInv(T) ==
    /\ \A r \in DOMAIN T :
          /\ RideOK(T[r].ride)
          /\ T[r].ride.driver = NoDriver => T[r].email = NoAccount
          /\ T[r].ride.driver = 1 => T[r].email = DemoDriver
          /\ T[r].email = DemoDriver => T[r].ride.driver = 1
          /\ T[r].ride.driver \in Seeds => T[r].ride.vehicle = SeedVehicle[T[r].ride.driver]
    /\ \A q, r \in DOMAIN T : RowsAgree(T[q], T[r])

\* While no reset is deleting, the drivers and accounts of the rows are those of
\* the memory, even of rows whose ride has moved on.
Known(x) == Served(x.ride) /\ x.email = EmailForDriver(x.ride.driver)
RowsKnown == ~Clearing => \A r \in DOMAIN rideTable : Known(rideTable[r])

AInv ==
    /\ TypeOK /\ IdsIssued /\ ResetEmpties
    /\ AccountsInv /\ RidesInv
    /\ TableInv(rideTable) /\ RowsKnown

\* What holds of the memory, and of the rows, even while they are not of one mind.
RidesGood ==
    /\ \A r \in DOMAIN rides : RideOK(rides[r]) /\ rides[r].driver \in DOMAIN drivers \cup {NoDriver}
    /\ \A r \in DOMAIN rideTable : RideOK(rideTable[r].ride)

\* A reset leaves one account per driver in memory, so that AInv begins again when
\* it has emptied ride_history.
BaseInv ==
    /\ TypeOK /\ IdsIssued /\ ResetEmpties
    /\ RidesGood
    /\ Clearing => AccountsInv

OInv == BaseInv /\ (outdated \/ AInv)

\* EmailForDriver on the bindings f.
EmailOf(f, d) == IF \E a \in DOMAIN f : f[a] = d THEN CHOOSE a \in DOMAIN f : f[a] = d ELSE NoAccount

\* With one account per driver the look-up inverts the bindings.
LEMMA EmailInverts ==
    ASSUME NEW f, NEW d, Injective(f)
    PROVE  /\ \A a \in DOMAIN f : f[a] = d => EmailOf(f, d) = a
           /\ (\A a \in DOMAIN f : f[a] # d) => EmailOf(f, d) = NoAccount
           /\ EmailOf(f, d) = NoAccount \/ (EmailOf(f, d) \in DOMAIN f /\ f[EmailOf(f, d)] = d)
<1>1. CASE \E a \in DOMAIN f : f[a] = d
  <2>1. EmailOf(f, d) = CHOOSE a \in DOMAIN f : f[a] = d
    BY <1>1 DEF EmailOf
  <2>2. EmailOf(f, d) \in DOMAIN f /\ f[EmailOf(f, d)] = d
    BY <1>1, <2>1
  <2> QED
    BY <1>1, <2>2 DEF Injective
<1>2. CASE ~\E a \in DOMAIN f : f[a] = d
  BY <1>2 DEF EmailOf
<1> QED
  BY <1>1, <1>2

-----------------------------------------------------------------------------
(* Restarts *)

\* The counters of a restart are beyond every id of the table.
LEMMA BootIds ==
    ASSUME NEW T, TableTyped(T), Boot(T)
    PROVE  IdsIssued'
<1>1. DOMAIN rides' = DOMAIN T /\ DOMAIN drivers' = BootDriverIds(T)
  BY BootTyped DEF Boot
<1>2. {0} \cup DOMAIN T \in SUBSET (0 .. MaxRides)
  BY BackendAssumption DEF TableTyped, RideIds
<1>3. \A r \in DOMAIN T : r <= BootRideCounter(T)
  BY <1>2, LargestExists, BackendAssumption DEF BootRideCounter
<1>4. {SeedCount} \cup BootDriverIds(T) \in SUBSET (0 .. MaxDrivers)
  BY BootTyped, BackendAssumption DEF DriverIds
<1>5. \A d \in BootDriverIds(T) : d <= BootNextDriver(T)
  BY <1>4, LargestExists, BackendAssumption DEF BootNextDriver
<1> QED
  BY <1>1, <1>3, <1>5 DEF IdsIssued, Boot

\* An account is bound to the driver of its rows, and the demo account without
\* rows to D1.
LEMMA BootBinds ==
    ASSUME NEW T, TableTyped(T), TableInv(T)
    PROVE  /\ DemoDriver \in DOMAIN BootAccounts(T) /\ BootAccounts(T)[DemoDriver] = 1
           /\ \A a \in DOMAIN BootAccounts(T) :
                 \/ a = DemoDriver
                 \/ \E r \in DOMAIN T : T[r].email = a /\ T[r].ride.driver # NoDriver
                                        /\ BootAccounts(T)[a] = T[r].ride.driver
           /\ \A r \in DOMAIN T : T[r].email # NoAccount /\ T[r].ride.driver # NoDriver =>
                 T[r].email \in DOMAIN BootAccounts(T)
                 /\ BootAccounts(T)[T[r].email] = T[r].ride.driver
<1> DEFINE f == BootAccounts(T)
<1>1. DOMAIN f = {DemoDriver} \cup {e \in DriverAccounts : RowsOfAccount(T, e) # {}}
  BY DEF BootAccounts
<1>2. ASSUME NEW a \in DOMAIN f, RowsOfAccount(T, a) # {}
      PROVE  \E r \in RowsOfAccount(T, a) : f[a] = T[r].ride.driver
  <2>1. f[a] = T[CHOOSE r \in RowsOfAccount(T, a) : TRUE].ride.driver
    BY <1>1, <1>2 DEF BootAccounts
  <2>2. (CHOOSE r \in RowsOfAccount(T, a) : TRUE) \in RowsOfAccount(T, a)
    BY <1>2
  <2> QED
    BY <2>1, <2>2
<1>3. ASSUME RowsOfAccount(T, DemoDriver) = {}
      PROVE  f[DemoDriver] = 1
  BY <1>3 DEF BootAccounts
<1> HIDE DEF f
<1>4. f[DemoDriver] = 1
  BY <1>1, <1>2, <1>3 DEF RowsOfAccount, TableInv
<1>5. ASSUME NEW a \in DOMAIN f, a # DemoDriver
      PROVE  \E r \in DOMAIN T : T[r].email = a /\ T[r].ride.driver # NoDriver /\ f[a] = T[r].ride.driver
  BY <1>1, <1>2, <1>5 DEF RowsOfAccount
<1>6. ASSUME NEW r \in DOMAIN T, T[r].email # NoAccount, T[r].ride.driver # NoDriver
      PROVE  T[r].email \in DOMAIN f /\ f[T[r].email] = T[r].ride.driver
  <2>1. T[r].email \in DriverAccounts /\ r \in RowsOfAccount(T, T[r].email)
    BY <1>6 DEF TableTyped, RowType, RowsOfAccount
  <2>2. T[r].email \in DOMAIN f
    BY <1>1, <2>1
  <2>3. PICK q \in RowsOfAccount(T, T[r].email) : f[T[r].email] = T[q].ride.driver
    BY <1>2, <2>1, <2>2
  <2>4. RowsAgree(T[r], T[q]) /\ T[q].email = T[r].email
    BY <2>3 DEF RowsOfAccount, TableInv
  <2> QED
    BY <1>6, <2>2, <2>3, <2>4 DEF RowsAgree
<1> QED
  BY <1>1, <1>4, <1>5, <1>6 DEF f

\* What a restart makes of a good table.
LEMMA BootGood ==
    ASSUME NEW T, TableTyped(T), TableInv(T), Boot(T)
    PROVE  /\ AccountsInv' /\ RidesInv'
           /\ \A r \in DOMAIN T : Served(T[r].ride)' /\ T[r].email = EmailOf(driverByEmail', T[r].ride.driver)
<1>1. /\ DOMAIN rides' = DOMAIN T
      /\ \A r \in DOMAIN T : rides'[r] = T[r].ride
      /\ DOMAIN drivers' = BootDriverIds(T)
      /\ driverByEmail' = BootAccounts(T)
      /\ Seeds \subseteq BootDriverIds(T)
  BY BootTyped DEF Boot
<1>2. /\ DemoDriver \in DOMAIN driverByEmail' /\ driverByEmail'[DemoDriver] = 1
      /\ \A a \in DOMAIN driverByEmail' :
            \/ a = DemoDriver
            \/ \E r \in DOMAIN T : T[r].email = a /\ T[r].ride.driver # NoDriver
                                   /\ driverByEmail'[a] = T[r].ride.driver
      /\ \A r \in DOMAIN T : T[r].email # NoAccount /\ T[r].ride.driver # NoDriver =>
            T[r].email \in DOMAIN driverByEmail' /\ driverByEmail'[T[r].email] = T[r].ride.driver
  BY <1>1, BootBinds
<1>3. 1 \in Seeds /\ 1 # NoDriver
  BY BackendAssumption DEF Seeds, NoDriver
<1>4. Injective(driverByEmail')
  <2> SUFFICES ASSUME NEW a \in DOMAIN driverByEmail', NEW b \in DOMAIN driverByEmail',
                      driverByEmail'[a] = driverByEmail'[b], b # DemoDriver
               PROVE  a = b
    BY DEF Injective
  <2>1. PICK q \in DOMAIN T : T[q].email = b /\ T[q].ride.driver # NoDriver
                              /\ driverByEmail'[b] = T[q].ride.driver
    BY <1>2
  <2>2. CASE a = DemoDriver
    BY <1>2, <2>1, <2>2 DEF TableInv
  <2>3. CASE a # DemoDriver
    <3>1. PICK r \in DOMAIN T : T[r].email = a /\ T[r].ride.driver # NoDriver
                                /\ driverByEmail'[a] = T[r].ride.driver
      BY <1>2, <2>3
    <3>2. RowsAgree(T[q], T[r])
      BY DEF TableInv
    <3> QED
      BY <2>1, <3>1, <3>2 DEF RowsAgree
  <2> QED
    BY <2>2, <2>3
<1>5. \A d \in Seeds : drivers'[d].vehicle = SeedVehicle[d]
  BY <1>1 DEF Boot, BootDrivers
<1>6. AccountsInv'
  BY <1>2, <1>4, <1>5 DEF AccountsInv, Injective
<1>7. ASSUME NEW r \in DOMAIN T
      PROVE  Served(T[r].ride)'
  <2> DEFINE d == T[r].ride.driver
  <2>1. CASE d = NoDriver
    BY <2>1 DEF Served
  <2>2. CASE d # NoDriver
    <3>1. d \in BootDriverIds(T)
      BY <2>2 DEF BootDriverIds
    <3>2. CASE d \in Seeds
      <4>1. T[r].ride.vehicle = SeedVehicle[d]
        BY <3>2 DEF TableInv
      <4> QED
        BY <1>1, <1>5, <3>1, <3>2, <4>1 DEF Served
    <3>3. CASE d \notin Seeds
      <4>1. drivers'[d].vehicle = T[CHOOSE q \in RowsOf(T, d) : TRUE].ride.vehicle
        BY <3>1, <3>3 DEF Boot, BootDrivers
      <4>2. PICK q \in RowsOf(T, d) : drivers'[d].vehicle = T[q].ride.vehicle
        BY <4>1 DEF RowsOf
      <4>3. RowsAgree(T[r], T[q]) /\ T[q].ride.driver = d
        BY <4>2 DEF TableInv, RowsOf
      <4> QED
        BY <1>1, <2>2, <3>1, <4>2, <4>3 DEF Served, RowsAgree
    <3> QED
      BY <3>2, <3>3
  <2> QED
    BY <2>1, <2>2
<1>8. ASSUME NEW r \in DOMAIN T
      PROVE  T[r].email = EmailOf(driverByEmail', T[r].ride.driver)
  <2>1. CASE T[r].email # NoAccount
    <3>1. T[r].ride.driver # NoDriver
      BY <2>1 DEF TableInv
    <3> QED
      BY <1>2, <1>4, <2>1, <3>1, EmailInverts
  <2>2. CASE T[r].email = NoAccount
    <3>1. ASSUME NEW a \in DOMAIN driverByEmail', driverByEmail'[a] = T[r].ride.driver
          PROVE  FALSE
      <4>1. a \in DriverAccounts /\ a # NoAccount /\ DemoDriver # NoAccount
        BY <1>1, BootTyped, BackendAssumption
      <4>2. CASE a = DemoDriver
        BY <1>2, <2>2, <3>1, <4>1, <4>2 DEF TableInv
      <4>3. CASE a # DemoDriver
        <5>1. PICK q \in DOMAIN T : T[q].email = a /\ T[q].ride.driver # NoDriver
                                    /\ driverByEmail'[a] = T[q].ride.driver
          BY <1>2, <4>3
        <5>2. RowsAgree(T[q], T[r])
          BY DEF TableInv
        <5> QED
          BY <2>2, <3>1, <4>1, <5>1, <5>2 DEF RowsAgree
      <4> QED
        BY <4>2, <4>3
    <3> QED
      BY <1>4, <2>2, <3>1, EmailInverts
  <2> QED
    BY <2>1, <2>2
<1>9. RidesInv'
  BY <1>1, <1>7 DEF RidesInv, TableInv, Served
<1> QED
  BY <1>6, <1>7, <1>8, <1>9

-----------------------------------------------------------------------------
(* Every step keeps the invariant *)

\* Nobody is bound to "no driver", and the look-up inverts the bindings.
LEMMA EmailKnown ==
    ASSUME TypeOK, AccountsInv
    PROVE  /\ \A a \in DOMAIN driverByEmail : EmailForDriver(driverByEmail[a]) = a
           /\ EmailForDriver(NoDriver) = NoAccount
           /\ \A d : EmailForDriver(d) # NoAccount =>
                 EmailForDriver(d) \in DOMAIN driverByEmail /\ driverByEmail[EmailForDriver(d)] = d
           /\ EmailForDriver(1) = DemoDriver /\ DemoDriver # NoAccount
<1>1. \A d : EmailForDriver(d) = EmailOf(driverByEmail, d)
  BY DEF EmailForDriver, EmailOf
<1>2. Injective(driverByEmail)
  BY DEF AccountsInv
<1>3. \A a \in DOMAIN driverByEmail : driverByEmail[a] # NoDriver
  BY DEF TypeOK, AccountsOK, DriversOK, DriverIds, NoDriver
<1>4. DemoDriver # NoAccount
  BY BackendAssumption
<1>5. \A a \in DOMAIN driverByEmail : EmailForDriver(driverByEmail[a]) = a
  BY <1>1, <1>2, EmailInverts
<1>6. EmailForDriver(NoDriver) = NoAccount
  BY <1>1, <1>2, <1>3, EmailInverts
<1>7. \A d : EmailForDriver(d) # NoAccount =>
         EmailForDriver(d) \in DOMAIN driverByEmail /\ driverByEmail[EmailForDriver(d)] = d
  BY <1>1, <1>2, EmailInverts
<1> QED
  BY <1>4, <1>5, <1>6, <1>7 DEF AccountsInv

\* A table of rows whose drivers and accounts are those of the memory is good.
LEMMA KnownTable ==
    ASSUME TypeOK, AccountsInv, NEW T, \A r \in DOMAIN T : RideOK(T[r].ride) /\ Known(T[r])
    PROVE  TableInv(T)
<1>1. ASSUME NEW r \in DOMAIN T
      PROVE  /\ T[r].ride.driver = NoDriver => T[r].email = NoAccount
             /\ T[r].ride.driver = 1 => T[r].email = DemoDriver
             /\ T[r].email = DemoDriver => T[r].ride.driver = 1
             /\ T[r].ride.driver \in Seeds => T[r].ride.vehicle = SeedVehicle[T[r].ride.driver]
  <2>1. Known(T[r])
    OBVIOUS
  <2>2. T[r].ride.driver \in Seeds => T[r].ride.driver # NoDriver
    BY BackendAssumption DEF Seeds, NoDriver
  <2> QED
    BY <2>1, <2>2, EmailKnown DEF Known, Served, AccountsInv
<1>2. ASSUME NEW q \in DOMAIN T, NEW r \in DOMAIN T
      PROVE  RowsAgree(T[q], T[r])
  <2>1. Known(T[q]) /\ Known(T[r])
    OBVIOUS
  <2> QED
    BY <2>1, EmailKnown DEF Known, Served, RowsAgree
<1> QED
  BY <1>1, <1>2 DEF TableInv

\* A handler keeps rides, drivers and their numbers in order, whatever the rows say.
LEMMA HandlerBase ==
    ASSUME BaseInv, TypeOK', Handler
    PROVE  BaseInv' /\ ~Clearing /\ ~Clearing' /\ UNCHANGED rideTable
<1>1. /\ rideCounter \in Nat /\ nextDriverId \in Nat
      /\ \A d \in DOMAIN drivers : d \in Nat /\ d <= nextDriverId
      /\ \A r \in DOMAIN rides : r \in Nat /\ r <= rideCounter
  BY BackendAssumption DEF BaseInv, TypeOK, DriversOK, CountersOK, RidesOK, DriverIds, RideIds, IdsIssued
<1>2. \A r \in DOMAIN rides' : r <= rideCounter'
  BY <1>1 DEF Handler, RidesStep
<1>3. \A d \in DOMAIN drivers' : d <= nextDriverId'
  BY <1>1 DEF Handler, AccountsStep
<1>4. UNCHANGED rideTable /\ ~Clearing
  BY DEF Handler, tables, MutexFree, Clearing
<1>5. ~Clearing'
  <2>1. pending' # <<>> => 1 \in 1 .. Len(pending') /\ Head(pending') = pending'[1]
    BY EmptySeq, LenProperties DEF TypeOK, PendingOK
  <2> QED
    BY <2>1 DEF Clearing, Handler
<1>6. ResetEmpties'
  BY <1>5 DEF ResetEmpties, Handler
<1>7. ASSUME NEW q \in DOMAIN rides'
      PROVE  RideOK(rides'[q]) /\ rides'[q].driver \in DOMAIN drivers' \cup {NoDriver}
  <2>1. CASE q \notin DOMAIN rides
    BY <1>7, <2>1 DEF Handler, RidesStep, Fresh, RideOK, Active
  <2>2. CASE q \in DOMAIN rides
    <3>1. RideOK(rides[q]) /\ rides[q].driver \in DOMAIN drivers \cup {NoDriver}
      BY <2>2 DEF BaseInv, RidesGood
    <3>2. rides'[q].driver \in DOMAIN drivers' \cup {NoDriver}
      BY <2>2, <3>1 DEF Handler, DriversStep, Served
    <3>3. CASE Moves(rides[q], rides'[q])
      <4>1. rides[q].status \in RideStatuses /\ NoDriver \notin DriverIds
        BY <2>2 DEF BaseInv, TypeOK, RidesOK, RideType, DriverIds, NoDriver
      <4>2. rides[q].status \in {"REQUESTED"} \cup Active \cup Finished
        BY <4>1 DEF RideStatuses, Active, Finished
      <4> QED
        BY <3>1, <3>2, <3>3, <4>1, <4>2 DEF RideOK, Moves, Active, Finished
    <3> QED
      BY <2>2, <3>1, <3>2, <3>3 DEF Handler, RidesStep
  <2> QED
    BY <2>1, <2>2
<1>8. RidesGood'
  BY <1>4, <1>7 DEF RidesGood, BaseInv
<1> QED
  BY <1>2, <1>3, <1>4, <1>5, <1>6, <1>8 DEF BaseInv, IdsIssued

\* Between two handlers and in the middle of one, AInv says more.
LEMMA GoodIsBase == AInv => BaseInv
BY DEF AInv, BaseInv, RidesGood, RidesInv, Served, TableInv

\* A handler binds at most one account, to a driver nobody is bound to.
LEMMA HandlerBinds ==
    ASSUME AInv, Handler
    PROVE  /\ AccountsInv'
           /\ \A d \in DOMAIN drivers \cup {NoDriver} : EmailOf(driverByEmail', d) = EmailOf(driverByEmail, d)
<1>1. /\ \A a \in DOMAIN driverByEmail : driverByEmail[a] \in DOMAIN drivers
      /\ DOMAIN drivers \subseteq DriverIds /\ Seeds \subseteq DOMAIN drivers
      /\ nextDriverId \in Nat
      /\ \A d \in DOMAIN drivers : d \in Nat /\ d <= nextDriverId
      /\ Injective(driverByEmail)
  BY BackendAssumption DEF AInv, TypeOK, DriversOK, AccountsOK, CountersOK, DriverIds, IdsIssued, AccountsInv
<1>3. \A d \in Seeds : drivers'[d].vehicle = SeedVehicle[d]
  BY <1>1 DEF Handler, DriversStep, AInv, AccountsInv
<1>4. CASE /\ DOMAIN driverByEmail' = DOMAIN driverByEmail
           /\ \A b \in DOMAIN driverByEmail : driverByEmail'[b] = driverByEmail[b]
           /\ DOMAIN drivers' = DOMAIN drivers
           /\ nextDriverId' = nextDriverId
  <2>1. Injective(driverByEmail')
    BY <1>1, <1>4 DEF Injective
  <2>2. \A d \in DOMAIN drivers \cup {NoDriver} : EmailOf(driverByEmail', d) = EmailOf(driverByEmail, d)
    BY <1>1, <1>4, <2>1, EmailInverts
  <2>3. AccountsInv'
    BY <1>3, <1>4, <2>1 DEF AInv, AccountsInv, Injective
  <2> QED
    BY <2>2, <2>3
<1>5. ASSUME nextDriverId' = nextDriverId + 1,
             DOMAIN drivers' = DOMAIN drivers \cup {nextDriverId + 1},
             NEW a \in DriverAccounts \ DOMAIN driverByEmail,
             driverByEmail' = Put(driverByEmail, a, nextDriverId + 1)
      PROVE  /\ AccountsInv'
             /\ \A d \in DOMAIN drivers \cup {NoDriver} :
                   EmailOf(driverByEmail', d) = EmailOf(driverByEmail, d)
  <2>1. /\ DOMAIN driverByEmail' = DOMAIN driverByEmail \cup {a}
        /\ driverByEmail'[a] = nextDriverId + 1
        /\ \A b \in DOMAIN driverByEmail : driverByEmail'[b] = driverByEmail[b]
    BY <1>5 DEF Put
  <2>2. nextDriverId + 1 \notin DOMAIN drivers /\ nextDriverId + 1 # NoDriver
    BY <1>1 DEF NoDriver
  <2>3. Injective(driverByEmail')
    BY <1>1, <2>1, <2>2 DEF Injective
  <2>4. \A d \in DOMAIN drivers \cup {NoDriver} : EmailOf(driverByEmail', d) = EmailOf(driverByEmail, d)
    BY <1>1, <2>1, <2>2, <2>3, EmailInverts
  <2>5. AccountsInv'
    BY <1>3, <2>1, <2>3 DEF AInv, AccountsInv, Injective
  <2> QED
    BY <2>4, <2>5
<1> QED
  BY <1>4, <1>5 DEF Handler, AccountsStep

\* The step of a handler.
LEMMA HandlerGood ==
    ASSUME AInv, TypeOK', Handler
    PROVE  AInv'
<1>1. ASSUME NEW x, Served(x)
      PROVE  Served(x)'
  BY <1>1 DEF Served, Handler, DriversStep
<1>2. BaseInv' /\ ~Clearing /\ ~Clearing' /\ UNCHANGED rideTable
  BY GoodIsBase, HandlerBase
<1>3. RidesInv'
  <2>1. \A q \in DOMAIN rides' : RideOK(rides'[q])
    BY <1>2 DEF BaseInv, RidesGood
  <2>2. ASSUME NEW q \in DOMAIN rides
        PROVE  Served(rides[q])'
    <3>1. Served(rides[q])
      BY DEF AInv, RidesInv
    <3>2. rides'[q] = rides[q] \/ rides'[q].vehicle = rides[q].vehicle
      BY DEF Handler, RidesStep, Moves
    <3> QED
      BY <1>1, <3>1, <3>2 DEF Handler, DriversStep, Served
  <2>3. ASSUME NEW q \in DOMAIN rides' \ DOMAIN rides
        PROVE  Served(rides[q])'
    BY DEF Handler, RidesStep, Fresh, Served
  <2> QED
    BY <2>1, <2>2, <2>3 DEF RidesInv
<1>4. AccountsInv' /\ IdsIssued' /\ ResetEmpties'
  BY <1>2, HandlerBinds DEF BaseInv
<1>7. RowsKnown'
  <2> SUFFICES ASSUME NEW r \in DOMAIN rideTable
               PROVE  /\ Served(rideTable[r].ride)'
                      /\ rideTable[r].email = EmailForDriver(rideTable[r].ride.driver)'
    BY <1>2 DEF RowsKnown, Known, Served, EmailForDriver
  <2>1. PICK x : x = rideTable[r]
    OBVIOUS
  <2>2. Served(x.ride) /\ x.email = EmailForDriver(x.ride.driver)
    BY <1>2, <2>1 DEF AInv, RowsKnown, Known
  <2>3. x.ride.driver \in DOMAIN drivers \cup {NoDriver}
    BY <2>2 DEF Served
  <2>4. EmailForDriver(x.ride.driver) = EmailOf(driverByEmail, x.ride.driver)
        /\ EmailForDriver(x.ride.driver)' = EmailOf(driverByEmail', x.ride.driver)
    BY DEF EmailForDriver, EmailOf
  <2>5. Served(x.ride)' /\ x.email = EmailForDriver(x.ride.driver)'
    BY <1>1, <2>2, <2>3, <2>4, HandlerBinds
  <2> QED
    BY <1>2, <2>1, <2>5 DEF Served, EmailForDriver
<1>8. TableInv(rideTable)'
  BY <1>2 DEF AInv, TableInv
<1> QED
  BY <1>3, <1>4, <1>7, <1>8 DEF AInv

\* A step that leaves the memory alone.
LEMMA MemoryGood ==
    ASSUME AInv, UNCHANGED memory
    PROVE  IdsIssued' /\ AccountsInv' /\ RidesInv'
BY DEF AInv, memory, IdsIssued, AccountsInv, Injective, RidesInv, Served

\* The reset: nothing is left in memory, and what the rows say is no longer asked.
LEMMA ResetGood ==
    ASSUME BaseInv, TypeOK', Reset
    PROVE  BaseInv' /\ (AInv => AInv')
<1>1. Boot(Empty) /\ UNCHANGED rideTable
  BY DEF Reset, tables
<1>2. TableInv(Empty)
  BY EmptyTyped DEF TableInv
<1>3. AccountsInv' /\ RidesInv' /\ IdsIssued'
  BY <1>1, <1>2, EmptyTyped, BootGood, BootIds
<1>4. DOMAIN rides' = {}
  BY <1>1, EmptyTyped, BootTyped DEF Boot
<1>5. /\ pending' # <<>> /\ Len(pending') = 4
      /\ \A i \in 1 .. 4 : pending'[i].op = "clearAll"
      /\ pending'[2] = DeleteFrom("ride_history")
      /\ Head(pending') = pending'[1]
  BY DEF Reset, ClearAll, DeleteFrom
<1>6. Clearing'
  BY <1>5 DEF Clearing
<1>7. ResetEmpties'
  BY <1>4, <1>5, <1>6 DEF ResetEmpties
<1>8. RowsKnown' /\ (TableInv(rideTable) => TableInv(rideTable)')
  BY <1>1, <1>6 DEF RowsKnown, TableInv
<1>9. RidesGood'
  BY <1>1, <1>4 DEF RidesGood, BaseInv
<1> QED
  BY <1>3, <1>7, <1>8, <1>9 DEF AInv, BaseInv

\* A restart rebuilds what the table says.
LEMMA CrashGood ==
    ASSUME AInv, TypeOK', Crash
    PROVE  AInv'
<1>1. /\ Boot(rideTable) /\ UNCHANGED rideTable /\ pending' = <<>>
      /\ TableTyped(rideTable) /\ TableInv(rideTable)
  BY DEF Crash, tables, AInv, TypeOK, RideTableOK, TableTyped
<1>2. AccountsInv' /\ RidesInv' /\ IdsIssued'
  BY <1>1, BootGood, BootIds
<1>3. ~Clearing' /\ Len(pending') = 0
  BY <1>1 DEF Clearing
<1>4. ResetEmpties'
  BY <1>3 DEF ResetEmpties
<1>5. \A r \in DOMAIN rideTable :
         Served(rideTable[r].ride)' /\ rideTable[r].email = EmailOf(driverByEmail', rideTable[r].ride.driver)
  BY <1>1, BootGood DEF Served
<1>6. RowsKnown'
  BY <1>1, <1>5 DEF RowsKnown, Known, Served, EmailForDriver, EmailOf
<1>7. TableInv(rideTable)'
  BY <1>1 DEF TableInv
<1> QED
  BY <1>2, <1>4, <1>6, <1>7 DEF AInv

\* ... and rides in order, whatever else they say.
LEMMA CrashBase ==
    ASSUME BaseInv, TypeOK', Crash
    PROVE  BaseInv'
<1>1. /\ Boot(rideTable) /\ UNCHANGED rideTable /\ pending' = <<>> /\ TableTyped(rideTable)
  BY DEF Crash, tables, BaseInv, TypeOK, RideTableOK, TableTyped
<1>2. IdsIssued'
  BY <1>1, BootIds
<1>3. ~Clearing' /\ Len(pending') = 0
  BY <1>1 DEF Clearing
<1>4. ResetEmpties'
  BY <1>3 DEF ResetEmpties
<1>5. /\ DOMAIN rides' = DOMAIN rideTable /\ DOMAIN drivers' = BootDriverIds(rideTable)
      /\ \A r \in DOMAIN rideTable : rides'[r] = rideTable[r].ride
  BY <1>1, BootTyped DEF Boot, BootRides
<1>6. RidesGood'
  BY <1>1, <1>5 DEF RidesGood, BaseInv, BootDriverIds
<1> QED
  BY <1>2, <1>3, <1>4, <1>6 DEF BaseInv

\* The writes still to come of a handler that is not the reset are not the
\* reset's either; and those of the reset are.
LEMMA RestClears ==
    ASSUME TypeOK, ResetEmpties, pending # <<>>, pending' = Tail(pending)
    PROVE  /\ ~Clearing => ~Clearing' /\ \A i \in 1 .. Len(pending') : pending'[i].op # "clearAll"
           /\ Clearing => /\ \A i \in 1 .. Len(pending') : pending'[i].op = "clearAll"
                          /\ Clearing' <=> pending' # <<>>
<1>1. \A i \in 1 .. Len(pending') : pending'[i].op = "clearAll" <=> Clearing
  BY TailFacts DEF ResetEmpties
<1>2. pending' # <<>> => 1 \in 1 .. Len(pending') /\ Head(pending') = pending'[1]
  BY TailFacts
<1> QED
  BY <1>1, <1>2 DEF Clearing

\* A write of a handler that is not the reset.
LEMMA WriteBase ==
    ASSUME BaseInv, TypeOK', pending # <<>>, pending' = Tail(pending), UNCHANGED memory, ~Clearing,
           UNCHANGED rideTable \/ WriteRide
    PROVE  BaseInv'
<1>1. ~Clearing' /\ \A i \in 1 .. Len(pending') : pending'[i].op # "clearAll"
  BY RestClears DEF BaseInv
<1>2. ResetEmpties'
  BY <1>1 DEF ResetEmpties
<1>3. IdsIssued' /\ UNCHANGED <<rides, drivers>>
  BY DEF BaseInv, memory, IdsIssued
<1>4. CASE UNCHANGED rideTable
  BY <1>1, <1>2, <1>3, <1>4 DEF BaseInv, RidesGood
<1>5. CASE WriteRide
  <2>1. /\ Head(pending).op = "saveRide" /\ 1 \in 1 .. Len(pending) /\ Head(pending) = pending[1]
        /\ rideTable' = Put(rideTable, Subject, Snapshot(Subject))
    BY <1>5, TailFacts DEF WriteRide, Doing, BaseInv
  <2>2. Subject \in DOMAIN rides
    BY <2>1 DEF BaseInv, TypeOK, PendingOK, Subject
  <2>3. RideOK(Snapshot(Subject).ride)
    BY <2>2 DEF BaseInv, RidesGood, Snapshot
  <2>4. RidesGood'
    BY <1>3, <2>1, <2>3 DEF BaseInv, RidesGood, Put
  <2> QED
    BY <1>1, <1>2, <1>3, <2>4 DEF BaseInv
<1> QED
  BY <1>4, <1>5

\* ... after which rows are still those of the memory.
LEMMA WriteGood ==
    ASSUME AInv, TypeOK', pending # <<>>, pending' = Tail(pending), UNCHANGED memory, ~Clearing,
           UNCHANGED rideTable \/ WriteRide
    PROVE  AInv'
<1>1. ~Clearing' /\ \A i \in 1 .. Len(pending') : pending'[i].op # "clearAll"
  BY RestClears DEF AInv
<1>2. ResetEmpties'
  BY <1>1 DEF ResetEmpties
<1>3. IdsIssued' /\ AccountsInv' /\ RidesInv'
  BY MemoryGood
<1>4. \A r \in DOMAIN rideTable : RideOK(rideTable[r].ride) /\ Known(rideTable[r])
  BY DEF AInv, TableInv, RowsKnown
<1>5. \A r \in DOMAIN rideTable' : RideOK(rideTable'[r].ride) /\ Known(rideTable'[r])
  <2>1. CASE UNCHANGED rideTable
    BY <1>4, <2>1
  <2>2. CASE WriteRide
    <3>1. /\ Head(pending).op = "saveRide" /\ 1 \in 1 .. Len(pending) /\ Head(pending) = pending[1]
          /\ rideTable' = Put(rideTable, Subject, Snapshot(Subject))
      BY <2>2, TailFacts DEF WriteRide, Doing, AInv
    <3>2. Subject \in DOMAIN rides
      BY <3>1 DEF AInv, TypeOK, PendingOK, Subject
    <3>3. RideOK(rides[Subject]) /\ Served(rides[Subject])
      BY <3>2 DEF AInv, RidesInv
    <3>4. RideOK(Snapshot(Subject).ride) /\ Known(Snapshot(Subject))
      BY <3>3 DEF Snapshot, Known
    <3> QED
      BY <1>4, <3>1, <3>4 DEF Put
  <2> QED
    BY <2>1, <2>2
<1>6. TableInv(rideTable')
  BY <1>5, KnownTable DEF AInv
<1>7. RowsKnown'
  BY <1>5 DEF RowsKnown, Known, Served, EmailForDriver, memory
<1>8. TableInv(rideTable)'
  BY <1>6 DEF TableInv
<1> QED
  BY <1>2, <1>3, <1>7, <1>8 DEF AInv

\* One statement of clearAll takes stops, or rows, away.
LEMMA ClearDoes ==
    ASSUME BaseInv, ClearTable
    PROVE  /\ Clearing /\ UNCHANGED memory /\ DOMAIN rides = {} /\ ResetEmpties'
           /\ DOMAIN rideTable' \subseteq DOMAIN rideTable
           /\ \A r \in DOMAIN rideTable' :
                 /\ rideTable'[r].email = rideTable[r].email
                 /\ rideTable'[r].ride.status = rideTable[r].ride.status
                 /\ rideTable'[r].ride.driver = rideTable[r].ride.driver
                 /\ rideTable'[r].ride.vehicle = rideTable[r].ride.vehicle
                 /\ rideTable'[r].ride.fee = rideTable[r].ride.fee
           /\ ~Clearing' => DOMAIN rideTable' = {}
           /\ outdated /\ ~outdated' => DOMAIN rideTable' = {}
<1>1. /\ pending # <<>> /\ pending' = Tail(pending) /\ Clearing /\ UNCHANGED memory /\ UNCHANGED rides
  BY DEF ClearTable, Doing, Clearing, memory
<1>2. /\ DOMAIN rides = {}
      /\ DOMAIN rideTable = {} \/ \E i \in 1 .. Len(pending) : pending[i] = DeleteFrom("ride_history")
  BY <1>1 DEF BaseInv, ResetEmpties
<1>3. /\ \A i \in 1 .. Len(pending') : pending'[i].op = "clearAll"
      /\ Clearing' <=> pending' # <<>>
  BY <1>1, RestClears DEF BaseInv
<1>4. /\ DOMAIN rideTable' \subseteq DOMAIN rideTable
      /\ \A r \in DOMAIN rideTable' :
            /\ rideTable'[r].email = rideTable[r].email
            /\ rideTable'[r].ride.status = rideTable[r].ride.status
            /\ rideTable'[r].ride.driver = rideTable[r].ride.driver
            /\ rideTable'[r].ride.vehicle = rideTable[r].ride.vehicle
            /\ rideTable'[r].ride.fee = rideTable[r].ride.fee
      /\ Subject = "ride_history" => DOMAIN rideTable' = {}
  <2>1. CASE Subject = "ride_stops"
    <3>1. rideTable' = [r \in DOMAIN rideTable |-> [rideTable[r] EXCEPT !.ride.stops = <<>>]]
      BY <2>1 DEF ClearTable
    <3>2. \A r \in DOMAIN rideTable : rideTable[r] \in RowType
      BY DEF BaseInv, TypeOK, RideTableOK
    <3>3. \A x \in RowType : LET y == [x EXCEPT !.ride.stops = <<>>] IN
             /\ y.email = x.email /\ y.ride.status = x.ride.status
             /\ y.ride.driver = x.ride.driver /\ y.ride.vehicle = x.ride.vehicle /\ y.ride.fee = x.ride.fee
      BY DEF RowType, RideType
    <3> QED
      BY <2>1, <3>1, <3>2, <3>3
  <2>2. CASE Subject = "ride_history"
    BY <2>2 DEF ClearTable, Empty
  <2>3. CASE Subject # "ride_stops" /\ Subject # "ride_history"
    BY <2>3 DEF ClearTable
  <2> QED
    BY <2>1, <2>2, <2>3
<1>5. DOMAIN rideTable' = {} \/ \E i \in 1 .. Len(pending') : pending'[i] = DeleteFrom("ride_history")
  <2>1. CASE DOMAIN rideTable = {}
    BY <1>4, <2>1
  <2>2. CASE DOMAIN rideTable # {}
    <3>1. PICK i \in 1 .. Len(pending) : pending[i] = DeleteFrom("ride_history")
      BY <1>2, <2>2
    <3>2. CASE i = 1
      <4>1. Subject = "ride_history"
        BY <1>1, <3>1, <3>2, TailFacts DEF Subject, DeleteFrom, BaseInv
      <4> QED
        BY <1>4, <4>1
    <3>3. CASE i # 1
      <4>1. i - 1 \in 1 .. Len(pending') /\ pending'[i - 1] = pending[i - 1 + 1] /\ i - 1 + 1 = i
        BY <1>1, <3>3, TailFacts DEF BaseInv
      <4> QED
        BY <3>1, <4>1
    <3> QED
      BY <3>2, <3>3
  <2> QED
    BY <2>1, <2>2
<1>6. ~Clearing' => DOMAIN rideTable' = {} /\ Len(pending') = 0
  BY <1>1, <1>3, <1>5, TailFacts DEF BaseInv
<1>7. ResetEmpties'
  BY <1>1, <1>2, <1>3, <1>5, <1>6 DEF ResetEmpties
<1>8. outdated /\ ~outdated' => Subject = "ride_history"
  BY DEF ClearTable
<1> QED
  BY <1>1, <1>2, <1>4, <1>6, <1>7, <1>8

\* ... and keeps BaseInv, and AInv; the one that empties ride_history restores AInv.
LEMMA ClearGood ==
    ASSUME BaseInv, TypeOK', ClearTable
    PROVE  BaseInv' /\ (AInv => AInv') /\ (outdated /\ ~outdated' => AInv')
<1>1. IdsIssued' /\ AccountsInv' /\ UNCHANGED <<rides, drivers>>
  BY ClearDoes DEF BaseInv, memory, IdsIssued, AccountsInv, Injective
<1>2. RidesInv' /\ RidesGood'
  BY <1>1, ClearDoes DEF RidesInv, RidesGood, BaseInv, RideOK
<1>3. RowsKnown'
  BY ClearDoes DEF RowsKnown
<1>4. TableInv(rideTable) => TableInv(rideTable)'
  BY ClearDoes DEF TableInv, RideOK, RowsAgree
<1>5. outdated /\ ~outdated' => TableInv(rideTable)'
  BY ClearDoes DEF TableInv
<1> QED
  BY <1>1, <1>2, <1>3, <1>4, <1>5, ClearDoes DEF AInv, BaseInv

\* A statement of clearAll that fails; AInv stays if ride_history is empty already.
LEMMA ThrowGood ==
    ASSUME BaseInv, TypeOK', ClearTableThrows
    PROVE  BaseInv' /\ (~outdated' /\ AInv => AInv') /\ (outdated => outdated')
<1>1. /\ UNCHANGED memory /\ UNCHANGED <<rides, drivers, rideTable>> /\ Len(pending') = 0
      /\ ~Clearing' /\ (outdated => outdated')
  BY DEF ClearTableThrows, memory, Clearing
<1>2. ~outdated' => DOMAIN rideTable = {}
  BY DEF ClearTableThrows
<1>3. IdsIssued' /\ ResetEmpties' /\ RidesGood'
  BY <1>1 DEF BaseInv, memory, IdsIssued, ResetEmpties, RidesGood
<1>4. AInv => AccountsInv' /\ RidesInv'
  BY <1>1, MemoryGood
<1>5. ~outdated' => RowsKnown' /\ TableInv(rideTable)'
  BY <1>1, <1>2 DEF RowsKnown, TableInv
<1> QED
  BY <1>1, <1>3, <1>4, <1>5 DEF BaseInv, AInv

\* The start.
LEMMA InitGood == Init => AInv
<1> SUFFICES ASSUME Init PROVE AInv
  OBVIOUS
<1>1. TypeOK /\ IdsIssued /\ ResetEmpties
  <2>1. IInv
    BY InitSafe
  <2>2. DOMAIN rides = {} /\ pending = <<>> /\ Len(pending) = 0
    BY EmptyTyped, BootTyped DEF Init
  <2> QED
    BY <2>1, <2>2 DEF IInv, MemoryInv, ResetEmpties, Clearing
<1>2. driverByEmail = [a \in {DemoDriver} |-> 1]
  BY EmptyTyped DEF Init, BootAccounts, RowsOfAccount
<1>3. AccountsInv
  <2>1. \A d \in Seeds : drivers[d].vehicle = SeedVehicle[d]
    BY DEF Init, BootDrivers, BootDriverIds
  <2> QED
    BY <1>2, <2>1 DEF AccountsInv, Injective
<1>4. DOMAIN rides = {} /\ DOMAIN rideTable = {}
  BY EmptyTyped, BootTyped DEF Init
<1> QED
  BY <1>1, <1>3, <1>4 DEF AInv, RidesInv, TableInv, RowsKnown

\* A write of a handler that is not the reset, made or lost.
LEMMA WriteKinds ==
    ASSUME StoreStep, ~ClearTable, ~ClearTableThrows
    PROVE  /\ pending # <<>> /\ pending' = Tail(pending) /\ UNCHANGED memory /\ ~Clearing
           /\ UNCHANGED outdated
           /\ UNCHANGED rideTable \/ WriteRide
BY DEF StoreStep, WriteRide, WriteRideFails, WriteIsLost, WriteDriverProfile, WriteRating,
       WriteCancelReason, Doing, Clearing, tables

\* The inductive step: BaseInv holds whatever fails, AInv from the start and from every
\* reset that gets through, until a clearAll throws.
LEMMA StepGood ==
    ASSUME BaseInv, [Next]_vars
    PROVE  BaseInv' /\ (~outdated' /\ (outdated \/ AInv) => AInv')
<1>1. TypeOK'
  BY TypeStep DEF BaseInv
<1>2. CASE UNCHANGED vars
  <2>1. UNCHANGED memory /\ UNCHANGED <<pending, rideTable, outdated, rides, drivers>>
    BY <1>2 DEF vars, tables, memory
  <2>2. IdsIssued' /\ ResetEmpties' /\ RidesGood' /\ (AccountsInv => AccountsInv')
    BY <2>1 DEF BaseInv, memory, IdsIssued, ResetEmpties, Clearing, RidesGood, AccountsInv, Injective
  <2>3. BaseInv'
    BY <1>1, <2>1, <2>2 DEF BaseInv, Clearing
  <2>4. AInv => AInv'
    <3>1. AInv => RidesInv'
      BY <2>1, MemoryGood
    <3>2. AInv => TableInv(rideTable)' /\ RowsKnown'
      BY <2>1 DEF AInv, memory, Clearing, TableInv, RowsKnown, Known, Served, EmailForDriver
    <3> QED
      BY <1>1, <2>2, <3>1, <3>2 DEF AInv
  <2> QED
    BY <2>1, <2>3, <2>4
<1>3. CASE StoreStep
  <2>1. CASE ClearTable
    BY <1>1, <2>1, ClearGood
  <2>2. CASE ClearTableThrows
    BY <1>1, <2>2, ThrowGood
  <2>3. CASE ~ClearTable /\ ~ClearTableThrows
    BY <1>1, <1>3, <2>3, WriteKinds, WriteBase, WriteGood
  <2> QED
    BY <2>1, <2>2, <2>3
<1>4. CASE Handler
  <2>1. UNCHANGED outdated
    BY <1>4 DEF Handler, tables
  <2> QED
    BY <1>1, <1>4, <2>1, HandlerBase, HandlerGood
<1>5. CASE Reset
  <2>1. UNCHANGED outdated
    BY <1>5 DEF Reset, tables
  <2> QED
    BY <1>1, <1>5, <2>1, ResetGood
<1>6. CASE Crash
  <2>1. UNCHANGED outdated
    BY <1>6 DEF Crash, tables
  <2> QED
    BY <1>1, <1>6, <2>1, CrashBase, CrashGood
<1> QED
  BY <1>2, <1>3, <1>4, <1>5, <1>6, HandlerDoes DEF BaseInv

\* ... so the invariant holds of every state the backend reaches.
LEMMA AccountsHold == Spec => []OInv
<1>1. Init => OInv
  BY InitGood, GoodIsBase DEF OInv
<1>2. OInv /\ [Next]_vars => OInv'
  BY StepGood DEF OInv
<1> QED
  BY <1>1, <1>2, PTL DEF Spec

-----------------------------------------------------------------------------
(* The theorems *)

\* A ride has a driver from its assignment on and not before, and a cancelled ride
\* was charged exactly if it had one: over all handlers, resets, crashes at any
\* step, saves that fail unnoticed and resets whose clearAll throws.
THEOREM DriverGoesWithStatus == Spec => []DriverFromAssignmentOn
<1>1. OInv => DriverFromAssignmentOn
  <2>1. NoDriver \notin DriverIds
    BY DEF DriverIds, NoDriver
  <2> QED
    BY <2>1 DEF OInv, BaseInv, RidesGood, RideOK, DriverFromAssignmentOn, Active
<1> QED
  BY <1>1, AccountsHold, PTL

\* No two accounts ever share a driver, and no two rows of ride_history disagree on
\* whose driver it is or what he drives, although the numbers of drivers without a
\* saved ride are handed out again after every restart, and saves may fail; except from
\* a reset whose clearAll throws over rows of ride_history to the next that gets through.
THEOREM DriversNotShared == Spec => []OneAccountPerDriver
<1>1. OInv => OneAccountPerDriver
  BY DEF OInv, AInv, AccountsInv, Injective, TableInv, RowsAgree, OneAccountPerDriver
<1> QED
  BY <1>1, AccountsHold, PTL

-----------------------------------------------------------------------------
(* The store *)

\* A ride is its row, or what its handler, about to save it, has made of its row.
InStep ==
    ~Clearing => \A r \in DOMAIN rides :
        \/ r \in DOMAIN rideTable /\ rideTable[r].ride = rides[r]
        \/ /\ Saves(r)
           /\ r \in DOMAIN rideTable => Moves(rideTable[r].ride, rides[r])
           /\ r \notin DOMAIN rideTable => Fresh(rides[r])

LInv == IInv /\ StoreInv /\ AInv /\ ~outdated /\ InStep

\* The step of a handler: it starts with all rows up to date.
LEMMA HandlerInStep ==
    ASSUME LInv, Handler
    PROVE  InStep'
<1>1. ~Clearing /\ UNCHANGED rideTable /\ \A r : ~Saves(r)
  BY DEF Handler, MutexFree, Clearing, tables, Saves
<1>2. \A r \in DOMAIN rides : r \in DOMAIN rideTable /\ rideTable[r].ride = rides[r]
  BY <1>1 DEF LInv, InStep
<1>3. DOMAIN rideTable \subseteq DOMAIN rides
  BY <1>1 DEF LInv, StoreInv, RowsInStep
<1> SUFFICES ASSUME NEW r \in DOMAIN rides'
             PROVE  \/ r \in DOMAIN rideTable /\ rideTable[r].ride = rides'[r]
                    \/ /\ Saves(r)'
                       /\ r \in DOMAIN rideTable => Moves(rideTable[r].ride, rides'[r])
                       /\ r \notin DOMAIN rideTable => Fresh(rides'[r])
  BY <1>1 DEF InStep
<1>4. CASE r \in DOMAIN rides
  BY <1>2, <1>4 DEF Handler, RidesStep
<1>5. CASE r \notin DOMAIN rides
  BY <1>3, <1>5 DEF Handler, RidesStep
<1> QED
  BY <1>4, <1>5

\* The transaction of saveRide, seen from the table: a new row, or one move of an
\* old one, or nothing new.
LEMMA RideWritten ==
    ASSUME LInv, WriteRide
    PROVE  /\ ~Clearing /\ Subject \in DOMAIN rides /\ Subject \in RideIds
           /\ DOMAIN rideTable' = DOMAIN rideTable \cup {Subject}
           /\ rideTable'[Subject] = Snapshot(Subject)
           /\ \A q \in DOMAIN rideTable : q # Subject =>
                 rideTable'[q] = rideTable[q] /\ q \in DOMAIN rides /\ rideTable[q].ride = rides[q]
           /\ Subject \notin DOMAIN rideTable => Fresh(rides[Subject])
           /\ Subject \in DOMAIN rideTable =>
                 \/ rideTable[Subject].ride = rides[Subject]
                 \/ Moves(rideTable[Subject].ride, rides[Subject])
<1>1. /\ Head(pending).op = "saveRide" /\ 1 \in 1 .. Len(pending) /\ Head(pending) = pending[1]
      /\ pending # <<>> /\ ~Clearing
      /\ rideTable' = Put(rideTable, Subject, Snapshot(Subject))
  BY TailFacts DEF WriteRide, Doing, LInv, AInv, Clearing
<1>2. Subject \in DOMAIN rides /\ Len(pending) = 1 /\ Subject \in RideIds
  <2>1. PendingOK /\ DOMAIN rides \subseteq RideIds
    BY DEF LInv, AInv, TypeOK, RidesOK
  <2>2. 1 = Len(pending) /\ pending[1].key \in DOMAIN rides
    BY <1>1, <2>1 DEF PendingOK
  <2> QED
    BY <1>1, <2>1, <2>2 DEF Subject
<1>3. /\ DOMAIN rideTable' = DOMAIN rideTable \cup {Subject}
      /\ rideTable'[Subject] = Snapshot(Subject)
      /\ \A q \in DOMAIN rideTable : q # Subject => rideTable'[q] = rideTable[q]
  BY <1>1 DEF Put
<1>4. ASSUME NEW q \in DOMAIN rideTable, q # Subject
      PROVE  q \in DOMAIN rides /\ rideTable[q].ride = rides[q]
  <2>1. pending[Len(pending)] # SaveRide(q)
    BY <1>1, <1>2, <1>4 DEF SaveRide, Subject
  <2> QED
    BY <1>1, <2>1 DEF LInv, StoreInv, RowsInStep
<1>5. /\ Subject \notin DOMAIN rideTable => Fresh(rides[Subject])
      /\ Subject \in DOMAIN rideTable =>
            \/ rideTable[Subject].ride = rides[Subject]
            \/ Moves(rideTable[Subject].ride, rides[Subject])
  BY <1>1, <1>2 DEF LInv, InStep
<1> QED
  BY <1>1, <1>2, <1>3, <1>4, <1>5

\* The writes of the store.
LEMMA StoreInStepKept ==
    ASSUME LInv, Reliable, StoreStep
    PROVE  InStep'
<1>1. pending # <<>> /\ pending' = Tail(pending) /\ UNCHANGED rides
  BY DEF StoreStep, Doing, WriteRide, WriteRideFails, WriteIsLost, WriteDriverProfile, WriteRating,
         WriteCancelReason, ClearTable, ClearTableThrows, Reliable, memory
<1>2. CASE WriteRide
  <2>1. \A r \in DOMAIN rides \ {Subject} : r \in DOMAIN rideTable /\ rideTable[r].ride = rides[r]
    <3> SUFFICES ASSUME NEW r \in DOMAIN rides \ {Subject}
                 PROVE  r \in DOMAIN rideTable /\ rideTable[r].ride = rides[r]
      OBVIOUS
    <3>1. /\ 1 \in 1 .. Len(pending) /\ pending[1] = Head(pending) /\ Head(pending).op = "saveRide"
          /\ ~Clearing
      BY <1>1, <1>2, TailFacts DEF WriteRide, Doing, LInv, AInv, Clearing
    <3>2. pending[Len(pending)] # SaveRide(r)
      BY <3>1 DEF LInv, AInv, TypeOK, PendingOK, SaveRide, Subject
    <3> QED
      BY <3>1, <3>2 DEF LInv, InStep, Saves
  <2>2. rideTable'[Subject].ride = rides[Subject]
    BY <1>2, RideWritten DEF Snapshot
  <2>3. \A r \in DOMAIN rides : r \in DOMAIN rideTable' /\ rideTable'[r].ride = rides[r]
    BY <1>2, <2>1, <2>2, RideWritten
  <2> QED
    BY <1>1, <2>3 DEF InStep
<1>3. CASE WriteDriverProfile \/ WriteRating \/ WriteCancelReason
  <2>1. Head(pending).op \notin {"saveRide", "clearAll"} /\ UNCHANGED rideTable
    BY <1>3 DEF WriteDriverProfile, WriteRating, WriteCancelReason, Doing
  <2>2. ASSUME NEW r, Saves(r)
        PROVE  Saves(r)'
    <3>1. Head(pending) # SaveRide(r)
      BY <2>1 DEF SaveRide
    <3>2. Len(pending) # 1
      BY <1>1, <2>2, <3>1, TailFacts DEF Saves, LInv, AInv
    <3> QED
      BY <1>1, <2>2, <3>2, TailFacts DEF Saves, LInv, AInv
  <2>3. ~Clearing
    BY <2>1 DEF Clearing
  <2> QED
    BY <1>1, <2>1, <2>2, <2>3 DEF InStep, LInv
<1>4. CASE ClearTable
  <2>1. Clearing
    BY <1>4 DEF ClearTable, Doing, Clearing
  <2> QED
    BY <1>1, <2>1 DEF LInv, AInv, ResetEmpties, InStep
<1> QED
  BY <1>2, <1>3, <1>4 DEF StoreStep, WriteRideFails, WriteIsLost, ClearTableThrows, Reliable

\* No table is outdated while no statement of clearAll fails.
LEMMA NotOutdated ==
    ASSUME LInv, Reliable, [Next]_vars
    PROVE  ~outdated'
BY HandlerDoes DEF LInv, AInv, vars, tables, Handler, Reset, Crash, StoreStep, WriteRide, WriteRideFails,
   WriteIsLost, WriteDriverProfile, WriteRating, WriteCancelReason, ClearTable, ClearTableThrows, Reliable

\* The inductive step, when no statement fails.
LEMMA StepInStep ==
    ASSUME Reliable, LInv, [Next]_vars
    PROVE  LInv'
<1>1. IInv' /\ StoreInv' /\ AInv' /\ ~outdated'
  BY StepSafe, StepGood, GoodIsBase, NotOutdated DEF LInv, IInv
<1>2. CASE UNCHANGED vars
  BY <1>1, <1>2 DEF vars, memory, tables, LInv, InStep, Saves, Clearing
<1>3. CASE Reset
  <2>1. DOMAIN rides' = {}
    BY <1>3, EmptyTyped, BootTyped DEF Reset, Boot
  <2> QED
    BY <1>1, <2>1 DEF LInv, InStep
<1>4. CASE Crash
  <2>1. rides' = BootRides(rideTable) /\ UNCHANGED rideTable
    BY <1>4 DEF Crash, Boot, tables
  <2> QED
    BY <1>1, <2>1 DEF LInv, InStep, BootRides
<1> QED
  BY <1>1, <1>2, <1>3, <1>4, HandlerInStep, StoreInStepKept, HandlerDoes DEF LInv, AInv

\* ... so the invariant holds of every state the backend reaches.
LEMMA InStepHolds ==
    ASSUME Reliable
    PROVE  Spec => []LInv
<1>1. Init => LInv
  <2> SUFFICES ASSUME Init PROVE LInv
    OBVIOUS
  <2>1. DOMAIN rides = {}
    BY EmptyTyped, BootTyped DEF Init
  <2> QED
    BY <2>1, InitSafe, InitGood DEF LInv, IInv, InStep, Init
<1>2. LInv /\ [Next]_vars => LInv'
  BY StepInStep
<1> QED
  BY <1>1, <1>2, PTL DEF Spec

-----------------------------------------------------------------------------
(* The theorems *)

\* Whenever no handler is running, ride_history is exactly the memory, row by row
\* with the account of the driver; while one runs, they differ only in the ride it
\* has yet to save or in what the reset has yet to delete.
THEOREM StoreFollowsMemory ==
    ASSUME Reliable
    PROVE  Spec => []StoreInStep
<1>1. LInv => StoreInStep
  <2> SUFFICES ASSUME LInv, ~Clearing
               PROVE  /\ DOMAIN rideTable \subseteq DOMAIN rides
                      /\ \A r \in DOMAIN rides :
                            \/ r \in DOMAIN rideTable /\ rideTable[r] = Snapshot(r)
                            \/ pending # <<>> /\ pending[Len(pending)] = SaveRide(r)
    BY DEF StoreInStep
  <2>1. DOMAIN rideTable \subseteq DOMAIN rides
    BY DEF LInv, StoreInv, RowsInStep
  <2>2. ASSUME NEW r \in DOMAIN rideTable, rideTable[r].ride = rides[r]
        PROVE  rideTable[r] = Snapshot(r)
    <3>1. rideTable[r] \in RowType /\ rideTable[r].email = EmailForDriver(rides[r].driver)
      BY <2>2 DEF LInv, AInv, TypeOK, RideTableOK, RowsKnown, Known
    <3> QED
      BY <2>2, <3>1 DEF RowType, Snapshot
  <2> QED
    BY <2>1, <2>2 DEF LInv, InStep, Saves
<1> QED
  BY <1>1, InStepHolds, PTL

\* Which steps touch ride_history.
LEMMA TableChanges ==
    ASSUME LInv, Reliable, [Next]_vars
    PROVE  \/ UNCHANGED rideTable
           \/ WriteRide
           \/ Clearing /\ ClearTable
BY HandlerDoes DEF LInv, AInv, vars, tables, Handler, Reset, Crash, StoreStep, WriteRideFails, WriteIsLost,
   WriteDriverProfile, WriteRating, WriteCancelReason, ClearTable, ClearTableThrows, Reliable, Doing, Clearing

\* The beginning of a sequence that has been added to.
LEMMA Beginning ==
    ASSUME NEW S, NEW s \in Seq(S), NEW e \in S
    PROVE  SubSeq(s, 1, Len(s)) = s /\ SubSeq(Append(s, e), 1, Len(s)) = s
<1>1. Len(s) \in Nat /\ Append(s, e) \in Seq(S) /\ Len(Append(s, e)) = Len(s) + 1
      /\ \A i \in 1 .. Len(s) : Append(s, e)[i] = s[i]
  BY AppendProperties, LenProperties
<1> QED
  BY <1>1

\* A row stays the row of its ride: over crashes and restarts no other ride is ever
\* saved under its number, its driver never changes, and stops are only added.
THEOREM RowsKeepIdentity ==
    ASSUME Reliable
    PROVE  Spec => DurableIdentity
<1> DEFINE Kept(r) ==
      LET old == rideTable[r].ride  new == rideTable'[r].ride IN
      /\ <<old.rider, old.vehicle, old.source, old.destination>> =
            <<new.rider, new.vehicle, new.source, new.destination>>
      /\ old.driver \in {NoDriver, new.driver}
      /\ Clearing \/ SubSeq(new.stops, 1, Len(old.stops)) = old.stops
<1>1. ASSUME LInv, [Next]_vars, NEW r \in DOMAIN rideTable, r \in DOMAIN rideTable'
      PROVE  Kept(r)
  <2> DEFINE old == rideTable[r].ride
             new == rideTable'[r].ride
  <2>1. old \in RideType /\ old.stops \in Seq(Locations) /\ RideOK(old)
    BY <1>1 DEF LInv, AInv, TypeOK, RideTableOK, RowType, RideType, TableInv
  <2>2. CASE new = old
    BY <2>1, <2>2, Beginning, BackendAssumption
  <2>3. CASE Moves(old, new)
    <3>1. old.driver \in {NoDriver, new.driver}
      BY <2>1, <2>3 DEF Moves, RideOK
    <3>2. SubSeq(new.stops, 1, Len(old.stops)) = old.stops
      BY <2>1, <2>3, Beginning, BackendAssumption DEF Moves
    <3> QED
      BY <2>3, <3>1, <3>2 DEF Moves
  <2>4. CASE WriteRide
    <3>1. r # Subject => new = old
      BY <1>1, <2>4, RideWritten
    <3>2. r = Subject => new = old \/ Moves(old, new)
      BY <1>1, <2>4, RideWritten DEF Snapshot
    <3> QED
      BY <2>2, <2>3, <3>1, <3>2
  <2>5. CASE Clearing /\ ClearTable
    <3>1. CASE Subject = "ride_stops"
      <4>1. rideTable'[r] = [rideTable[r] EXCEPT !.ride.stops = <<>>] /\ rideTable[r] \in RowType
        BY <1>1, <2>5, <3>1 DEF ClearTable, LInv, AInv, TypeOK, RideTableOK
      <4> QED
        BY <2>5, <4>1 DEF RowType, RideType
    <3>2. CASE Subject = "ride_history"
      BY <1>1, <2>5, <3>2 DEF ClearTable, Empty
    <3>3. CASE Subject # "ride_stops" /\ Subject # "ride_history"
      BY <2>2, <2>5, <3>3 DEF ClearTable
    <3> QED
      BY <3>1, <3>2, <3>3
  <2> QED
    BY <1>1, <2>2, <2>4, <2>5, TableChanges
<1>2. LInv /\ [Next]_vars => [\A r \in DOMAIN rideTable \cap DOMAIN rideTable' : Kept(r)]_vars
  BY <1>1
<1> QED
  BY <1>2, InStepHolds, PTL DEF Spec, DurableIdentity

\* The entry of a row in the ledger.
EntryOf(x) == [status |-> x.status, driver |-> x.driver, fee |-> x.fee]
LedgerOf(T) == [r \in DOMAIN T |-> EntryOf(T[r].ride)]

\* U is T but for the row r.
RowOf(T, U, r) ==
    /\ r \in DOMAIN T /\ DOMAIN U = DOMAIN T
    /\ \A q \in DOMAIN T : q # r => U[q] = T[q]

\* The ledger of a table one of whose rows changed.
LEMMA EntryChanges ==
    ASSUME NEW T, NEW U, NEW r, RowOf(T, U, r)
    PROVE  LedgerOf(U) = [LedgerOf(T) EXCEPT ![r] = EntryOf(U[r].ride)]
BY DEF RowOf, LedgerOf

LEMMA StatusChanges ==
    ASSUME NEW T, NEW U, NEW r, RowOf(T, U, r),
           U[r].ride.driver = T[r].ride.driver, U[r].ride.fee = T[r].ride.fee
    PROVE  LedgerOf(U) = [LedgerOf(T) EXCEPT ![r].status = U[r].ride.status]
<1>1. LedgerOf(T)[r] = EntryOf(T[r].ride)
  BY DEF RowOf, LedgerOf
<1>2. EntryOf(U[r].ride) = [EntryOf(T[r].ride) EXCEPT !.status = U[r].ride.status]
  BY DEF EntryOf
<1> QED
  BY <1>1, <1>2, EntryChanges

LEMMA DriverChanges ==
    ASSUME NEW T, NEW U, NEW r, RowOf(T, U, r), U[r].ride.fee = T[r].ride.fee,
           NEW s, s = U[r].ride.status, NEW v, v = U[r].ride.driver
    PROVE  LedgerOf(U) = [LedgerOf(T) EXCEPT ![r].status = s, ![r].driver = v]
<1> DEFINE L == LedgerOf(T)
<1>1. L[r] = EntryOf(T[r].ride) /\ r \in DOMAIN L /\ L = [q \in DOMAIN L |-> L[q]]
  BY DEF RowOf, LedgerOf
<1>2. PICK a, b, c : /\ a = T[r].ride.status /\ b = T[r].ride.driver /\ c = T[r].ride.fee
  OBVIOUS
<1>3. PICK e : e = L[r]
  OBVIOUS
<1>4. e = [status |-> a, driver |-> b, fee |-> c]
  BY <1>1, <1>2, <1>3 DEF EntryOf
<1>5. EntryOf(U[r].ride) = [status |-> s, driver |-> v, fee |-> c]
  BY <1>2 DEF EntryOf
<1>6. LedgerOf(U) = [L EXCEPT ![r] = EntryOf(U[r].ride)]
  BY EntryChanges
<1> HIDE DEF L
<1>7. [e EXCEPT !.status = s, !.driver = v] = [status |-> s, driver |-> v, fee |-> c]
  <2>1. PICK q : q = [e EXCEPT !.status = s]
    OBVIOUS
  <2>2. q = [status |-> s, driver |-> b, fee |-> c]
    BY ONLY <1>4, <2>1
  <2>3. [q EXCEPT !.driver = v] = [status |-> s, driver |-> v, fee |-> c]
    BY ONLY <2>2
  <2>4. [[e EXCEPT !.status = s] EXCEPT !.driver = v] = [e EXCEPT !.status = s, !.driver = v]
    OBVIOUS
  <2> QED
    BY ONLY <2>1, <2>3, <2>4
<1>8. [L EXCEPT ![r].status = s, ![r].driver = v] = [L EXCEPT ![r] = [L[r] EXCEPT !.status = s, !.driver = v]]
  BY <1>1
<1>9. LedgerOf(U) = [L EXCEPT ![r].status = s, ![r].driver = v]
  BY <1>3, <1>5, <1>6, <1>7, <1>8
<1> QED
  BY <1>9 DEF L

LEMMA FeeChanges ==
    ASSUME NEW T, NEW U, NEW r, RowOf(T, U, r), U[r].ride.driver = T[r].ride.driver,
           NEW s, s = U[r].ride.status, NEW v, v = U[r].ride.fee
    PROVE  LedgerOf(U) = [LedgerOf(T) EXCEPT ![r].status = s, ![r].fee = v]
<1> DEFINE L == LedgerOf(T)
<1>1. L[r] = EntryOf(T[r].ride) /\ r \in DOMAIN L /\ L = [q \in DOMAIN L |-> L[q]]
  BY DEF RowOf, LedgerOf
<1>2. PICK a, b, c : /\ a = T[r].ride.status /\ b = T[r].ride.driver /\ c = T[r].ride.fee
  OBVIOUS
<1>3. PICK e : e = L[r]
  OBVIOUS
<1>4. e = [status |-> a, driver |-> b, fee |-> c]
  BY <1>1, <1>2, <1>3 DEF EntryOf
<1>5. EntryOf(U[r].ride) = [status |-> s, driver |-> b, fee |-> v]
  BY <1>2 DEF EntryOf
<1>6. LedgerOf(U) = [L EXCEPT ![r] = EntryOf(U[r].ride)]
  BY EntryChanges
<1> HIDE DEF L
<1>7. [e EXCEPT !.status = s, !.fee = v] = [status |-> s, driver |-> b, fee |-> v]
  <2>1. PICK q : q = [e EXCEPT !.status = s]
    OBVIOUS
  <2>2. q = [status |-> s, driver |-> b, fee |-> c]
    BY ONLY <1>4, <2>1
  <2>3. [q EXCEPT !.fee = v] = [status |-> s, driver |-> b, fee |-> v]
    BY ONLY <2>2
  <2>4. [[e EXCEPT !.status = s] EXCEPT !.fee = v] = [e EXCEPT !.status = s, !.fee = v]
    OBVIOUS
  <2> QED
    BY ONLY <2>1, <2>3, <2>4
<1>8. [L EXCEPT ![r].status = s, ![r].fee = v] = [L EXCEPT ![r] = [L[r] EXCEPT !.status = s, !.fee = v]]
  BY <1>1
<1>9. LedgerOf(U) = [L EXCEPT ![r].status = s, ![r].fee = v]
  BY <1>3, <1>5, <1>6, <1>7, <1>8
<1> QED
  BY <1>9 DEF L

\* Saving a ride is one move of RideLifecycle, or none.
LEMMA WriteIsMove ==
    ASSUME LInv, WriteRide
    PROVE  [Ledger!LedgerNext]_(LedgerOf(rideTable))
<1>1. PICK r : r = Subject
  OBVIOUS
<1>2. PICK x : x = rideTable[r].ride
  OBVIOUS
<1>3. PICK y : y = rides[r]
  OBVIOUS
<1>4. /\ r \in DOMAIN rides /\ r \in RideIds
      /\ DOMAIN rideTable' = DOMAIN rideTable \cup {r}
      /\ rideTable'[r].ride = y
      /\ \A q \in DOMAIN rideTable : q # r =>
            rideTable'[q] = rideTable[q] /\ q \in DOMAIN rides /\ rideTable[q].ride = rides[q]
      /\ r \notin DOMAIN rideTable => Fresh(y)
      /\ r \in DOMAIN rideTable => x = y \/ Moves(x, y)
  BY <1>1, <1>2, <1>3, RideWritten DEF Snapshot
<1>5. y \in RideType /\ (r \in DOMAIN rideTable => x \in RideType)
  BY <1>2, <1>3, <1>4 DEF LInv, AInv, TypeOK, RidesOK, RideTableOK, RowType
<1>6. CASE r \notin DOMAIN rideTable
  <2>1. EntryOf(y) = [status |-> "REQUESTED", driver |-> NoDriver, fee |-> 0]
    BY <1>4, <1>6 DEF Fresh, EntryOf
  <2>2. LedgerOf(rideTable') = [q \in DOMAIN LedgerOf(rideTable) \cup {r} |->
              IF q = r THEN [status |-> "REQUESTED", driver |-> NoDriver, fee |-> 0]
                       ELSE LedgerOf(rideTable)[q]]
    BY <1>4, <1>6, <2>1 DEF LedgerOf
  <2>3. DOMAIN LedgerOf(rideTable) = DOMAIN rideTable
    BY DEF LedgerOf
  <2>4. Ledger!Request(r)
    BY <1>6, <2>2, <2>3 DEF Ledger!Request, LedgerOf, EntryOf
  <2> QED
    BY <1>4, <2>4 DEF Ledger!LedgerNext
<1>7. CASE r \in DOMAIN rideTable
  <2>1. RowOf(rideTable, rideTable', r)
    BY <1>4, <1>7 DEF RowOf
  <2>2. /\ DOMAIN LedgerOf(rideTable) = DOMAIN rideTable
        /\ \A q \in DOMAIN rideTable : LedgerOf(rideTable)[q] = EntryOf(rideTable[q].ride)
    BY DEF LedgerOf
  <2>3. CASE y.status = x.status /\ y.driver = x.driver /\ y.fee = x.fee
    <3>1. EntryOf(rideTable'[r].ride) = LedgerOf(rideTable)[r]
      BY <1>2, <1>4, <1>7, <2>2, <2>3 DEF EntryOf
    <3>2. \A q \in DOMAIN rideTable : EntryOf(rideTable'[q].ride) = EntryOf(rideTable[q].ride)
      BY <1>4, <2>2, <3>1
    <3>3. LedgerOf(rideTable') = LedgerOf(rideTable)
      BY <2>1, <3>2 DEF RowOf, LedgerOf
    <3> QED
      BY <3>3 DEF LedgerOf, EntryOf
  <2>4. CASE x.status = "REQUESTED" /\ y.status = "DRIVER_ASSIGNED" /\ y.driver \in DriverIds /\ y.fee = x.fee
    <3>1. LedgerOf(rideTable') = [LedgerOf(rideTable) EXCEPT ![r].status = "DRIVER_ASSIGNED",
                                                             ![r].driver = y.driver]
      BY <1>2, <1>4, <2>1, <2>4, DriverChanges
    <3>2. ASSUME NEW q \in DOMAIN rideTable,
                 rideTable[q].ride.driver = y.driver, rideTable[q].ride.status \in Active
          PROVE  FALSE
      <4>1. q # r
        BY <1>2, <2>4, <3>2 DEF Active
      <4>2. rides[q].driver = y.driver /\ rides[q].status \in Active /\ q \in DOMAIN rides
        BY <1>4, <3>2, <4>1
      <4> QED
        BY <1>3, <1>4, <2>4, <4>1, <4>2 DEF LInv, IInv, MemoryInv, ActiveExclusive, Active
    <3>3. \A q \in DOMAIN LedgerOf(rideTable) :
              LedgerOf(rideTable)[q].driver = y.driver =>
                  LedgerOf(rideTable)[q].status \notin Ledger!Serving
      BY <2>2, <3>2 DEF Ledger!Serving, Active, EntryOf
    <3>4. r \in DOMAIN LedgerOf(rideTable) /\ LedgerOf(rideTable)[r].status = "REQUESTED"
      BY <1>2, <1>7, <2>2, <2>4 DEF EntryOf
    <3>5. Ledger!Assign(r, y.driver)
      BY <3>1, <3>3, <3>4 DEF Ledger!Assign, LedgerOf, EntryOf
    <3> QED
      BY <1>4, <2>4, <3>5 DEF Ledger!LedgerNext
  <2>5. CASE /\ x.status = "DRIVER_ASSIGNED" /\ y.status = "IN_PROGRESS"
             /\ y.driver = x.driver /\ y.fee = x.fee
    <3>1. LedgerOf(rideTable') = [LedgerOf(rideTable) EXCEPT ![r].status = "IN_PROGRESS"]
      BY <1>2, <1>4, <2>1, <2>5, StatusChanges
    <3>2. r \in DOMAIN LedgerOf(rideTable) /\ LedgerOf(rideTable)[r].status = "DRIVER_ASSIGNED"
      BY <1>2, <1>7, <2>2, <2>5 DEF EntryOf
    <3>3. Ledger!Start(r)
      BY <3>1, <3>2 DEF Ledger!Start, LedgerOf, EntryOf
    <3> QED
      BY <1>4, <3>3 DEF Ledger!LedgerNext
  <2>6. CASE /\ x.status = "IN_PROGRESS" /\ y.status = "COMPLETED"
             /\ y.driver = x.driver /\ y.fee = x.fee
    <3>1. LedgerOf(rideTable') = [LedgerOf(rideTable) EXCEPT ![r].status = "COMPLETED"]
      BY <1>2, <1>4, <2>1, <2>6, StatusChanges
    <3>2. r \in DOMAIN LedgerOf(rideTable) /\ LedgerOf(rideTable)[r].status = "IN_PROGRESS"
      BY <1>2, <1>7, <2>2, <2>6 DEF EntryOf
    <3>3. Ledger!Complete(r)
      BY <3>1, <3>2 DEF Ledger!Complete, LedgerOf, EntryOf
    <3> QED
      BY <1>4, <3>3 DEF Ledger!LedgerNext
  <2>7. CASE /\ x.status \notin Finished /\ y.status = "CANCELLED" /\ y.driver = x.driver
             /\ y.fee = IF x.status \in Active THEN CancellationFee ELSE 0
    <3>1. r \in DOMAIN LedgerOf(rideTable) /\ LedgerOf(rideTable)[r].status = x.status
      BY <1>2, <1>7, <2>2 DEF EntryOf
    <3>2. x.status \in Ledger!Serving \cup {"REQUESTED"}
      BY <1>5, <1>7, <2>7 DEF RideType, RideStatuses, Active, Finished, Ledger!Serving
    <3>3. y.fee = IF LedgerOf(rideTable)[r].status \in Ledger!Serving THEN CancellationFee ELSE 0
      BY <2>7, <3>1 DEF Active, Ledger!Serving
    <3>4. LedgerOf(rideTable') = [LedgerOf(rideTable) EXCEPT ![r].status = "CANCELLED",
              ![r].fee = IF LedgerOf(rideTable)[r].status \in Ledger!Serving
                         THEN CancellationFee ELSE 0]
      BY <1>2, <1>4, <2>1, <2>7, <3>3, FeeChanges
    <3>5. Ledger!Cancel(r)
      BY <3>1, <3>2, <3>4 DEF Ledger!Cancel, LedgerOf, EntryOf
    <3> QED
      BY <1>4, <3>5 DEF Ledger!LedgerNext
  <2> QED
    BY <1>4, <1>7, <2>3, <2>4, <2>5, <2>6, <2>7 DEF Moves
<1> QED
  BY <1>6, <1>7

\* clearAll leaves the ledger as it is until it empties it.
LEMMA ClearIsClear ==
    ASSUME LInv, ClearTable
    PROVE  [Ledger!LedgerNext]_(LedgerOf(rideTable))
<1>1. CASE Subject = "ride_stops"
  <2>1. /\ rideTable' = [r \in DOMAIN rideTable |-> [rideTable[r] EXCEPT !.ride.stops = <<>>]]
        /\ \A r \in DOMAIN rideTable : rideTable[r] \in RowType
    BY <1>1 DEF ClearTable, LInv, AInv, TypeOK, RideTableOK
  <2>2. \A x \in RowType : EntryOf([x EXCEPT !.ride.stops = <<>>].ride) = EntryOf(x.ride)
    BY DEF RowType, RideType, EntryOf
  <2>3. LedgerOf(rideTable') = LedgerOf(rideTable)
    BY <2>1, <2>2 DEF LedgerOf
  <2> QED
    BY <2>3 DEF LedgerOf, EntryOf
<1>2. CASE Subject = "ride_history"
  <2>1. DOMAIN rideTable' = {}
    BY <1>2 DEF ClearTable, Empty
  <2>2. Ledger!Clear
    BY <2>1 DEF Ledger!Clear
  <2> QED
    BY <2>2 DEF Ledger!LedgerNext, LedgerOf, EntryOf
<1>3. CASE Subject # "ride_stops" /\ Subject # "ride_history"
  <2>1. UNCHANGED rideTable
    BY <1>3 DEF ClearTable
  <2> QED
    BY <2>1 DEF LedgerOf, EntryOf
<1> QED
  BY <1>1, <1>2, <1>3

\* The durable history implements RideLifecycle: whatever crashes, a saved ride only
\* moves forward, gets one driver, who serves no other ride, is charged exactly when it
\* is cancelled after assignment, and stays as it ended.
THEOREM ImplementsRideLifecycle ==
    ASSUME Reliable
    PROVE  Spec => DurableLifecycle
<1>1. Init => Ledger!LedgerInit
  <2> SUFFICES ASSUME Init PROVE Ledger!LedgerInit
    OBVIOUS
  <2>1. DOMAIN rideTable = {}
    BY EmptyTyped DEF Init
  <2> QED
    BY <2>1 DEF Ledger!LedgerInit
<1>2. LInv /\ [Next]_vars => [Ledger!LedgerNext]_(LedgerOf(rideTable))
  <2> SUFFICES ASSUME LInv, [Next]_vars PROVE [Ledger!LedgerNext]_(LedgerOf(rideTable))
    OBVIOUS
  <2>1. CASE UNCHANGED rideTable
    BY <2>1 DEF LedgerOf, EntryOf
  <2> QED
    BY <2>1, TableChanges, WriteIsMove, ClearIsClear
<1> QED
  BY <1>1, <1>2, InStepHolds, PTL DEF Spec, DurableLifecycle, Ledger!LedgerSpec, LedgerOf, EntryOf

-----------------------------------------------------------------------------
(* Ratings *)

\* The table T says that the driver d completed the ride r.
Rated(T, r, d) ==
    /\ r \in DOMAIN T
    /\ T[r].ride.status = "COMPLETED"
    /\ T[r].ride.driver = d

RatingsInv ==
    /\ ~Clearing => \A r \in DOMAIN ratings : Rated(rideTable, r, ratings[r])
    /\ \A i \in 1 .. Len(pending) :
          pending[i].op = "saveRating" => Rated(rideTable, pending[i].key, pending[i].row)
    /\ Clearing =>
          \/ DOMAIN ratings = {}
          \/ \E i \in 1 .. Len(pending) : pending[i] = DeleteFrom("ride_ratings")

\* Writes none of which is a rating.
NoRating(p) == p \in Seq(WriteType) /\ \A i \in 1 .. Len(p) : p[i].op # "saveRating"

LEMMA OneMoreWrite ==
    ASSUME NEW s, NoRating(s), NEW w \in WriteType, w.op # "saveRating"
    PROVE  NoRating(s \o <<w>>)
<1>1. <<w>> \in Seq(WriteType) /\ Len(<<w>>) = 1 /\ <<w>>[1] = w /\ s \in Seq(WriteType)
  BY DEF NoRating
<1>2. /\ s \o <<w>> \in Seq(WriteType)
      /\ Len(s \o <<w>>) = Len(s) + 1
      /\ \A i \in 1 .. Len(s) + 1 : (s \o <<w>>)[i] = IF i <= Len(s) THEN s[i] ELSE <<w>>[i - Len(s)]
  BY <1>1, ConcatProperties
<1>3. ASSUME NEW i \in 1 .. Len(s) + 1
      PROVE  (s \o <<w>>)[i].op # "saveRating"
  <2>1. Len(s) \in Nat
    BY <1>1, LenProperties
  <2>2. CASE i <= Len(s)
    BY <1>2, <2>1, <2>2 DEF NoRating
  <2>3. CASE i = Len(s) + 1
    BY <1>1, <1>2, <2>1, <2>3
  <2> QED
    BY <2>1, <2>2, <2>3
<1> QED
  BY <1>2, <1>3 DEF NoRating

LEMMA OnlyRide ==
    ASSUME NEW r \in RideIds
    PROVE  /\ NoRating(<<>>)
           /\ NoRating(<<SaveRide(r)>>)
           /\ NoRating(<<SaveCancelReason(r)>>)
           /\ \A s : NoRating(s) => NoRating(s \o <<SaveRide(r)>>)
<1>1. SaveRide(r) \in WriteType /\ SaveCancelReason(r) \in WriteType
      /\ SaveRide(r).op # "saveRating" /\ SaveCancelReason(r).op # "saveRating"
  BY WriteFacts
<1> QED
  BY <1>1, OneMoreWrite DEF NoRating

\* A handler issues no rating but that of a completed ride, for its driver.
LEMMA RiderRates ==
    ASSUME TypeOK, NEW a \in Riders, RiderStep(a)
    PROVE  \/ NoRating(pending')
           \/ \E r \in DOMAIN rides : RateRideForRider(a, r)
<1> SUFFICES ASSUME \A r \in DOMAIN rides : ~RateRideForRider(a, r)
             PROVE  NoRating(pending')
  OBVIOUS
<1>1. DOMAIN rides \subseteq RideIds
  BY DEF TypeOK, RidesOK
<1>2. ASSUME NEW x, CreateRide(x)
      PROVE  NoRating(pending')
  <2>1. rideCounter + 1 \in RideIds
    BY <1>2, BackendAssumption DEF CreateRide, TypeOK, CountersOK, RideIds
  <2> QED
    BY <1>2, <2>1, OnlyRide DEF CreateRide
<1>3. ASSUME NEW trip \in Trips, NEW v \in Vehicles, CreateRideForRider(a, trip, v)
      PROVE  NoRating(pending')
  BY <1>2, <1>3 DEF CreateRideForRider
<1>4. ASSUME NEW r \in DOMAIN rides, RebookRideForRider(a, r)
      PROVE  NoRating(pending')
  BY <1>2, <1>4 DEF RebookRideForRider
<1>5. ASSUME NEW r \in DOMAIN rides, AssignNearestForRider(a, r)
      PROVE  NoRating(pending')
  BY <1>1, <1>5, OnlyRide DEF AssignNearestForRider
<1>6. ASSUME NEW r \in DOMAIN rides, NEW l \in Locations, AddStopForRider(a, r, l)
      PROVE  NoRating(pending')
  BY <1>1, <1>6, OnlyRide DEF AddStopForRider
<1>7. ASSUME NEW r \in DOMAIN rides, NEW hasReason \in BOOLEAN, CancelRideForRider(a, r, hasReason)
      PROVE  NoRating(pending')
  <2>1. NoRating(IF hasReason THEN <<SaveCancelReason(r)>> ELSE <<>>)
    BY <1>1, OnlyRide
  <2> QED
    BY <1>1, <1>7, <2>1, OnlyRide DEF CancelRideForRider
<1> QED
  BY <1>3, <1>4, <1>5, <1>6, <1>7 DEF RiderStep

LEMMA DriverRatesNot ==
    ASSUME TypeOK, NEW a \in DriverAccounts, DriverStep(a)
    PROVE  NoRating(pending')
<1>1. DOMAIN rides \subseteq RideIds
  BY DEF TypeOK, RidesOK
<1>2. EnsureDriverForAccount(a)
  BY DEF DriverStep, DriverState, UpdateDriverProfileForAccount, SetDriverStatusForAccount,
     RejectRideForDriver, AcceptRideForDriver, StartRideForDriver, CompleteRideForDriver
<1>3. NoRating(ProfileInsert(a))
  BY <1>2, EnsureFacts DEF NoRating
<1>4. ASSUME NEW p \in ProfileType, pending' = ProfileInsert(a) \o <<SaveDriverProfile(a, p)>>
      PROVE  NoRating(pending')
  BY <1>3, <1>4, WriteFacts, OneMoreWrite
<1>5. ASSUME NEW v \in Vehicles, NEW l \in Locations, UpdateDriverProfileForAccount(a, v, l)
      PROVE  NoRating(pending')
  <2>1. EnsuredDrivers(a)[Me(a)] \in DriverType
    BY <1>2, EnsureFacts
  <2>2. [vehicle |-> v, location |-> l, availability |-> EnsuredDrivers(a)[Me(a)].status]
           \in ProfileType
    BY <2>1 DEF ProfileType, DriverType
  <2> QED
    BY <1>4, <1>5, <2>2 DEF UpdateDriverProfileForAccount
<1>6. ASSUME NEW s \in ParsedStatus, SetDriverStatusForAccount(a, s)
      PROVE  NoRating(pending')
  <2>1. ProfileOf(a) \in ProfileType /\ s \in DriverStatuses
    BY <1>2, EnsureFacts DEF ParsedStatus, DriverStatuses
  <2>2. [ProfileOf(a) EXCEPT !.availability = s] \in ProfileType
    BY <2>1 DEF ProfileType
  <2> QED
    BY <1>4, <1>6, <2>2 DEF SetDriverStatusForAccount
<1>7. ASSUME NEW r \in DOMAIN rides,
             RejectRideForDriver(a, r) \/ AcceptRideForDriver(a, r)
                 \/ StartRideForDriver(a, r) \/ CompleteRideForDriver(a, r)
      PROVE  NoRating(pending')
  BY <1>1, <1>3, <1>7, OnlyRide
     DEF RejectRideForDriver, AcceptRideForDriver, StartRideForDriver, CompleteRideForDriver
<1>8. ASSUME DriverState(a)
      PROVE  NoRating(pending')
  BY <1>3, <1>8 DEF DriverState
<1>9. \A f \in ProfileForms : f[1] \in Vehicles /\ f[2] \in Locations
  BY BackendAssumption
<1> QED
  BY <1>5, <1>6, <1>7, <1>8, <1>9 DEF DriverStep

LEMMA AdminRatesNot ==
    ASSUME TypeOK, AdminStep
    PROVE  NoRating(pending')
<1>1. DOMAIN rides \subseteq RideIds /\ NoRating(<<>>)
  BY DEF TypeOK, RidesOK, NoRating
<1>2. NoRating(ClearAll)
  BY WriteFacts DEF ClearAll, NoRating
<1> QED
  BY <1>1, <1>2, OnlyRide DEF AdminStep, SetDriverStatusAsAdmin, MutexFree, CancelRideAsAdmin, Reset

\* A completed row stays as it is, unless a reset empties the table.
LEMMA RatedStays ==
    ASSUME LInv, Reliable, [Next]_vars, ~Clearing, NEW r, NEW d, Rated(rideTable, r, d)
    PROVE  Rated(rideTable', r, d)
<1>1. CASE UNCHANGED rideTable
  BY <1>1 DEF Rated
<1>2. CASE WriteRide
  <2>1. CASE r = Subject
    <3>1. ~Moves(rideTable[r].ride, rides[r])
      BY DEF Moves, Rated, Finished
    <3>2. rideTable'[r].ride = rideTable[r].ride /\ r \in DOMAIN rideTable'
      BY <1>2, <2>1, <3>1, RideWritten DEF Snapshot, Rated
    <3> QED
      BY <3>2 DEF Rated
  <2>2. CASE r # Subject
    BY <1>2, <2>2, RideWritten DEF Rated
  <2> QED
    BY <2>1, <2>2
<1> QED
  BY <1>1, <1>2, TableChanges

\* The ratings a step leaves or adds while nothing is being cleared.
LEMMA StepRated ==
    ASSUME LInv, RatingsInv, Reliable, "crash_in_reset" \notin Faults,
           [Next]_vars, ~Clearing
    PROVE  RatingsInv'
<1>1. AInv' /\ TypeOK
  BY StepInStep DEF LInv, AInv
<1>2. CASE UNCHANGED vars
  BY <1>2 DEF vars, memory, tables, RatingsInv, Rated, Clearing
<1>3. CASE StoreStep
  <2>1. pending # <<>> /\ pending' = Tail(pending) /\ ~ClearTable
    BY <1>3 DEF StoreStep, Doing, WriteRide, WriteRideFails, WriteIsLost, WriteDriverProfile, WriteRating,
       WriteCancelReason, ClearTable, ClearTableThrows, Clearing
  <2>2. ~Clearing'
    BY <1>1, <2>1, RestClears DEF LInv, AInv
  <2>3. \A i \in 1 .. Len(pending') :
            pending'[i].op = "saveRating" => Rated(rideTable', pending'[i].key, pending'[i].row)
    <3> SUFFICES ASSUME NEW i \in 1 .. Len(pending'), pending'[i].op = "saveRating"
                 PROVE  Rated(rideTable', pending'[i].key, pending'[i].row)
      OBVIOUS
    <3>1. PICK w : w = pending'[i]
      OBVIOUS
    <3>2. w.op = "saveRating" /\ Rated(rideTable, w.key, w.row)
      BY <1>1, <2>1, <3>1, TailFacts DEF RatingsInv
    <3>3. PICK r, d : r = w.key /\ d = w.row
      OBVIOUS
    <3>4. Rated(rideTable', r, d)
      BY <3>2, <3>3, RatedStays
    <3> QED
      BY <3>1, <3>3, <3>4 DEF Rated
  <2>4. \A r \in DOMAIN ratings' : Rated(rideTable', r, ratings'[r])
    <3> SUFFICES ASSUME NEW r \in DOMAIN ratings'
                 PROVE  Rated(rideTable', r, ratings'[r])
      OBVIOUS
    <3>1. PICK d : d = ratings'[r]
      OBVIOUS
    <3>2. Rated(rideTable, r, d)
      <4>1. CASE UNCHANGED ratings
        BY <3>1, <4>1 DEF RatingsInv
      <4>2. CASE WriteRating
        <5>1. 1 \in 1 .. Len(pending) /\ Head(pending) = pending[1]
          BY <1>1, <2>1, TailFacts
        <5>2. Rated(rideTable, Subject, Head(pending).row)
          BY <4>2, <5>1 DEF RatingsInv, WriteRating, Doing, Subject
        <5> QED
          BY <3>1, <4>2, <5>2 DEF RatingsInv, WriteRating, Put
      <4> QED
        BY <1>3, <2>1, <4>1, <4>2
           DEF StoreStep, WriteRide, WriteRideFails, WriteIsLost, WriteDriverProfile, WriteCancelReason,
               ClearTableThrows, tables
    <3>3. Rated(rideTable', r, d)
      BY <3>2, RatedStays
    <3> QED
      BY <3>1, <3>3 DEF Rated
  <2> QED
    BY <2>2, <2>3, <2>4 DEF RatingsInv
<1>4. CASE Handler
  <2>1. /\ MutexFree /\ UNCHANGED <<rideTable, ratings>>
        /\ \A i \in 1 .. Len(pending') : pending'[i].op # "clearAll"
    BY <1>4 DEF Handler, tables
  <2>2. \A i \in 1 .. Len(pending') :
            pending'[i].op = "saveRating" => Rated(rideTable, pending'[i].key, pending'[i].row)
    <3>1. CASE NoRating(pending')
      BY <3>1 DEF NoRating
    <3>2. ASSUME NEW a \in Riders, NEW r \in DOMAIN rides, RateRideForRider(a, r)
          PROVE  \A i \in 1 .. Len(pending') :
                    pending'[i].op = "saveRating" => Rated(rideTable, pending'[i].key, pending'[i].row)
      <4>1. pending' = <<SaveRating(r, rides[r].driver)>> /\ rides[r].status = "COMPLETED"
        BY <3>2 DEF RateRideForRider
      <4>2. r \in DOMAIN rideTable /\ rideTable[r].ride = rides[r]
        BY <2>1 DEF LInv, InStep, Saves, MutexFree, Clearing
      <4> QED
        BY <4>1, <4>2 DEF Rated, SaveRating
    <3>3. CASE pending' = <<>>
      BY <3>3
    <3>4. CASE Next
      BY <1>1, <2>1, <3>1, <3>2, <3>3, <3>4, RiderRates, DriverRatesNot, AdminRatesNot
         DEF Next, StoreStep, Crash, MutexFree, Doing, WriteRide, WriteRideFails, WriteIsLost,
             WriteDriverProfile, WriteRating, WriteCancelReason, ClearTable, ClearTableThrows, Clearing
    <3>5. CASE UNCHANGED vars
      BY <2>1, <3>3, <3>5 DEF vars, MutexFree
    <3> QED
      BY <3>4, <3>5
  <2>3. ~Clearing'
    <3>1. pending' # <<>> => 1 \in 1 .. Len(pending') /\ Head(pending') = pending'[1]
      BY <1>1, EmptySeq, LenProperties DEF AInv, TypeOK, PendingOK
    <3> QED
      BY <2>1, <3>1 DEF Clearing
  <2> QED
    BY <2>1, <2>2, <2>3 DEF RatingsInv, Rated
<1>5. CASE Reset
  <2>1. pending' = ClearAll /\ UNCHANGED tables
    BY <1>5 DEF Reset
  <2>2. /\ Len(ClearAll) = 4 /\ ClearAll[3] = DeleteFrom("ride_ratings") /\ ClearAll # <<>>
        /\ Head(ClearAll).op = "clearAll"
        /\ \A i \in 1 .. 4 : ClearAll[i].op # "saveRating"
    BY DEF ClearAll, DeleteFrom
  <2> QED
    BY <2>1, <2>2 DEF RatingsInv, Clearing
<1>6. CASE Crash
  <2>1. pending' = <<>> /\ UNCHANGED tables
    BY <1>6 DEF Crash
  <2> QED
    BY <2>1 DEF RatingsInv, Clearing, Rated, tables
<1> QED
  BY <1>2, <1>3, <1>4, <1>5, <1>6, HandlerDoes DEF LInv, AInv

\* ... and while a reset clears the tables.
LEMMA ClearRated ==
    ASSUME LInv, RatingsInv, Reliable, "crash_in_reset" \notin Faults,
           [Next]_vars, Clearing
    PROVE  RatingsInv'
<1>1. TypeOK /\ ResetEmpties
  BY DEF LInv, AInv
<1>2. CASE UNCHANGED vars
  BY <1>2 DEF vars, memory, tables, RatingsInv, Rated, Clearing
<1>3. CASE ClearTable
  <2>1. pending # <<>> /\ pending' = Tail(pending)
    BY <1>3 DEF ClearTable, Doing
  <2>2. /\ \A i \in 1 .. Len(pending') : pending'[i].op = "clearAll"
        /\ Clearing' <=> pending' # <<>>
    BY <1>1, <2>1, RestClears
  <2>3. DOMAIN ratings' = {} \/ \E i \in 1 .. Len(pending') : pending'[i] = DeleteFrom("ride_ratings")
    <3>1. CASE DOMAIN ratings = {}
      BY <1>3, <3>1 DEF ClearTable, Empty
    <3>2. ASSUME NEW i \in 1 .. Len(pending), pending[i] = DeleteFrom("ride_ratings")
          PROVE  DOMAIN ratings' = {} \/ \E j \in 1 .. Len(pending') : pending'[j] = DeleteFrom("ride_ratings")
      <4>1. CASE i = 1
        <5>1. Subject = "ride_ratings"
          BY <1>1, <2>1, <3>2, <4>1, TailFacts DEF Subject, DeleteFrom
        <5> QED
          BY <1>3, <5>1 DEF ClearTable, Empty
      <4>2. CASE i # 1
        <5>1. i - 1 \in 1 .. Len(pending')
          BY <1>1, <2>1, <4>2, TailFacts
        <5>2. pending'[i - 1] = pending[i - 1 + 1] /\ i - 1 + 1 = i
          BY <1>1, <2>1, <5>1, TailFacts
        <5> QED
          BY <3>2, <5>1, <5>2
      <4> QED
        BY <4>1, <4>2
    <3> QED
      BY <3>1, <3>2 DEF RatingsInv
  <2>4. pending' = <<>> => Len(pending') = 0
    BY <1>1, <2>1, TailFacts
  <2> QED
    BY <2>2, <2>3, <2>4 DEF RatingsInv
<1>4. CASE Next /\ ~ClearTable
  BY <1>4, HandlerDoes
     DEF LInv, AInv, Clearing, Handler, Reset, MutexFree, Crash, StoreStep, Doing, WriteRide,
         WriteRideFails, WriteIsLost, WriteDriverProfile, WriteRating, WriteCancelReason,
         ClearTableThrows, Reliable
<1> QED
  BY <1>2, <1>3, <1>4

\* A rating that can be shown belongs to the ride it is shown with, and counts for the
\* driver who drove it, although its row is written without a look at the ride and
\* outlives every restart; provided that no statement fails and no reset is cut short.
THEOREM RatingsStayWithRides ==
    ASSUME Reliable, "crash_in_reset" \notin Faults
    PROVE  Spec => []RatingsBelong
<1>1. Init => LInv /\ RatingsInv
  <2> SUFFICES ASSUME Init PROVE LInv /\ RatingsInv
    OBVIOUS
  <2>1. DOMAIN rides = {} /\ pending = <<>> /\ DOMAIN ratings = {}
    BY EmptyTyped, BootTyped DEF Init, Empty
  <2> QED
    BY <2>1, InitSafe, InitGood DEF LInv, IInv, InStep, RatingsInv, Clearing, Init
<1>2. LInv /\ RatingsInv /\ [Next]_vars => (LInv /\ RatingsInv)'
  BY StepInStep, StepRated, ClearRated
<1>3. LInv /\ RatingsInv => RatingsBelong
  <2> SUFFICES ASSUME LInv, RatingsInv, NEW r \in DOMAIN ratings \cap DOMAIN rides
               PROVE  rides[r].status = "COMPLETED" /\ rides[r].driver = ratings[r]
    BY DEF RatingsBelong
  <2>1. ~Clearing
    BY DEF LInv, AInv, ResetEmpties
  <2>2. Rated(rideTable, r, ratings[r])
    BY <2>1 DEF RatingsInv
  <2>3. ~Moves(rideTable[r].ride, rides[r])
    BY <2>2 DEF Moves, Rated, Finished
  <2> QED
    BY <2>1, <2>2, <2>3 DEF LInv, InStep, Rated
<1> QED
  BY <1>1, <1>2, <1>3, PTL DEF Spec
=============================================================================
