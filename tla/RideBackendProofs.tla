------------------------- MODULE RideBackendProofs -------------------------
(***************************************************************************)
(* Proofs about RideBackend, for all values of its constants: its types,   *)
(* and that no driver serves two rides, in memory or in the store, over    *)
(* crashes and restarts.                                                   *)
(*                                                                         *)
(* ActiveExclusive is not inductive.  A driver is kept from a second ride  *)
(* by his status, so the invariant must say that the driver of an active   *)
(* ride is ON_TRIP; freeing the driver of a ride that ends keeps that only *)
(* if he serves no other, and freeing nobody when a request is cancelled   *)
(* only if a request has no driver; ids must be new when they are issued;  *)
(* and a restart keeps all of it only if the table it reads does.          *)
(***************************************************************************)
EXTENDS RideBackend, SequenceTheorems, WellFoundedInduction, TLAPS

-----------------------------------------------------------------------------
(* Tables, counters and sequences of writes *)

\* What Put does to a table.
LEMMA PutFacts ==
    ASSUME NEW f, NEW k, NEW v
    PROVE  /\ DOMAIN Put(f, k, v) = DOMAIN f \cup {k}
           /\ Put(f, k, v)[k] = v
           /\ \A x \in DOMAIN f : x # k => Put(f, k, v)[x] = f[x]
BY DEF Put

\* A bounded set of numbers that is not empty has a largest element, so that
\* the counters a restart computes are defined.
LEMMA LargestExists ==
    ASSUME NEW N \in Nat, NEW S \in SUBSET (0 .. N), S # {}
    PROVE  /\ Largest(S) \in S
           /\ \A m \in S : m <= Largest(S)
<1> DEFINE U == {n \in Nat : \A m \in S : m <= n}
<1>1. N \in U
  OBVIOUS
<1>2. PICK u \in U : \A y \in U : ~ (<<y, u>> \in OpToRel(<, Nat))
  <2> HIDE DEF U
  <2>1. U \subseteq Nat /\ U # {}
    BY <1>1 DEF U
  <2> QED
    BY <2>1, NatLessThanWellFounded, WFMin
<1>3. \A y \in U : ~ (y < u)
  BY <1>2 DEF OpToRel
<1>4. u \in S
  <2> SUFFICES ASSUME u \notin S PROVE FALSE
    OBVIOUS
  <2>1. \A m \in S : m \in Nat /\ m < u
    OBVIOUS
  <2>2. PICK m \in S : TRUE
    OBVIOUS
  <2>3. u - 1 \in U
    <3>1. m \in Nat /\ m < u
      BY <2>1
    <3>2. \A n \in S : n <= u - 1
      BY <2>1
    <3> QED
      BY <3>1, <3>2
  <2> QED
    BY <2>3, <1>3
<1>5. \E n \in S : \A m \in S : m <= n
  BY <1>4
<1> QED
  BY <1>5 DEF Largest

-----------------------------------------------------------------------------
(* Type correctness *)

TableTyped(T) ==
    /\ DOMAIN T \subseteq RideIds
    /\ \A r \in DOMAIN T : T[r] \in RowType

\* A restart on any well-formed ride_history, or on none, leaves a well-formed
\* memory.
LEMMA BootTyped ==
    ASSUME NEW T, TableTyped(T)
    PROVE  /\ DOMAIN BootRides(T) = DOMAIN T
           /\ \A r \in DOMAIN T : BootRides(T)[r] = T[r].ride /\ T[r].ride \in RideType
           /\ Seeds \subseteq BootDriverIds(T) /\ BootDriverIds(T) \subseteq DriverIds
           /\ DOMAIN BootDrivers(T) = BootDriverIds(T)
           /\ \A d \in BootDriverIds(T) : BootDrivers(T)[d] \in DriverType
           /\ DOMAIN BootAccounts(T) \subseteq DriverAccounts
           /\ \A a \in DOMAIN BootAccounts(T) : BootAccounts(T)[a] \in BootDriverIds(T)
           /\ BootRideCounter(T) \in 0 .. MaxRides
           /\ BootNextDriver(T) \in 0 .. MaxDrivers
<1>1. /\ DOMAIN BootRides(T) = DOMAIN T
      /\ \A r \in DOMAIN T : BootRides(T)[r] = T[r].ride /\ T[r].ride \in RideType
  BY DEF BootRides, TableTyped, RowType
<1>2. Seeds \subseteq BootDriverIds(T) /\ BootDriverIds(T) \subseteq DriverIds
  <2>1. \A r \in DOMAIN T : T[r].ride.driver \in DriverIds \cup {NoDriver}
    BY <1>1 DEF RideType
  <2>2. Seeds \subseteq DriverIds
    BY BackendAssumption DEF Seeds, DriverIds
  <2> QED
    BY <2>1, <2>2 DEF BootDriverIds
<1>3. DOMAIN BootDrivers(T) = BootDriverIds(T)
  BY DEF BootDrivers
<1>4. ASSUME NEW d \in BootDriverIds(T)
      PROVE  BootDrivers(T)[d] \in DriverType
  <2>1. BootStatus(T, d) \in DriverStatuses
    BY BackendAssumption DEF BootStatus, DriverStatuses
  <2>2. (IF d \in Seeds THEN SeedLocation[d] ELSE MainGate) \in Locations
    BY BackendAssumption
  <2>3. (IF d \in Seeds THEN SeedVehicle[d]
         ELSE T[CHOOSE r \in RowsOf(T, d) : TRUE].ride.vehicle) \in Vehicles
    <3>1. CASE d \in Seeds
      BY <3>1, BackendAssumption
    <3>2. CASE d \notin Seeds
      <4>1. PICK r \in DOMAIN T : T[r].ride.driver = d
        BY <3>2 DEF BootDriverIds
      <4>2. (CHOOSE q \in RowsOf(T, d) : TRUE) \in DOMAIN T
        BY <4>1 DEF RowsOf
      <4> QED
        BY <3>2, <4>2, <1>1 DEF RideType
    <3> QED
      BY <3>1, <3>2
  <2> QED
    BY <2>1, <2>2, <2>3 DEF BootDrivers, DriverType
<1>5. DOMAIN BootAccounts(T) \subseteq DriverAccounts
  BY BackendAssumption DEF BootAccounts
<1>6. ASSUME NEW a \in DOMAIN BootAccounts(T)
      PROVE  BootAccounts(T)[a] \in BootDriverIds(T)
  <2>1. CASE RowsOfAccount(T, a) = {}
    <3>1. BootAccounts(T)[a] = 1
      BY <2>1 DEF BootAccounts
    <3> QED
      BY <3>1, <1>2, BackendAssumption DEF Seeds
  <2>2. CASE RowsOfAccount(T, a) # {}
    <3>1. PICK r \in RowsOfAccount(T, a) : BootAccounts(T)[a] = T[r].ride.driver
      BY <2>2 DEF BootAccounts
    <3> QED
      BY <3>1 DEF RowsOfAccount, BootDriverIds
  <2> QED
    BY <2>1, <2>2
<1>7. BootRideCounter(T) \in 0 .. MaxRides
  <2>1. {0} \cup DOMAIN T \in SUBSET (0 .. MaxRides)
    BY BackendAssumption DEF TableTyped, RideIds
  <2> QED
    BY <2>1, LargestExists, BackendAssumption DEF BootRideCounter
<1>8. BootNextDriver(T) \in 0 .. MaxDrivers
  <2>1. {SeedCount} \cup BootDriverIds(T) \in SUBSET (0 .. MaxDrivers)
    BY <1>2, BackendAssumption DEF DriverIds
  <2> QED
    BY <2>1, LargestExists, BackendAssumption DEF BootNextDriver
<1> QED
  BY <1>1, <1>2, <1>3, <1>4, <1>5, <1>6, <1>7, <1>8

\* The store before its first row.
LEMMA EmptyTyped == TableTyped(Empty) /\ DOMAIN Empty = {}
BY DEF TableTyped, Empty

\* Rebooting keeps the memory well-formed.
LEMMA BootStep ==
    ASSUME NEW T, TableTyped(T), Boot(T)
    PROVE  RidesOK' /\ DriversOK' /\ AccountsOK' /\ CountersOK'
BY BootTyped DEF Boot, RidesOK, DriversOK, AccountsOK, CountersOK, TableTyped

\* What ensureDriverForAccount may make of the drivers, the accounts and the
\* profile: the drivers it returns are well-formed, only the caller's record
\* has changed, and his status only if he serves no ride.
LEMMA EnsureFacts ==
    ASSUME NEW a \in DriverAccounts, TypeOK, EnsureDriverForAccount(a)
    PROVE  /\ Me(a) \in DriverIds
           /\ DOMAIN EnsuredDrivers(a) = DOMAIN drivers \cup {Me(a)}
           /\ \A d \in DOMAIN EnsuredDrivers(a) : EnsuredDrivers(a)[d] \in DriverType
           /\ \A d \in DOMAIN drivers : d # Me(a) => EnsuredDrivers(a)[d] = drivers[d]
           /\ EnsuredDrivers(a)[Me(a)].status = EnsuredStatus(a)
           /\ DOMAIN driverByEmail' \subseteq DriverAccounts
           /\ \A b \in DOMAIN driverByEmail' : driverByEmail'[b] \in DOMAIN drivers \cup {Me(a)}
           /\ CountersOK'
           /\ ProfileOf(a) \in ProfileType
           /\ ProfileInsert(a) \in Seq(WriteType)
           /\ \A i \in 1 .. Len(ProfileInsert(a)) : ProfileInsert(a)[i].op = "saveDriverProfile"
<1> USE DEF TypeOK
<1>1. Me(a) \in DriverIds
  BY DEF EnsureDriverForAccount
<1>2. Bound(a) => Me(a) \in DOMAIN drivers /\ drivers[Me(a)] \in DriverType
  BY DEF Me, Bound, AccountsOK, DriversOK
<1>3. ProfileOf(a) \in ProfileType
  <2>1. CASE a \in DOMAIN profiles
    BY <2>1 DEF ProfileOf, OtherTablesOK
  <2>2. CASE a \notin DOMAIN profiles /\ Bound(a)
    BY <2>2, <1>2 DEF ProfileOf, ProfileType, Me, DriverType, DriverStatuses
  <2>3. CASE a \notin DOMAIN profiles /\ ~Bound(a)
    BY <2>3, BackendAssumption DEF ProfileOf, ProfileType, DriverStatuses
  <2> QED
    BY <2>1, <2>2, <2>3
<1>4. [status |-> EnsuredStatus(a), location |-> EnsuredLocation(a),
       vehicle |-> IF Bound(a) THEN drivers[Me(a)].vehicle ELSE ProfileOf(a).vehicle]
         \in DriverType
  <2>1. EnsuredStatus(a) \in DriverStatuses
    BY <1>2, <1>3 DEF EnsuredStatus, ProfileType, DriverType, DriverStatuses
  <2>2. EnsuredLocation(a) \in Locations
    BY <1>2, BackendAssumption DEF EnsuredLocation, DriverType
  <2>3. (IF Bound(a) THEN drivers[Me(a)].vehicle ELSE ProfileOf(a).vehicle) \in Vehicles
    BY <1>2, <1>3 DEF ProfileType, DriverType
  <2> QED
    BY <2>1, <2>2, <2>3 DEF DriverType
<1>5. /\ DOMAIN EnsuredDrivers(a) = DOMAIN drivers \cup {Me(a)}
      /\ \A d \in DOMAIN EnsuredDrivers(a) : EnsuredDrivers(a)[d] \in DriverType
      /\ \A d \in DOMAIN drivers : d # Me(a) => EnsuredDrivers(a)[d] = drivers[d]
      /\ EnsuredDrivers(a)[Me(a)].status = EnsuredStatus(a)
  <2> DEFINE me == [status |-> EnsuredStatus(a), location |-> EnsuredLocation(a),
       vehicle |-> IF Bound(a) THEN drivers[Me(a)].vehicle ELSE ProfileOf(a).vehicle]
  <2>1. EnsuredDrivers(a) = Put(drivers, Me(a), me)
    BY DEF EnsuredDrivers
  <2>2. me \in DriverType /\ me.status = EnsuredStatus(a)
    BY <1>4
  <2>3. \A d \in DOMAIN drivers : drivers[d] \in DriverType
    BY DEF DriversOK
  <2> HIDE DEF me
  <2>4. /\ DOMAIN EnsuredDrivers(a) = DOMAIN drivers \cup {Me(a)}
        /\ EnsuredDrivers(a)[Me(a)] = me
        /\ \A d \in DOMAIN drivers : d # Me(a) => EnsuredDrivers(a)[d] = drivers[d]
    BY <2>1 DEF Put
  <2> QED
    BY <2>2, <2>3, <2>4
<1>6. /\ DOMAIN driverByEmail' \subseteq DriverAccounts
      /\ \A b \in DOMAIN driverByEmail' : driverByEmail'[b] \in DOMAIN drivers \cup {Me(a)}
  <2>1. driverByEmail' = Put(driverByEmail, a, Me(a))
    BY DEF EnsureDriverForAccount
  <2>2. /\ DOMAIN driverByEmail' = DOMAIN driverByEmail \cup {a}
        /\ driverByEmail'[a] = Me(a)
        /\ \A b \in DOMAIN driverByEmail : b # a => driverByEmail'[b] = driverByEmail[b]
    BY <2>1 DEF Put
  <2> QED
    BY <2>2 DEF AccountsOK
<1>7. CountersOK'
  BY <1>1, BackendAssumption DEF EnsureDriverForAccount, CountersOK, DriverIds
<1>8. /\ ProfileInsert(a) \in Seq(WriteType)
      /\ \A i \in 1 .. Len(ProfileInsert(a)) : ProfileInsert(a)[i].op = "saveDriverProfile"
  <2>1. SaveDriverProfile(a, ProfileOf(a)) \in WriteType
    BY <1>3 DEF SaveDriverProfile, WriteType
  <2> QED
    BY <2>1 DEF ProfileInsert, SaveDriverProfile
<1> QED
  BY <1>1, <1>3, <1>5, <1>6, <1>7, <1>8

\* PendingOK of the writes p over the rides R.
WritesOK(p, R) ==
    /\ p \in Seq(WriteType)
    /\ \A i \in 1 .. Len(p) : p[i].op = "saveRide" => i = Len(p) /\ p[i].key \in R

\* A handler that writes nothing.
LEMMA NoWrites == \A R : WritesOK(<<>>, R)
BY DEF WritesOK

\* A handler that issues one write.
LEMMA OneWrite ==
    ASSUME NEW R, NEW w \in WriteType, w.op = "saveRide" => w.key \in R
    PROVE  WritesOK(<<w>>, R)
BY DEF WritesOK

\* A handler that issues the write w after others that save no ride.
LEMMA LastWrite ==
    ASSUME NEW R, NEW s \in Seq(WriteType), NEW w \in WriteType,
           \A i \in 1 .. Len(s) : s[i].op # "saveRide",
           w.op = "saveRide" => w.key \in R
    PROVE  WritesOK(s \o <<w>>, R)
<1>1. <<w>> \in Seq(WriteType) /\ Len(<<w>>) = 1 /\ <<w>>[1] = w
  OBVIOUS
<1>2. /\ s \o <<w>> \in Seq(WriteType)
      /\ Len(s \o <<w>>) = Len(s) + 1
      /\ \A i \in 1 .. Len(s) + 1 : (s \o <<w>>)[i] = IF i <= Len(s) THEN s[i] ELSE <<w>>[i - Len(s)]
  BY <1>1, ConcatProperties
<1>3. ASSUME NEW i \in 1 .. Len(s) + 1, (s \o <<w>>)[i].op = "saveRide"
      PROVE  i = Len(s) + 1 /\ (s \o <<w>>)[i].key \in R
  <2>1. Len(s) \in Nat
    BY LenProperties
  <2>2. CASE i <= Len(s)
    BY <1>2, <1>3, <2>1, <2>2
  <2>3. CASE i = Len(s) + 1
    BY <1>1, <1>2, <1>3, <2>1, <2>3
  <2> QED
    BY <2>1, <2>2, <2>3
<1> QED
  BY <1>2, <1>3 DEF WritesOK

\* Writes of which none saves a ride, as in the reset.
LEMMA OtherWrites ==
    ASSUME NEW R, NEW s \in Seq(WriteType), \A i \in 1 .. Len(s) : s[i].op # "saveRide"
    PROVE  WritesOK(s, R)
BY DEF WritesOK

\* Once the first write is made, the rest are as well-formed as all were.
LEMMA RestOfWrites ==
    ASSUME NEW R, NEW p, WritesOK(p, R), p # <<>>
    PROVE  /\ WritesOK(Tail(p), R)
           /\ Head(p) \in WriteType
           /\ Head(p) = p[1]
           /\ Len(p) \in Nat \ {0}
<1>1. p \in Seq(WriteType)
  BY DEF WritesOK
<1>2. /\ Head(p) \in WriteType
      /\ Tail(p) \in Seq(WriteType)
      /\ Len(Tail(p)) = Len(p) - 1
      /\ \A i \in 1 .. Len(Tail(p)) : Tail(p)[i] = p[i + 1]
  BY <1>1, HeadTailProperties
<1>3. Len(p) \in Nat \ {0}
  BY <1>1, EmptySeq
<1>4. \A i \in 1 .. Len(Tail(p)) : i + 1 \in 1 .. Len(p)
  BY <1>2, <1>3
<1>5. Head(p) = p[1]
  BY <1>1
<1>6. ASSUME NEW i \in 1 .. Len(Tail(p)), Tail(p)[i].op = "saveRide"
      PROVE  i = Len(Tail(p)) /\ Tail(p)[i].key \in R
  <2>1. i + 1 \in 1 .. Len(p) /\ p[i + 1].op = "saveRide" /\ Tail(p)[i] = p[i + 1]
    BY <1>2, <1>4, <1>6
  <2>2. i + 1 = Len(p) /\ p[i + 1].key \in R
    BY <2>1 DEF WritesOK
  <2> QED
    BY <2>1, <2>2, <1>2, <1>3
<1>7. WritesOK(Tail(p), R)
  BY <1>2, <1>6 DEF WritesOK
<1> QED
  BY <1>2, <1>3, <1>5, <1>7

\* Only writes of the right type are ever made: what is saved fits its table.
LEMMA WriteFacts ==
    /\ \A r \in RideIds : SaveRide(r) \in WriteType /\ SaveRide(r).op = "saveRide"
                            /\ SaveRide(r).key = r
    /\ \A r \in RideIds : SaveCancelReason(r) \in WriteType
                            /\ SaveCancelReason(r).op = "saveCancelReason"
    /\ \A r \in RideIds, d \in DriverIds : SaveRating(r, d) \in WriteType
                            /\ SaveRating(r, d).op = "saveRating"
    /\ \A a \in DriverAccounts, p \in ProfileType :
          SaveDriverProfile(a, p) \in WriteType /\ SaveDriverProfile(a, p).op = "saveDriverProfile"
    /\ \A t \in {"ride_stops", "ride_history", "ride_ratings", "cancel_reasons"} :
          DeleteFrom(t) \in WriteType /\ DeleteFrom(t).op = "clearAll"
BY DEF WriteType, SaveRide, SaveCancelReason, SaveRating, SaveDriverProfile, DeleteFrom

\* The rows the store's statements are given.
LEMMA HeadFacts ==
    ASSUME NEW w \in WriteType
    PROVE  /\ w.op \in {"saveRide", "saveCancelReason"} => w.key \in RideIds
           /\ w.op = "saveDriverProfile" => w.key \in DriverAccounts /\ w.row \in ProfileType
           /\ w.op = "saveRating" => w.key \in RideIds /\ w.row \in DriverIds
BY DEF WriteType

\* Setting one driver's status, whoever the driver is.
LEMMA StatusSet ==
    ASSUME NEW ds, NEW d, NEW s \in DriverStatuses,
           \A e \in DOMAIN ds : ds[e] \in DriverType
    PROVE  /\ DOMAIN [ds EXCEPT ![d].status = s] = DOMAIN ds
           /\ \A e \in DOMAIN ds : [ds EXCEPT ![d].status = s][e] \in DriverType
           /\ \A e \in DOMAIN ds : [ds EXCEPT ![d].status = s][e].status =
                                     IF e = d THEN s ELSE ds[e].status
BY DEF DriverType

\* RideService frees the driver of a ride that ends: his status is AVAILABLE
\* again, and nobody else's changes.
LEMMA DriverFreed ==
    ASSUME NEW ds, NEW d, \A e \in DOMAIN ds : ds[e] \in DriverType
    PROVE  /\ DOMAIN FreeDriver(ds, d) = DOMAIN ds
           /\ \A e \in DOMAIN ds : FreeDriver(ds, d)[e] \in DriverType
           /\ \A e \in DOMAIN ds : FreeDriver(ds, d)[e].status =
                 IF e = d /\ d # NoDriver THEN "AVAILABLE" ELSE ds[e].status
<1>1. CASE d = NoDriver
  BY <1>1 DEF FreeDriver
<1>2. CASE d # NoDriver
  <2>1. FreeDriver(ds, d) = [ds EXCEPT ![d].status = "AVAILABLE"]
    BY <1>2 DEF FreeDriver
  <2>2. "AVAILABLE" \in DriverStatuses
    BY DEF DriverStatuses
  <2> QED
    BY <1>2, <2>1, <2>2, StatusSet
<1> QED
  BY <1>1, <1>2

\* The state of a first start, on an empty database.
LEMMA InitTyped == Init => TypeOK
<1> SUFFICES ASSUME Init PROVE TypeOK
  OBVIOUS
<1>1. RidesOK /\ DriversOK /\ AccountsOK /\ CountersOK
  BY EmptyTyped, BootTyped DEF Init, RidesOK, DriversOK, AccountsOK, CountersOK
<1>2. PendingOK
  BY NoWrites DEF Init, PendingOK, WritesOK
<1>3. RideTableOK /\ OtherTablesOK
  BY EmptyTyped DEF Init, RideTableOK, OtherTablesOK, Empty
<1> QED
  BY <1>1, <1>2, <1>3 DEF TypeOK

\* Handlers leave the tables to StoreStep, so that is all they have to show.
LEMMA HandlerTyped ==
    ASSUME TypeOK, RidesOK', DriversOK', AccountsOK', CountersOK', UNCHANGED tables,
           WritesOK(pending', DOMAIN rides')
    PROVE  TypeOK'
BY DEF TypeOK, tables, RideTableOK, OtherTablesOK, PendingOK, WritesOK

\* RideService::createRide within the bound on ids.
LEMMA CreateTyped ==
    ASSUME TypeOK, NEW x \in RideType, CreateRide(x)
    PROVE  TypeOK'
<1> USE DEF TypeOK
<1>1. rideCounter + 1 \in RideIds
  BY BackendAssumption DEF CreateRide, CountersOK, RideIds
<1>2. RidesOK' /\ DOMAIN rides' = DOMAIN rides \cup {rideCounter + 1}
  BY <1>1 DEF CreateRide, RidesOK, Put
<1>3. DriversOK' /\ AccountsOK' /\ CountersOK'
  BY <1>1 DEF CreateRide, DriversOK, AccountsOK, CountersOK, RideIds
<1>4. WritesOK(pending', DOMAIN rides')
  BY <1>1, <1>2, OneWrite, WriteFacts DEF CreateRide
<1> QED
  BY <1>2, <1>3, <1>4, HandlerTyped DEF CreateRide

\* What the Ride constructor makes of a rider's request.
LEMMA NewRideTyped ==
    ASSUME NEW a \in Riders, NEW v \in Vehicles, NEW src \in Locations, NEW dst \in Locations
    PROVE  NewRide(a, v, src, dst) \in RideType
BY BackendAssumption DEF NewRide, RideType, RideStatuses

\* RideService::cancelRide, whichever writes precede that of the ride.
LEMMA CancelTyped ==
    ASSUME TypeOK, NEW r \in DOMAIN rides, CancelRide(r),
           NEW before \in Seq(WriteType), pending' = before \o <<SaveRide(r)>>,
           \A i \in 1 .. Len(before) : before[i].op # "saveRide"
    PROVE  TypeOK'
<1> USE DEF TypeOK
<1>1. r \in RideIds /\ rides[r] \in RideType
  BY DEF RidesOK
<1>2. FeeFor(r) \in {0, CancellationFee}
  BY DEF FeeFor
<1>3. RidesOK' /\ DOMAIN rides' = DOMAIN rides
  BY <1>1, <1>2 DEF CancelRide, RidesOK, RideType, RideStatuses
<1>4. DriversOK' /\ DOMAIN drivers' = DOMAIN drivers
  BY DriverFreed DEF CancelRide, DriversOK
<1>5. AccountsOK' /\ CountersOK'
  BY <1>4 DEF CancelRide, AccountsOK, CountersOK
<1>6. WritesOK(pending', DOMAIN rides')
  BY <1>1, <1>3, LastWrite, WriteFacts
<1> QED
  BY <1>3, <1>4, <1>5, <1>6, HandlerTyped DEF CancelRide

\* Every handler of a rider keeps the types.
LEMMA RiderTyped ==
    ASSUME TypeOK, NEW a \in Riders, RiderStep(a)
    PROVE  TypeOK'
<1> USE DEF TypeOK
<1>1. ASSUME NEW trip \in Trips, NEW v \in Vehicles, CreateRideForRider(a, trip, v)
      PROVE  TypeOK'
  <2>1. trip[1] \in Locations /\ trip[2] \in Locations
    BY BackendAssumption
  <2> QED
    BY <1>1, <2>1, NewRideTyped, CreateTyped DEF CreateRideForRider
<1>2. ASSUME NEW r \in DOMAIN rides, RebookRideForRider(a, r)
      PROVE  TypeOK'
  <2>1. NewRide(a, rides[r].vehicle, rides[r].source, rides[r].destination) \in RideType
    BY NewRideTyped DEF RidesOK, RideType
  <2> QED
    BY <1>2, <2>1, CreateTyped DEF RebookRideForRider
<1>3. ASSUME NEW r \in DOMAIN rides, AssignNearestForRider(a, r)
      PROVE  TypeOK'
  <2>1. PICK d \in Nearest(drivers, r) : AssignDriver(drivers, r, d)
    BY <1>3 DEF AssignNearestForRider
  <2>2. d \in DOMAIN drivers /\ d \in DriverIds
    BY <2>1 DEF Nearest, Matched, NearEnough, Candidates, DriversOK
  <2>3. r \in RideIds /\ rides[r] \in RideType
    BY DEF RidesOK
  <2>4. RidesOK' /\ DOMAIN rides' = DOMAIN rides
    BY <2>1, <2>2, <2>3 DEF AssignDriver, RidesOK, RideType, RideStatuses
  <2>5. DriversOK' /\ DOMAIN drivers' = DOMAIN drivers
    BY <2>1, StatusSet DEF AssignDriver, DriversOK, DriverStatuses
  <2>6. AccountsOK' /\ CountersOK'
    BY <1>3, <2>5 DEF AssignNearestForRider, AccountsOK, CountersOK
  <2>7. WritesOK(pending', DOMAIN rides')
    BY <1>3, <2>3, <2>4, OneWrite, WriteFacts DEF AssignNearestForRider
  <2> QED
    BY <1>3, <2>4, <2>5, <2>6, <2>7, HandlerTyped DEF AssignNearestForRider
<1>4. ASSUME NEW r \in DOMAIN rides, NEW l \in Locations, AddStopForRider(a, r, l)
      PROVE  TypeOK'
  <2>1. r \in RideIds /\ rides[r] \in RideType
    BY DEF RidesOK
  <2>2. Append(rides[r].stops, l) \in Seq(Locations)
    BY <2>1 DEF RideType
  <2>3. RidesOK' /\ DOMAIN rides' = DOMAIN rides
    BY <1>4, <2>1, <2>2 DEF AddStopForRider, RidesOK, RideType
  <2>4. DriversOK' /\ AccountsOK' /\ CountersOK'
    BY <1>4 DEF AddStopForRider, DriversOK, AccountsOK, CountersOK
  <2>5. WritesOK(pending', DOMAIN rides')
    BY <1>4, <2>1, <2>3, OneWrite, WriteFacts DEF AddStopForRider
  <2> QED
    BY <1>4, <2>3, <2>4, <2>5, HandlerTyped DEF AddStopForRider
<1>5. ASSUME NEW r \in DOMAIN rides, NEW hasReason \in BOOLEAN, CancelRideForRider(a, r, hasReason)
      PROVE  TypeOK'
  <2> DEFINE before == IF hasReason THEN <<SaveCancelReason(r)>> ELSE <<>>
  <2>1. r \in RideIds
    BY DEF RidesOK
  <2>2. before \in Seq(WriteType) /\ \A i \in 1 .. Len(before) : before[i].op # "saveRide"
    BY <2>1, WriteFacts
  <2>3. pending' = before \o <<SaveRide(r)>>
    BY <1>5 DEF CancelRideForRider
  <2>4. CancelRide(r)
    BY <1>5 DEF CancelRideForRider
  <2> HIDE DEF before
  <2> QED
    BY <2>2, <2>3, <2>4, CancelTyped
<1>6. ASSUME NEW r \in DOMAIN rides, RateRideForRider(a, r)
      PROVE  TypeOK'
  <2>1. r \in RideIds /\ rides[r].driver \in DriverIds
    BY <1>6 DEF RateRideForRider, RidesOK, RideType
  <2>2. RidesOK' /\ DriversOK' /\ AccountsOK' /\ CountersOK'
    BY <1>6 DEF RateRideForRider, RidesOK, DriversOK, AccountsOK, CountersOK, memory
  <2>3. WritesOK(pending', DOMAIN rides')
    BY <1>6, <2>1, OneWrite, WriteFacts DEF RateRideForRider
  <2> QED
    BY <1>6, <2>2, <2>3, HandlerTyped DEF RateRideForRider
<1> QED
  BY <1>1, <1>2, <1>3, <1>4, <1>5, <1>6 DEF RiderStep

\* A driver action changes the ensured drivers in the status of the caller only,
\* and the rides in one ride at most; that is enough for its types.
LEMMA DriverActionTyped ==
    ASSUME TypeOK, NEW a \in DriverAccounts, EnsureDriverForAccount(a),
           DOMAIN drivers' = DOMAIN EnsuredDrivers(a),
           \A d \in DOMAIN drivers' : drivers'[d] \in DriverType,
           RidesOK', WritesOK(pending', DOMAIN rides')
    PROVE  TypeOK'
<1>1. DriversOK' /\ AccountsOK' /\ CountersOK'
  BY EnsureFacts DEF TypeOK, DriversOK, AccountsOK
<1> QED
  BY <1>1, HandlerTyped DEF EnsureDriverForAccount

\* The same for an action that saves the ride r it gives a new status.
LEMMA DriverRideTyped ==
    ASSUME TypeOK, NEW a \in DriverAccounts, EnsureDriverForAccount(a),
           NEW r \in DOMAIN rides,
           DOMAIN drivers' = DOMAIN EnsuredDrivers(a),
           \A d \in DOMAIN drivers' : drivers'[d] \in DriverType,
           RidesOK', DOMAIN rides' = DOMAIN rides,
           pending' = ProfileInsert(a) \o <<SaveRide(r)>>
    PROVE  TypeOK'
<1>1. r \in RideIds
  BY DEF TypeOK, RidesOK
<1>2. \A i \in 1 .. Len(ProfileInsert(a)) : ProfileInsert(a)[i].op # "saveRide"
  BY EnsureFacts
<1>3. WritesOK(pending', DOMAIN rides')
  BY <1>1, <1>2, EnsureFacts, LastWrite, WriteFacts
<1> QED
  BY <1>3, DriverActionTyped

\* Every handler of a driver keeps the types.
LEMMA DriverTyped ==
    ASSUME TypeOK, NEW a \in DriverAccounts, DriverStep(a)
    PROVE  TypeOK'
<1>1. ASSUME DriverState(a)
      PROVE  TypeOK'
  <2>1. \A i \in 1 .. Len(ProfileInsert(a)) : ProfileInsert(a)[i].op # "saveRide"
    BY <1>1, EnsureFacts DEF DriverState
  <2>2. WritesOK(pending', DOMAIN rides')
    BY <1>1, <2>1, EnsureFacts, OtherWrites DEF DriverState
  <2>3. RidesOK'
    BY <1>1 DEF DriverState, TypeOK, RidesOK
  <2> QED
    BY <1>1, <2>2, <2>3, EnsureFacts, DriverActionTyped DEF DriverState
<1>2. ASSUME NEW v \in Vehicles, NEW l \in Locations, UpdateDriverProfileForAccount(a, v, l)
      PROVE  TypeOK'
  <2>1. EnsureDriverForAccount(a)
    BY <1>2 DEF UpdateDriverProfileForAccount
  <2>2. EnsuredDrivers(a)[Me(a)] \in DriverType
    BY <2>1, EnsureFacts
  <2>3. [vehicle |-> v, location |-> l, availability |-> EnsuredDrivers(a)[Me(a)].status]
           \in ProfileType
    BY <2>2 DEF ProfileType, DriverType
  <2>4. \A i \in 1 .. Len(ProfileInsert(a)) : ProfileInsert(a)[i].op # "saveRide"
    BY <2>1, EnsureFacts
  <2>5. WritesOK(pending', DOMAIN rides')
    BY <1>2, <2>1, <2>3, <2>4, EnsureFacts, LastWrite, WriteFacts DEF UpdateDriverProfileForAccount
  <2>6. /\ DOMAIN drivers' = DOMAIN EnsuredDrivers(a)
        /\ \A d \in DOMAIN drivers' : drivers'[d] \in DriverType
    BY <1>2, <2>1, EnsureFacts DEF UpdateDriverProfileForAccount, DriverType
  <2>7. RidesOK'
    BY <1>2 DEF UpdateDriverProfileForAccount, TypeOK, RidesOK
  <2> QED
    BY <2>1, <2>5, <2>6, <2>7, DriverActionTyped
<1>3. ASSUME NEW s \in ParsedStatus, SetDriverStatusForAccount(a, s)
      PROVE  TypeOK'
  <2>1. EnsureDriverForAccount(a) /\ s \in DriverStatuses
    BY <1>3 DEF SetDriverStatusForAccount, ParsedStatus, DriverStatuses
  <2>2. [ProfileOf(a) EXCEPT !.availability = s] \in ProfileType
    BY <2>1, EnsureFacts DEF ProfileType
  <2>3. \A i \in 1 .. Len(ProfileInsert(a)) : ProfileInsert(a)[i].op # "saveRide"
    BY <2>1, EnsureFacts
  <2>4. WritesOK(pending', DOMAIN rides')
    BY <1>3, <2>1, <2>2, <2>3, EnsureFacts, LastWrite, WriteFacts DEF SetDriverStatusForAccount
  <2>5. /\ DOMAIN drivers' = DOMAIN EnsuredDrivers(a)
        /\ \A d \in DOMAIN drivers' : drivers'[d] \in DriverType
    BY <1>3, <2>1, EnsureFacts, StatusSet DEF SetDriverStatusForAccount
  <2>6. RidesOK'
    BY <1>3 DEF SetDriverStatusForAccount, TypeOK, RidesOK
  <2> QED
    BY <2>1, <2>4, <2>5, <2>6, DriverActionTyped
<1>4. ASSUME NEW r \in DOMAIN rides, RejectRideForDriver(a, r)
      PROVE  TypeOK'
  <2>1. \A i \in 1 .. Len(ProfileInsert(a)) : ProfileInsert(a)[i].op # "saveRide"
    BY <1>4, EnsureFacts DEF RejectRideForDriver
  <2>2. WritesOK(pending', DOMAIN rides')
    BY <1>4, <2>1, EnsureFacts, OtherWrites DEF RejectRideForDriver
  <2>3. RidesOK'
    BY <1>4 DEF RejectRideForDriver, TypeOK, RidesOK
  <2> QED
    BY <1>4, <2>2, <2>3, EnsureFacts, DriverActionTyped DEF RejectRideForDriver
<1>5. ASSUME NEW r \in DOMAIN rides, AcceptRideForDriver(a, r)
      PROVE  TypeOK'
  <2>1. EnsureDriverForAccount(a) /\ AssignDriver(EnsuredDrivers(a), r, Me(a))
    BY <1>5 DEF AcceptRideForDriver
  <2>2. RidesOK' /\ DOMAIN rides' = DOMAIN rides
    <3>1. Me(a) \in DriverIds
      BY <2>1 DEF EnsureDriverForAccount
    <3>2. rides' = [rides EXCEPT ![r].driver = Me(a), ![r].status = "DRIVER_ASSIGNED"]
      BY <2>1 DEF AssignDriver
    <3>3. DOMAIN rides \subseteq RideIds /\ \A k \in DOMAIN rides : rides[k] \in RideType
      BY DEF TypeOK, RidesOK
    <3>4. [rides[r] EXCEPT !.driver = Me(a), !.status = "DRIVER_ASSIGNED"] \in RideType
      BY <3>1, <3>3 DEF RideType, RideStatuses
    <3>5. /\ DOMAIN rides' = DOMAIN rides
          /\ \A k \in DOMAIN rides : rides'[k] \in RideType
      BY <3>2, <3>3, <3>4
    <3> QED
      BY <3>3, <3>5 DEF RidesOK
  <2>3. /\ DOMAIN drivers' = DOMAIN EnsuredDrivers(a)
        /\ \A d \in DOMAIN drivers' : drivers'[d] \in DriverType
    BY <2>1, EnsureFacts, StatusSet DEF AssignDriver, DriverStatuses
  <2> QED
    BY <1>5, <2>1, <2>2, <2>3, DriverRideTyped DEF AcceptRideForDriver
<1>6. ASSUME NEW r \in DOMAIN rides, StartRideForDriver(a, r)
      PROVE  TypeOK'
  <2>1. RidesOK' /\ DOMAIN rides' = DOMAIN rides
    BY <1>6 DEF StartRideForDriver, TypeOK, RidesOK, RideType, RideStatuses
  <2> QED
    BY <1>6, <2>1, EnsureFacts, DriverRideTyped DEF StartRideForDriver
<1>7. ASSUME NEW r \in DOMAIN rides, CompleteRideForDriver(a, r)
      PROVE  TypeOK'
  <2>1. RidesOK' /\ DOMAIN rides' = DOMAIN rides
    BY <1>7 DEF CompleteRideForDriver, TypeOK, RidesOK, RideType, RideStatuses
  <2>2. /\ DOMAIN drivers' = DOMAIN EnsuredDrivers(a)
        /\ \A d \in DOMAIN drivers' : drivers'[d] \in DriverType
    BY <1>7, EnsureFacts, DriverFreed DEF CompleteRideForDriver
  <2> QED
    BY <1>7, <2>1, <2>2, DriverRideTyped DEF CompleteRideForDriver
<1> QED
  BY <1>1, <1>2, <1>3, <1>4, <1>5, <1>6, <1>7, BackendAssumption DEF DriverStep

\* Every handler of the administrator keeps the types, the reset included.
LEMMA AdminTyped ==
    ASSUME TypeOK, AdminStep
    PROVE  TypeOK'
<1>1. ASSUME NEW d \in DOMAIN drivers, NEW s \in ParsedStatus, SetDriverStatusAsAdmin(d, s)
      PROVE  TypeOK'
  <2>1. DriversOK' /\ DOMAIN drivers' = DOMAIN drivers
    BY <1>1, StatusSet DEF SetDriverStatusAsAdmin, TypeOK, DriversOK, ParsedStatus, DriverStatuses
  <2>2. RidesOK' /\ AccountsOK' /\ CountersOK'
    BY <1>1, <2>1 DEF SetDriverStatusAsAdmin, TypeOK, RidesOK, AccountsOK, CountersOK
  <2>3. WritesOK(pending', DOMAIN rides')
    BY <1>1, NoWrites DEF SetDriverStatusAsAdmin, MutexFree
  <2> QED
    BY <1>1, <2>1, <2>2, <2>3, HandlerTyped DEF SetDriverStatusAsAdmin
<1>2. ASSUME NEW r \in DOMAIN rides, CancelRideAsAdmin(r)
      PROVE  TypeOK'
  <2>1. pending' = <<>> \o <<SaveRide(r)>>
    BY <1>2 DEF CancelRideAsAdmin
  <2>2. <<>> \in Seq(WriteType) /\ \A i \in 1 .. Len(<<>>) : <<>>[i].op # "saveRide"
    OBVIOUS
  <2> QED
    BY <1>2, <2>1, <2>2, CancelTyped DEF CancelRideAsAdmin
<1>3. ASSUME Reset
      PROVE  TypeOK'
  <2>1. RidesOK' /\ DriversOK' /\ AccountsOK' /\ CountersOK'
    BY <1>3, EmptyTyped, BootStep DEF Reset
  <2>2. WritesOK(pending', DOMAIN rides')
    <3>1. ClearAll \in Seq(WriteType) /\ \A i \in 1 .. Len(ClearAll) : ClearAll[i].op # "saveRide"
      BY WriteFacts DEF ClearAll
    <3> QED
      BY <1>3, <3>1, OtherWrites DEF Reset
  <2> QED
    BY <1>3, <2>1, <2>2, HandlerTyped DEF Reset
<1> QED
  BY <1>1, <1>2, <1>3 DEF AdminStep

\* emailForDriver finds an account or the empty email.
LEMMA EmailTyped == AccountsOK => \A d : EmailForDriver(d) \in DriverAccounts \cup {NoAccount}
BY DEF EmailForDriver, AccountsOK

\* Each single write keeps the types of the tables, clearAll's included.
LEMMA StoreTyped ==
    ASSUME TypeOK, StoreStep
    PROVE  TypeOK'
<1> USE DEF TypeOK
<1>1. /\ pending # <<>>
      /\ pending' = Tail(pending) \/ pending' = <<>>
      /\ UNCHANGED memory
  BY DEF StoreStep, Doing, WriteRide, WriteRideFails, WriteIsLost, WriteDriverProfile,
         WriteRating, WriteCancelReason, ClearTable, ClearTableThrows, Clearing
<1>2. RidesOK' /\ DriversOK' /\ AccountsOK' /\ CountersOK'
  BY <1>1 DEF memory, RidesOK, DriversOK, AccountsOK, CountersOK
<1>3. WritesOK(pending, DOMAIN rides)
  BY DEF PendingOK, WritesOK
<1>4. PendingOK'
  <2>1. WritesOK(Tail(pending), DOMAIN rides) /\ WritesOK(<<>>, DOMAIN rides)
    BY <1>1, <1>3, RestOfWrites, NoWrites
  <2> QED
    BY <1>1, <2>1 DEF memory, PendingOK, WritesOK
<1>5. Head(pending) \in WriteType /\ Head(pending) = pending[1] /\ Len(pending) \in Nat \ {0}
  BY <1>1, <1>3, RestOfWrites
<1>6. RideTableOK' /\ OtherTablesOK'
  <2>1. CASE WriteRide
    <3>1. Subject \in DOMAIN rides
      BY <2>1, <1>5 DEF WriteRide, Doing, Subject, PendingOK
    <3>2. Snapshot(Subject) \in RowType
      BY <3>1, EmailTyped DEF Snapshot, RowType, RidesOK
    <3>3. rideTable' = Put(rideTable, Subject, Snapshot(Subject)) /\ Subject \in RideIds
      BY <2>1, <3>1 DEF WriteRide, RidesOK
    <3>4. RideTableOK'
      BY <3>2, <3>3 DEF RideTableOK, Put
    <3> QED
      BY <2>1, <3>4 DEF WriteRide, OtherTablesOK
  <2>2. CASE WriteRideFails
    BY <2>2 DEF WriteRideFails, tables, RideTableOK, OtherTablesOK
  <2>3. CASE WriteDriverProfile
    <3>1. Subject \in DriverAccounts /\ Head(pending).row \in ProfileType
      BY <2>3, <1>5, HeadFacts DEF WriteDriverProfile, Doing, Subject
    <3>2. profiles' = Put(profiles, Subject, Head(pending).row)
      BY <2>3 DEF WriteDriverProfile
    <3> QED
      BY <2>3, <3>1, <3>2 DEF WriteDriverProfile, RideTableOK, OtherTablesOK, Put
  <2>4. CASE WriteRating
    <3>1. Subject \in RideIds /\ Head(pending).row \in DriverIds
      BY <2>4, <1>5, HeadFacts DEF WriteRating, Doing, Subject
    <3>2. ratings' = ratings \/ ratings' = Put(ratings, Subject, Head(pending).row)
      BY <2>4 DEF WriteRating
    <3> QED
      BY <2>4, <3>1, <3>2 DEF WriteRating, RideTableOK, OtherTablesOK, Put
  <2>5. CASE WriteCancelReason
    <3>1. Subject \in RideIds
      BY <2>5, <1>5, HeadFacts DEF WriteCancelReason, Doing, Subject
    <3> QED
      BY <2>5, <3>1 DEF WriteCancelReason, RideTableOK, OtherTablesOK
  <2>6. CASE ClearTable
    <3>1. RideTableOK'
      <4>1. \/ rideTable' = [r \in DOMAIN rideTable |-> [rideTable[r] EXCEPT !.ride.stops = <<>>]]
            \/ rideTable' = Empty
            \/ rideTable' = rideTable
        BY <2>6 DEF ClearTable
      <4>2. \A r \in DOMAIN rideTable : [rideTable[r] EXCEPT !.ride.stops = <<>>] \in RowType
        <5> SUFFICES ASSUME NEW r \in DOMAIN rideTable
                     PROVE  [rideTable[r] EXCEPT !.ride.stops = <<>>] \in RowType
          OBVIOUS
        <5>1. rideTable[r] \in RowType /\ rideTable[r].ride \in RideType
          BY DEF RideTableOK, RowType
        <5>2. [rideTable[r].ride EXCEPT !.stops = <<>>] \in RideType
          <6>1. <<>> \in Seq(Locations)
            OBVIOUS
          <6>2. \A x \in RideType, s \in Seq(Locations) : [x EXCEPT !.stops = s] \in RideType
            BY DEF RideType
          <6> QED
            BY <5>1, <6>1, <6>2
        <5>3. [rideTable[r] EXCEPT !.ride.stops = <<>>] =
                [rideTable[r] EXCEPT !.ride = [rideTable[r].ride EXCEPT !.stops = <<>>]]
          OBVIOUS
        <5> QED
          BY <5>1, <5>2, <5>3 DEF RowType
      <4> QED
        BY <4>1, <4>2 DEF RideTableOK, Empty
    <3>2. OtherTablesOK'
      BY <2>6 DEF ClearTable, OtherTablesOK, Empty
    <3> QED
      BY <3>1, <3>2
  <2>7. CASE WriteIsLost
    BY <2>7 DEF WriteIsLost, tables, RideTableOK, OtherTablesOK
  <2>8. CASE ClearTableThrows
    BY <2>8 DEF ClearTableThrows, RideTableOK, OtherTablesOK
  <2> QED
    BY <2>1, <2>2, <2>3, <2>4, <2>5, <2>6, <2>7, <2>8 DEF StoreStep
<1> QED
  BY <1>2, <1>4, <1>6

\* A crash and the restart after it, at any moment, keep the types.
LEMMA CrashTyped ==
    ASSUME TypeOK, Crash
    PROVE  TypeOK'
<1>1. RidesOK' /\ DriversOK' /\ AccountsOK' /\ CountersOK'
  BY BootStep DEF Crash, TypeOK, RideTableOK, TableTyped
<1>2. WritesOK(pending', DOMAIN rides')
  BY NoWrites DEF Crash
<1> QED
  BY <1>1, <1>2, HandlerTyped DEF Crash

\* The inductive step: no step of Next leaves the types.
LEMMA TypeStep == TypeOK /\ [Next]_vars => TypeOK'
<1> SUFFICES ASSUME TypeOK, [Next]_vars PROVE TypeOK'
  OBVIOUS
<1>1. CASE UNCHANGED vars
  BY <1>1 DEF vars, memory, tables, TypeOK, RidesOK, DriversOK, AccountsOK, CountersOK,
              PendingOK, RideTableOK, OtherTablesOK
<1> QED
  BY <1>1, RiderTyped, DriverTyped, AdminTyped, StoreTyped, CrashTyped DEF Next

\* Every variable and every row keeps its type, over every interleaving of
\* handlers, store writes, failed saves, crashes and restarts: in particular a
\* restart can always rebuild the memory from whatever the tables hold.
THEOREM TypeCorrect == Spec => []TypeOK
<1>1. Init => TypeOK
  BY InitTyped
<1>2. TypeOK /\ [Next]_vars => TypeOK'
  BY TypeStep
<1> QED
  BY <1>1, <1>2, PTL DEF Spec

-----------------------------------------------------------------------------
(* The inductive invariant *)

\* The driver of an active ride is known and ON_TRIP.
ServingBusy ==
    \A r \in DOMAIN rides : rides[r].status \in Active =>
        rides[r].driver \in DOMAIN drivers /\ drivers[rides[r].driver].status = "ON_TRIP"

\* A driver without an active ride is ON_TRIP only if seeded so.
IdleNotBusy ==
    \A d \in DOMAIN drivers : drivers[d].status = "ON_TRIP" =>
        HasActiveRide(d) \/ (d \in Seeds /\ SeedStatus[d] = "ON_TRIP")

RequestedHasNone == \A r \in DOMAIN rides : rides[r].status = "REQUESTED" => rides[r].driver = NoDriver

\* Ids are handed out in increasing order.
IdsIssued ==
    /\ \A r \in DOMAIN rides : r <= rideCounter
    /\ \A d \in DOMAIN drivers : d <= nextDriverId

MemoryInv == ActiveExclusive /\ ServingBusy /\ IdleNotBusy /\ RequestedHasNone /\ IdsIssued

\* A table a restart can make a good memory of.
TableSafe(T) ==
    /\ \A q, r \in DOMAIN T :
          /\ T[q].ride.status \in Active /\ T[r].ride.status \in Active
          /\ T[q].ride.driver = T[r].ride.driver
          => q = r
    /\ \A r \in DOMAIN T :
          /\ T[r].ride.status \in Active => T[r].ride.driver # NoDriver
          /\ T[r].ride.status = "REQUESTED" => T[r].ride.driver = NoDriver

\* While no reset is deleting, every row is the ride of the memory, unless its
\* save is the last write the handler has yet to make.
RowsInStep ==
    ~Clearing =>
        \A r \in DOMAIN rideTable :
            /\ r \in DOMAIN rides
            /\ \/ rideTable[r].ride = rides[r]
               \/ pending # <<>> /\ pending[Len(pending)] = SaveRide(r)

\* clearAll is never mixed with other writes, the memory it leaves behind is
\* empty, and the rows of ride_history go before it is over.
ResetEmpties ==
    /\ \A i \in 1 .. Len(pending) : pending[i].op = "clearAll" <=> Clearing
    /\ Clearing =>
          /\ DOMAIN rides = {}
          /\ \/ DOMAIN rideTable = {}
             \/ \E i \in 1 .. Len(pending) : pending[i] = DeleteFrom("ride_history")

StoreInv == TableSafe(rideTable) /\ RowsInStep /\ ResetEmpties

\* No statement of the store fails.
Reliable == "save_fails" \notin Faults /\ "clear_fails" \notin Faults

\* A save that fails without notice leaves a stale row, and a deletion that fails
\* leaves the rows of rides that are gone; both matter to memory only if a restart
\* reads them.
IInv == TypeOK /\ MemoryInv /\ (Reliable => StoreInv)

-----------------------------------------------------------------------------
(* Restarts *)

\* What a restart makes of a safe table satisfies the memory's invariant.
LEMMA BootSafe ==
    ASSUME NEW T, TableTyped(T), TableSafe(T), Boot(T)
    PROVE  MemoryInv'
<1>1. /\ DOMAIN rides' = DOMAIN T
      /\ \A r \in DOMAIN T : rides'[r] = T[r].ride /\ T[r].ride \in RideType
      /\ DOMAIN drivers' = BootDriverIds(T)
  BY BootTyped DEF Boot
<1>2. \A d \in BootDriverIds(T) : drivers'[d].status = BootStatus(T, d)
  BY DEF Boot, BootDrivers
<1>3. ActiveExclusive' /\ RequestedHasNone'
  BY <1>1 DEF ActiveExclusive, RequestedHasNone, TableSafe
<1>4. ServingBusy'
  <2> SUFFICES ASSUME NEW r \in DOMAIN T, T[r].ride.status \in Active
               PROVE  /\ T[r].ride.driver \in BootDriverIds(T)
                      /\ BootStatus(T, T[r].ride.driver) = "ON_TRIP"
    BY <1>1, <1>2 DEF ServingBusy
  <2> QED
    BY DEF TableSafe, BootDriverIds, BootStatus, RowsOf
<1>5. IdleNotBusy'
  <2> SUFFICES ASSUME NEW d \in BootDriverIds(T), BootStatus(T, d) = "ON_TRIP"
               PROVE  HasActiveRide(d)' \/ (d \in Seeds /\ SeedStatus[d] = "ON_TRIP")
    BY <1>1, <1>2 DEF IdleNotBusy
  <2> QED
    BY <1>1 DEF BootStatus, RowsOf, HasActiveRide
<1>6. IdsIssued'
  <2>1. {0} \cup DOMAIN T \in SUBSET (0 .. MaxRides)
    BY BackendAssumption DEF TableTyped, RideIds
  <2>2. \A r \in DOMAIN T : r <= BootRideCounter(T)
    BY <2>1, LargestExists, BackendAssumption DEF BootRideCounter
  <2>3. {SeedCount} \cup BootDriverIds(T) \in SUBSET (0 .. MaxDrivers)
    BY BootTyped, BackendAssumption DEF DriverIds
  <2>4. \A d \in BootDriverIds(T) : d <= BootNextDriver(T)
    BY <2>3, LargestExists, BackendAssumption DEF BootNextDriver
  <2> QED
    BY <1>1, <2>2, <2>4 DEF IdsIssued, Boot
<1> QED
  BY <1>3, <1>4, <1>5, <1>6 DEF MemoryInv

\* Nobody serves a ride in an empty history.
LEMMA EmptySafe == TableSafe(Empty)
BY EmptyTyped DEF TableSafe

-----------------------------------------------------------------------------
(* Handlers.  ds stands for the drivers a handler works on: those of the   *)
(* memory, or those ensureDriverForAccount has just refreshed.             *)

\* ds has every known driver, and says ON_TRIP of the ones who serve a ride and
\* of nobody new.
Agrees(ds) ==
    /\ DOMAIN drivers \subseteq DOMAIN ds
    /\ \A d \in DOMAIN ds : ds[d] \in DriverType
    /\ \A d \in DOMAIN ds :
          /\ HasActiveRide(d) => ds[d].status = "ON_TRIP"
          /\ ds[d].status = "ON_TRIP" => d \in DOMAIN drivers /\ drivers[d].status = "ON_TRIP"

\* The drivers of the memory are such a ds.
LEMMA DriversAgree ==
    ASSUME TypeOK, MemoryInv
    PROVE  Agrees(drivers)
BY DEF Agrees, TypeOK, DriversOK, MemoryInv, ServingBusy, HasActiveRide

\* ensureDriverForAccount never touches the status of a serving driver.
LEMMA EnsuredAgree ==
    ASSUME TypeOK, MemoryInv, NEW a \in DriverAccounts, EnsureDriverForAccount(a)
    PROVE  /\ Agrees(EnsuredDrivers(a))
           /\ \A d \in DOMAIN EnsuredDrivers(a) : d <= nextDriverId'
           /\ rideCounter' = rideCounter
<1>1. /\ Me(a) \in DriverIds
      /\ DOMAIN EnsuredDrivers(a) = DOMAIN drivers \cup {Me(a)}
      /\ \A d \in DOMAIN EnsuredDrivers(a) : EnsuredDrivers(a)[d] \in DriverType
      /\ \A d \in DOMAIN drivers : d # Me(a) => EnsuredDrivers(a)[d] = drivers[d]
      /\ EnsuredDrivers(a)[Me(a)].status = EnsuredStatus(a)
  BY EnsureFacts
<1>2. Bound(a) => Me(a) \in DOMAIN drivers
  BY DEF Me, Bound, TypeOK, AccountsOK
<1>3. ~Bound(a) => Me(a) = nextDriverId + 1 /\ Me(a) \notin DOMAIN drivers
  BY <1>1 DEF Me, MemoryInv, IdsIssued, TypeOK, CountersOK
<1>4. \A d \in DOMAIN drivers : HasActiveRide(d) => drivers[d].status = "ON_TRIP"
  BY DEF MemoryInv, ServingBusy, HasActiveRide
<1>5. \A d : HasActiveRide(d) => d \in DOMAIN drivers
  BY DEF MemoryInv, ServingBusy, HasActiveRide
<1>6. /\ HasActiveRide(Me(a)) => EnsuredStatus(a) = "ON_TRIP"
      /\ EnsuredStatus(a) = "ON_TRIP" => Me(a) \in DOMAIN drivers /\ drivers[Me(a)].status = "ON_TRIP"
  BY <1>2, <1>3, <1>4, <1>5 DEF EnsuredStatus, ParsedStatus
<1>7. Agrees(EnsuredDrivers(a))
  BY <1>1, <1>4, <1>5, <1>6 DEF Agrees
<1>8. \A d \in DOMAIN EnsuredDrivers(a) : d <= nextDriverId'
  <2>1. CASE Bound(a)
    BY <1>1, <1>2, <2>1 DEF EnsureDriverForAccount, MemoryInv, IdsIssued
  <2>2. CASE ~Bound(a)
    <3>1. nextDriverId' = nextDriverId + 1 /\ nextDriverId \in Nat
      BY <1>3, <2>2 DEF EnsureDriverForAccount, TypeOK, CountersOK
    <3>2. \A d \in DOMAIN drivers : d \in Nat /\ d <= nextDriverId
      BY DEF MemoryInv, IdsIssued, TypeOK, DriversOK, DriverIds
    <3> QED
      BY <1>1, <1>3, <2>2, <3>1, <3>2
  <2> QED
    BY <2>1, <2>2
<1> QED
  BY <1>7, <1>8 DEF EnsureDriverForAccount

\* A handler that leaves the rides alone and sets at most the status of an idle
\* driver.
LEMMA QuietSafe ==
    ASSUME TypeOK, MemoryInv, UNCHANGED rides, Agrees(drivers'), IdsIssued'
    PROVE  MemoryInv'
<1>1. ActiveExclusive' /\ RequestedHasNone'
  BY DEF MemoryInv, ActiveExclusive, RequestedHasNone
<1>2. ServingBusy'
  BY DEF MemoryInv, ServingBusy, Agrees, HasActiveRide
<1>3. IdleNotBusy'
  BY DEF MemoryInv, IdleNotBusy, Agrees, HasActiveRide
<1> QED
  BY <1>1, <1>2, <1>3 DEF MemoryInv

\* Setting the status of an idle driver to what parseDriverStatus accepts.
LEMMA SetIdleAgrees ==
    ASSUME TypeOK, NEW ds, Agrees(ds), NEW d, ~HasActiveRide(d), NEW s \in ParsedStatus
    PROVE  Agrees([ds EXCEPT ![d].status = s])
<1>1. s \in DriverStatuses /\ s # "ON_TRIP"
  BY DEF ParsedStatus, DriverStatuses
<1>2. /\ DOMAIN [ds EXCEPT ![d].status = s] = DOMAIN ds
      /\ \A e \in DOMAIN ds : [ds EXCEPT ![d].status = s][e] \in DriverType
      /\ \A e \in DOMAIN ds : [ds EXCEPT ![d].status = s][e].status =
                                     IF e = d THEN s ELSE ds[e].status
  BY <1>1, StatusSet DEF Agrees
<1> QED
  BY <1>1, <1>2 DEF Agrees

\* Giving a request to an AVAILABLE driver: he serves no ride yet.
LEMMA AssignSafe ==
    ASSUME TypeOK, MemoryInv, NEW ds, Agrees(ds), NEW r \in DOMAIN rides,
           NEW d \in DOMAIN ds, d \in DriverIds,
           rides[r].status = "REQUESTED", ds[d].status = "AVAILABLE",
           AssignDriver(ds, r, d), IdsIssued'
    PROVE  MemoryInv'
<1>1. /\ DOMAIN rides' = DOMAIN rides
      /\ \A q \in DOMAIN rides : q # r => rides'[q] = rides[q]
      /\ rides'[r].status = "DRIVER_ASSIGNED" /\ rides'[r].driver = d
  BY DEF AssignDriver, TypeOK, RidesOK, RideType
<1>2. /\ DOMAIN drivers' = DOMAIN ds
      /\ \A e \in DOMAIN ds : drivers'[e].status = IF e = d THEN "ON_TRIP" ELSE ds[e].status
  BY StatusSet DEF AssignDriver, Agrees, DriverStatuses
<1>3. ~HasActiveRide(d)
  BY DEF Agrees
<1>4. ActiveExclusive'
  BY <1>1, <1>3 DEF MemoryInv, ActiveExclusive, HasActiveRide
<1>5. ServingBusy'
  <2> SUFFICES ASSUME NEW q \in DOMAIN rides, rides'[q].status \in Active
               PROVE  rides'[q].driver \in DOMAIN ds /\ drivers'[rides'[q].driver].status = "ON_TRIP"
    BY <1>1, <1>2 DEF ServingBusy
  <2>1. CASE q = r
    BY <1>1, <1>2, <2>1
  <2>2. CASE q # r
    BY <1>1, <1>2, <2>2 DEF MemoryInv, ServingBusy, Agrees, HasActiveRide
  <2> QED
    BY <2>1, <2>2
<1>6. IdleNotBusy'
  <2> SUFFICES ASSUME NEW e \in DOMAIN ds, drivers'[e].status = "ON_TRIP"
               PROVE  HasActiveRide(e)' \/ (e \in Seeds /\ SeedStatus[e] = "ON_TRIP")
    BY <1>2 DEF IdleNotBusy
  <2>1. CASE e = d
    BY <1>1, <2>1 DEF HasActiveRide, Active
  <2>2. CASE e # d
    <3>1. HasActiveRide(e) \/ (e \in Seeds /\ SeedStatus[e] = "ON_TRIP")
      BY <1>2, <2>2 DEF Agrees, MemoryInv, IdleNotBusy
    <3>2. HasActiveRide(e) => HasActiveRide(e)'
      BY <1>1 DEF HasActiveRide, Active
    <3> QED
      BY <3>1, <3>2
  <2> QED
    BY <2>1, <2>2
<1>7. RequestedHasNone'
  BY <1>1 DEF MemoryInv, RequestedHasNone
<1> QED
  BY <1>4, <1>5, <1>6, <1>7 DEF MemoryInv

\* Starting a ride: its driver, who called, stays ON_TRIP.
LEMMA StartSafe ==
    ASSUME TypeOK, MemoryInv, NEW r \in DOMAIN rides, rides[r].status = "DRIVER_ASSIGNED",
           rides' = [rides EXCEPT ![r].status = "IN_PROGRESS"],
           Agrees(drivers'), IdsIssued'
    PROVE  MemoryInv'
<1>1. /\ DOMAIN rides' = DOMAIN rides
      /\ \A q \in DOMAIN rides : rides'[q].driver = rides[q].driver
      /\ \A q \in DOMAIN rides : rides'[q].status = IF q = r THEN "IN_PROGRESS" ELSE rides[q].status
  BY DEF TypeOK, RidesOK, RideType
<1>2. \A q \in DOMAIN rides : rides'[q].status \in Active <=> rides[q].status \in Active
  BY <1>1 DEF Active
<1>3. \A d : HasActiveRide(d)' <=> HasActiveRide(d)
  BY <1>1, <1>2 DEF HasActiveRide
<1>4. ActiveExclusive'
  BY <1>1, <1>2 DEF MemoryInv, ActiveExclusive
<1>5. ServingBusy'
  BY <1>1, <1>2 DEF MemoryInv, ServingBusy, Agrees, HasActiveRide
<1>6. IdleNotBusy'
  BY <1>3 DEF MemoryInv, IdleNotBusy, Agrees
<1>7. RequestedHasNone'
  BY <1>1 DEF MemoryInv, RequestedHasNone
<1> QED
  BY <1>4, <1>5, <1>6, <1>7 DEF MemoryInv

\* Ending a ride frees its driver, if it has one: no other ride is his.
LEMMA EndSafe ==
    ASSUME TypeOK, MemoryInv, NEW ds, Agrees(ds), NEW r \in DOMAIN rides,
           rides[r].status \notin Finished,
           DOMAIN rides' = DOMAIN rides,
           \A q \in DOMAIN rides : q # r => rides'[q] = rides[q],
           rides'[r].status \in Finished,
           drivers' = FreeDriver(ds, rides[r].driver), IdsIssued'
    PROVE  MemoryInv'
<1> DEFINE freed == rides[r].driver
<1>1. /\ DOMAIN drivers' = DOMAIN ds
      /\ \A e \in DOMAIN ds : drivers'[e].status =
              IF e = freed /\ freed # NoDriver THEN "AVAILABLE" ELSE ds[e].status
  BY DriverFreed DEF Agrees
<1>2. rides'[r].status \notin Active /\ rides'[r].status # "REQUESTED"
  BY DEF Active, Finished
<1>3. ASSUME NEW q \in DOMAIN rides, rides[q].status \in Active, q # r
      PROVE  freed # NoDriver => rides[q].driver # freed
  <2>1. rides[r].status \in RideStatuses
    BY DEF TypeOK, RidesOK, RideType
  <2>2. rides[r].status \in Active \/ rides[r].status = "REQUESTED"
    BY <2>1 DEF RideStatuses, Active, Finished
  <2> QED
    BY <1>3, <2>2 DEF MemoryInv, ActiveExclusive, RequestedHasNone
<1>4. ActiveExclusive'
  BY <1>2 DEF MemoryInv, ActiveExclusive
<1>5. ServingBusy'
  <2> SUFFICES ASSUME NEW q \in DOMAIN rides, rides'[q].status \in Active
               PROVE  rides'[q].driver \in DOMAIN ds /\ drivers'[rides'[q].driver].status = "ON_TRIP"
    BY <1>1 DEF ServingBusy
  <2>1. q # r /\ rides'[q] = rides[q]
    BY <1>2
  <2>2. rides[q].driver \in DOMAIN ds /\ ds[rides[q].driver].status = "ON_TRIP"
    BY <2>1 DEF MemoryInv, ServingBusy, Agrees, HasActiveRide
  <2> QED
    BY <1>1, <1>3, <2>1, <2>2
<1>6. IdleNotBusy'
  <2> SUFFICES ASSUME NEW e \in DOMAIN ds, drivers'[e].status = "ON_TRIP"
               PROVE  HasActiveRide(e)' \/ (e \in Seeds /\ SeedStatus[e] = "ON_TRIP")
    BY <1>1 DEF IdleNotBusy
  <2>1. ds[e].status = "ON_TRIP" /\ ~(e = freed /\ freed # NoDriver)
    BY <1>1
  <2>2. HasActiveRide(e) \/ (e \in Seeds /\ SeedStatus[e] = "ON_TRIP")
    BY <2>1 DEF Agrees, MemoryInv, IdleNotBusy
  <2>3. HasActiveRide(e) => HasActiveRide(e)'
    <3> SUFFICES ASSUME NEW q \in DOMAIN rides, rides[q].driver = e, rides[q].status \in Active
                 PROVE  HasActiveRide(e)'
      BY DEF HasActiveRide
    <3>1. e # NoDriver
      BY DEF MemoryInv, ServingBusy, TypeOK, DriversOK, DriverIds, NoDriver
    <3>2. q # r
      BY <2>1, <3>1
    <3> QED
      BY <3>2 DEF HasActiveRide
  <2> QED
    BY <2>2, <2>3
<1>7. RequestedHasNone'
  BY <1>2 DEF MemoryInv, RequestedHasNone
<1> QED
  BY <1>4, <1>5, <1>6, <1>7 DEF MemoryInv

\* A handler that leaves the drivers alone, and adds requests or changes what is
\* neither the status nor the driver of a ride.
LEMMA RidesSafe ==
    ASSUME TypeOK, MemoryInv, UNCHANGED drivers, DOMAIN rides \subseteq DOMAIN rides',
           \A q \in DOMAIN rides : rides'[q].status = rides[q].status /\ rides'[q].driver = rides[q].driver,
           \A q \in DOMAIN rides' \ DOMAIN rides :
               rides'[q].status = "REQUESTED" /\ rides'[q].driver = NoDriver,
           IdsIssued'
    PROVE  MemoryInv'
<1>1. "REQUESTED" \notin Active
  BY DEF Active
<1>2. ActiveExclusive' /\ RequestedHasNone'
  BY <1>1 DEF MemoryInv, ActiveExclusive, RequestedHasNone
<1>3. ServingBusy'
  BY <1>1 DEF MemoryInv, ServingBusy
<1>4. IdleNotBusy'
  <2>1. \A d : HasActiveRide(d) => HasActiveRide(d)'
    BY DEF HasActiveRide
  <2> QED
    BY <2>1 DEF MemoryInv, IdleNotBusy
<1> QED
  BY <1>2, <1>3, <1>4 DEF MemoryInv

-----------------------------------------------------------------------------
(* The store *)

\* The last write of a handler that issues w after others.
LEMMA LastOf ==
    ASSUME NEW s \in Seq(WriteType), NEW w \in WriteType
    PROVE  /\ s \o <<w>> # <<>>
           /\ (s \o <<w>>)[Len(s \o <<w>>)] = w
           /\ (\A i \in 1 .. Len(s) : s[i].op # "clearAll") /\ w.op # "clearAll" =>
                 \A i \in 1 .. Len(s \o <<w>>) : (s \o <<w>>)[i].op # "clearAll"
<1>1. <<w>> \in Seq(WriteType) /\ Len(<<w>>) = 1 /\ <<w>>[1] = w
  OBVIOUS
<1>2. /\ s \o <<w>> \in Seq(WriteType)
      /\ Len(s \o <<w>>) = Len(s) + 1
      /\ \A i \in 1 .. Len(s) + 1 : (s \o <<w>>)[i] = IF i <= Len(s) THEN s[i] ELSE <<w>>[i - Len(s)]
  BY <1>1, ConcatProperties
<1>3. Len(s) \in Nat
  BY LenProperties
<1>4. (s \o <<w>>)[Len(s) + 1] = w
  BY <1>1, <1>2, <1>3
<1>5. s \o <<w>> # <<>>
  BY <1>2, <1>3
<1>6. ASSUME \A i \in 1 .. Len(s) : s[i].op # "clearAll", w.op # "clearAll",
             NEW i \in 1 .. Len(s) + 1
      PROVE  (s \o <<w>>)[i].op # "clearAll"
  <2>1. CASE i <= Len(s)
    BY <1>2, <1>6, <2>1
  <2>2. CASE i = Len(s) + 1
    BY <1>4, <1>6, <2>2
  <2> QED
    BY <1>3, <2>1, <2>2
<1> QED
  BY <1>2, <1>4, <1>5, <1>6

\* A handler starts with every row in step; the store stays so if the handler
\* will save what it changes, and resets nothing.
LEMMA HandlerStored ==
    ASSUME TypeOK, StoreInv, MutexFree, UNCHANGED rideTable,
           pending' \in Seq(WriteType),
           \A i \in 1 .. Len(pending') : pending'[i].op # "clearAll",
           \A r \in DOMAIN rides :
              /\ r \in DOMAIN rides'
              /\ \/ rides'[r] = rides[r]
                 \/ pending' # <<>> /\ pending'[Len(pending')] = SaveRide(r)
    PROVE  StoreInv'
<1>1. ~Clearing /\ \A r \in DOMAIN rideTable : r \in DOMAIN rides /\ rideTable[r].ride = rides[r]
  BY DEF StoreInv, RowsInStep, MutexFree, Clearing
<1>2. ~Clearing'
  <2>1. pending' # <<>> => 1 \in 1 .. Len(pending') /\ Head(pending') = pending'[1]
    BY EmptySeq, LenProperties
  <2> QED
    BY <2>1 DEF Clearing
<1>3. TableSafe(rideTable)'
  BY DEF StoreInv, TableSafe
<1>4. RowsInStep'
  BY <1>1, <1>2 DEF RowsInStep
<1>5. ResetEmpties'
  BY <1>2 DEF ResetEmpties
<1> QED
  BY <1>3, <1>4, <1>5 DEF StoreInv

\* The reset: nothing is left in memory that a row could contradict.
LEMMA ResetStored ==
    ASSUME StoreInv, Reset
    PROVE  StoreInv'
<1>1. DOMAIN rides' = {}
  BY EmptyTyped, BootTyped DEF Reset, Boot
<1>2. /\ pending' # <<>> /\ Len(pending') = 4
      /\ \A i \in 1 .. 4 : pending'[i].op = "clearAll"
      /\ pending'[2] = DeleteFrom("ride_history")
      /\ Head(pending') = pending'[1]
  BY DEF Reset, ClearAll, DeleteFrom
<1>3. Clearing'
  BY <1>2 DEF Clearing
<1>4. UNCHANGED rideTable
  BY DEF Reset, tables
<1>5. TableSafe(rideTable)'
  BY <1>4 DEF StoreInv, TableSafe
<1>6. RowsInStep'
  BY <1>3 DEF RowsInStep
<1>7. ResetEmpties'
  BY <1>1, <1>2, <1>3 DEF ResetEmpties
<1> QED
  BY <1>5, <1>6, <1>7 DEF StoreInv

\* A restart takes the rows for the memory, so they are in step.
LEMMA CrashStored ==
    ASSUME TypeOK, StoreInv, Crash
    PROVE  StoreInv'
<1>1. /\ pending' = <<>>
      /\ UNCHANGED rideTable
      /\ rides' = [r \in DOMAIN rideTable |-> rideTable[r].ride]
  BY DEF Crash, tables, Boot, BootRides
<1>2. ~Clearing' /\ Len(pending') = 0
  BY <1>1 DEF Clearing
<1> QED
  BY <1>1, <1>2 DEF StoreInv, TableSafe, RowsInStep, ResetEmpties

\* The rest of the writes.
LEMMA TailFacts ==
    ASSUME TypeOK, pending # <<>>, pending' = Tail(pending)
    PROVE  /\ Len(pending) \in Nat \ {0}
           /\ Head(pending) = pending[1]
           /\ Head(pending) \in WriteType
           /\ Len(pending') = Len(pending) - 1
           /\ \A i \in 1 .. Len(pending') : i + 1 \in 1 .. Len(pending) /\ pending'[i] = pending[i + 1]
           /\ pending' # <<>> <=> Len(pending') # 0
           /\ pending' # <<>> =>
                 /\ pending'[Len(pending')] = pending[Len(pending)]
                 /\ Head(pending') = pending[2]
<1>1. pending \in Seq(WriteType)
  BY DEF TypeOK, PendingOK
<1>2. /\ Head(pending) \in WriteType
      /\ pending' \in Seq(WriteType)
      /\ Len(pending') = Len(pending) - 1
      /\ \A i \in 1 .. Len(pending') : pending'[i] = pending[i + 1]
  BY <1>1, HeadTailProperties
<1>3. Len(pending) \in Nat \ {0} /\ Head(pending) = pending[1]
  BY <1>1, EmptySeq, LenProperties
<1>4. pending' # <<>> <=> Len(pending') # 0
  BY <1>2, EmptySeq
<1>5. ASSUME pending' # <<>>
      PROVE  pending'[Len(pending')] = pending[Len(pending)] /\ Head(pending') = pending[2]
  <2>1. Len(pending') \in Nat \ {0} /\ Head(pending') = pending'[1]
    BY <1>2, <1>3, <1>4, <1>5
  <2> QED
    BY <2>1, <1>2, <1>3
<1> QED
  BY <1>2, <1>3, <1>4, <1>5

\* The transaction of saveRide: afterwards every row is in step, so the rows are
\* as exclusive as the memory.
LEMMA RideStored ==
    ASSUME TypeOK, MemoryInv, StoreInv, WriteRide
    PROVE  StoreInv'
<1>1. pending # <<>> /\ pending' = Tail(pending) /\ Head(pending).op = "saveRide"
  BY DEF WriteRide, Doing
<1>2. /\ Len(pending) = 1 /\ pending' = <<>> /\ Head(pending) = pending[1]
      /\ Subject \in DOMAIN rides
      /\ Len(pending') = 0
  <2>1. 1 \in 1 .. Len(pending) /\ pending[1] = Head(pending)
    BY <1>1, TailFacts
  <2>2. 1 = Len(pending) /\ pending[1].key \in DOMAIN rides
    BY <1>1, <2>1 DEF TypeOK, PendingOK
  <2> QED
    BY <1>1, <2>1, <2>2, TailFacts DEF Subject
<1>3. ~Clearing /\ ~Clearing'
  BY <1>1, <1>2 DEF Clearing
<1>4. /\ DOMAIN rideTable' = DOMAIN rideTable \cup {Subject}
      /\ rideTable'[Subject].ride = rides[Subject]
      /\ \A r \in DOMAIN rideTable : r # Subject => rideTable'[r] = rideTable[r]
  BY DEF WriteRide, Put, Snapshot
<1>5. ASSUME NEW r \in DOMAIN rideTable'
      PROVE  r \in DOMAIN rides /\ rideTable'[r].ride = rides[r]
  <2>1. CASE r = Subject
    BY <1>2, <1>4, <2>1
  <2>2. CASE r # Subject
    <3>1. pending[Len(pending)] # SaveRide(r)
      BY <1>2, <2>2 DEF SaveRide, Subject
    <3> QED
      BY <1>3, <1>4, <2>2, <3>1 DEF StoreInv, RowsInStep
  <2> QED
    BY <2>1, <2>2
<1>6. UNCHANGED rides
  BY DEF WriteRide, memory
<1>7. TableSafe(rideTable')
  <2>1. \A r \in DOMAIN rides : rides[r].status \in Active => rides[r].driver # NoDriver
    BY DEF MemoryInv, ServingBusy, TypeOK, DriversOK, DriverIds, NoDriver
  <2> QED
    BY <1>5, <2>1 DEF TableSafe, MemoryInv, ActiveExclusive, RequestedHasNone
<1>8. RowsInStep'
  BY <1>5, <1>6 DEF RowsInStep
<1>9. ResetEmpties'
  BY <1>2, <1>3 DEF ResetEmpties
<1> QED
  BY <1>7, <1>8, <1>9 DEF StoreInv

\* A write to another table than ride_history.
LEMMA OtherStored ==
    ASSUME TypeOK, StoreInv, pending # <<>>, pending' = Tail(pending),
           Head(pending).op \notin {"saveRide", "clearAll"},
           UNCHANGED <<rides, rideTable>>
    PROVE  StoreInv'
<1>1. ~Clearing
  BY DEF Clearing
<1>2. \A i \in 1 .. Len(pending') : pending'[i].op # "clearAll"
  BY <1>1, TailFacts DEF StoreInv, ResetEmpties
<1>3. ~Clearing'
  <2>1. ASSUME pending' # <<>> PROVE Head(pending').op # "clearAll"
    <3>1. 1 \in 1 .. Len(pending') /\ Head(pending') = pending'[1]
      BY <2>1, TailFacts
    <3> QED
      BY <1>2, <3>1
  <2> QED
    BY <2>1 DEF Clearing
<1>4. RowsInStep'
  <2> SUFFICES ASSUME NEW r \in DOMAIN rideTable, rideTable[r].ride # rides[r]
               PROVE  pending' # <<>> /\ pending'[Len(pending')] = SaveRide(r)
    BY <1>1 DEF RowsInStep, StoreInv
  <2>1. pending[Len(pending)] = SaveRide(r)
    BY <1>1 DEF StoreInv, RowsInStep
  <2>2. Len(pending) # 1
    BY <2>1, TailFacts DEF SaveRide
  <2> QED
    BY <2>1, <2>2, TailFacts
<1>5. TableSafe(rideTable)'
  BY DEF StoreInv, TableSafe
<1> QED
  BY <1>2, <1>3, <1>4, <1>5 DEF StoreInv, ResetEmpties

\* One statement of clearAll; with the last of them ride_history is empty.
LEMMA ClearStored ==
    ASSUME TypeOK, StoreInv, ClearTable
    PROVE  StoreInv'
<1>1. /\ pending # <<>> /\ pending' = Tail(pending) /\ Head(pending).op = "clearAll"
      /\ UNCHANGED rides
  BY DEF ClearTable, Doing, memory
<1>2. Clearing
  BY <1>1 DEF Clearing
<1>3. DOMAIN rides = {} /\ \A i \in 1 .. Len(pending) : pending[i].op = "clearAll"
  BY <1>2 DEF StoreInv, ResetEmpties
<1>4. /\ DOMAIN rideTable' \subseteq DOMAIN rideTable
      /\ \A r \in DOMAIN rideTable' :
            /\ rideTable'[r].ride.status = rideTable[r].ride.status
            /\ rideTable'[r].ride.driver = rideTable[r].ride.driver
      /\ Subject = "ride_history" => DOMAIN rideTable' = {}
  <2>1. CASE Subject = "ride_stops"
    <3>1. rideTable' = [r \in DOMAIN rideTable |-> [rideTable[r] EXCEPT !.ride.stops = <<>>]]
      BY <2>1 DEF ClearTable
    <3>2. \A r \in DOMAIN rideTable : rideTable[r] \in RowType /\ rideTable[r].ride \in RideType
      BY DEF TypeOK, RideTableOK, RowType
    <3>3. \A x \in RowType :
             /\ [x EXCEPT !.ride.stops = <<>>].ride.status = x.ride.status
             /\ [x EXCEPT !.ride.stops = <<>>].ride.driver = x.ride.driver
      BY DEF RowType, RideType
    <3> QED
      BY <2>1, <3>1, <3>2, <3>3
  <2>2. CASE Subject = "ride_history"
    BY <2>2 DEF ClearTable, Empty
  <2>3. CASE Subject # "ride_stops" /\ Subject # "ride_history"
    BY <2>3 DEF ClearTable
  <2> QED
    BY <2>1, <2>2, <2>3
<1>5. TableSafe(rideTable')
  BY <1>4 DEF StoreInv, TableSafe
<1>6. DOMAIN rideTable' = {} \/ \E i \in 1 .. Len(pending') : pending'[i] = DeleteFrom("ride_history")
  <2>1. CASE DOMAIN rideTable = {}
    BY <1>4, <2>1
  <2>2. CASE DOMAIN rideTable # {}
    <3>1. PICK i \in 1 .. Len(pending) : pending[i] = DeleteFrom("ride_history")
      BY <1>2, <2>2 DEF StoreInv, ResetEmpties
    <3>2. CASE i = 1
      <4>1. Subject = "ride_history"
        BY <1>1, <3>1, <3>2, TailFacts DEF Subject, DeleteFrom
      <4> QED
        BY <1>4, <4>1
    <3>3. CASE i # 1
      <4>1. i - 1 \in 1 .. Len(pending')
        BY <1>1, <3>3, TailFacts
      <4>2. pending'[i - 1] = pending[i - 1 + 1] /\ i - 1 + 1 = i
        BY <1>1, <4>1, TailFacts
      <4> QED
        BY <3>1, <4>1, <4>2
    <3> QED
      BY <3>2, <3>3
  <2> QED
    BY <2>1, <2>2
<1>7. \A i \in 1 .. Len(pending') : pending'[i].op = "clearAll"
  BY <1>1, <1>3, TailFacts
<1>8. Clearing' <=> pending' # <<>>
  <2>1. ASSUME pending' # <<>> PROVE Head(pending').op = "clearAll"
    <3>1. 1 \in 1 .. Len(pending') /\ Head(pending') = pending'[1]
      BY <1>1, <2>1, TailFacts
    <3> QED
      BY <1>7, <3>1
  <2> QED
    BY <2>1 DEF Clearing
<1>9. ~Clearing' => DOMAIN rideTable' = {} /\ Len(pending') = 0
  BY <1>1, <1>6, <1>8, TailFacts
<1>10. RowsInStep'
  BY <1>9 DEF RowsInStep
<1>11. ResetEmpties'
  BY <1>1, <1>3, <1>6, <1>7, <1>9 DEF ResetEmpties
<1> QED
  BY <1>5, <1>10, <1>11 DEF StoreInv

-----------------------------------------------------------------------------
(* Every step keeps the invariant *)

\* The ids the two counters have issued stay issued when the counters and the
\* sets of ids stay.
LEMMA IdsKept ==
    ASSUME IdsIssued, UNCHANGED <<rideCounter, nextDriverId>>,
           DOMAIN rides' = DOMAIN rides, DOMAIN drivers' = DOMAIN drivers
    PROVE  IdsIssued'
BY DEF IdsIssued

\* The start: the memory a restart makes of no table at all.
LEMMA InitSafe == Init => IInv
<1> SUFFICES ASSUME Init PROVE IInv
  OBVIOUS
<1>1. TypeOK
  BY InitTyped
<1>2. DOMAIN rides = {} /\ DOMAIN rideTable = {} /\ pending = <<>>
  BY EmptyTyped, BootTyped DEF Init
<1>3. ActiveExclusive /\ ServingBusy /\ RequestedHasNone
  BY <1>2 DEF ActiveExclusive, ServingBusy, RequestedHasNone
<1>4. \A d \in DOMAIN drivers : d \in Seeds /\ drivers[d].status = SeedStatus[d]
  BY EmptyTyped DEF Init, BootDrivers, BootDriverIds, BootStatus, RowsOf
<1>5. IdleNotBusy
  BY <1>4 DEF IdleNotBusy
<1>6. IdsIssued
  <2>1. DOMAIN drivers = BootDriverIds(Empty) /\ DOMAIN drivers \subseteq DriverIds
    BY EmptyTyped, BootTyped DEF Init
  <2>2. {SeedCount} \cup BootDriverIds(Empty) \in SUBSET (0 .. MaxDrivers)
    BY <2>1, BackendAssumption DEF DriverIds
  <2>3. \A d \in DOMAIN drivers : d <= nextDriverId
    BY <2>1, <2>2, LargestExists, BackendAssumption DEF Init, BootNextDriver
  <2> QED
    BY <1>2, <2>3 DEF IdsIssued
<1>7. StoreInv
  BY <1>2 DEF StoreInv, TableSafe, RowsInStep, ResetEmpties, Clearing
<1> QED
  BY <1>1, <1>3, <1>5, <1>6, <1>7 DEF IInv, MemoryInv

\* What is left to show of a handler that saves no ride.
LEMMA QuietHandlerSafe ==
    ASSUME IInv, TypeOK', MemoryInv', MutexFree, UNCHANGED <<rides, tables>>,
           \A i \in 1 .. Len(pending') : pending'[i].op # "clearAll"
    PROVE  IInv'
<1>1. pending' \in Seq(WriteType) /\ UNCHANGED rideTable
  BY DEF TypeOK, PendingOK, tables
<1>2. StoreInv => StoreInv'
  BY <1>1, HandlerStored DEF IInv
<1> QED
  BY <1>2 DEF IInv

\* ... and of one whose last write w saves every ride it changes.
LEMMA HandlerSafe ==
    ASSUME IInv, TypeOK', MemoryInv', MutexFree, UNCHANGED tables,
           NEW s \in Seq(WriteType), \A i \in 1 .. Len(s) : s[i].op # "clearAll",
           NEW w \in WriteType, w.op # "clearAll", pending' = s \o <<w>>,
           DOMAIN rides \subseteq DOMAIN rides',
           \A q \in DOMAIN rides : rides'[q] = rides[q] \/ w = SaveRide(q)
    PROVE  IInv'
<1>1. /\ pending' # <<>> /\ pending'[Len(pending')] = w
      /\ \A i \in 1 .. Len(pending') : pending'[i].op # "clearAll"
  BY LastOf
<1>2. pending' \in Seq(WriteType) /\ UNCHANGED rideTable
  BY DEF TypeOK, PendingOK, tables
<1>3. StoreInv => StoreInv'
  BY <1>1, <1>2, HandlerStored DEF IInv
<1> QED
  BY <1>3 DEF IInv

\* RideService::cancelRide, on behalf of a rider or of the administrator.
LEMMA CancelSafe ==
    ASSUME IInv, TypeOK', NEW r \in DOMAIN rides, CancelRide(r), MutexFree,
           NEW before \in Seq(WriteType), \A i \in 1 .. Len(before) : before[i].op # "clearAll",
           pending' = before \o <<SaveRide(r)>>
    PROVE  IInv'
<1>1. SaveRide(r) \in WriteType /\ SaveRide(r).op # "clearAll"
  BY WriteFacts DEF IInv, TypeOK, RidesOK
<1>2. /\ DOMAIN rides' = DOMAIN rides
      /\ \A q \in DOMAIN rides : q # r => rides'[q] = rides[q]
      /\ rides'[r].status = "CANCELLED"
  BY DEF CancelRide, IInv, TypeOK, RidesOK, RideType
<1>3. DOMAIN drivers' = DOMAIN drivers
  BY DriverFreed DEF CancelRide, IInv, TypeOK, DriversOK
<1>4. IdsIssued'
  BY <1>2, <1>3, IdsKept DEF CancelRide, IInv, MemoryInv
<1>5. MemoryInv'
  BY <1>2, <1>4, DriversAgree, EndSafe DEF CancelRide, Unfinished, Finished, IInv
<1>6. UNCHANGED tables
  BY DEF CancelRide
<1> QED
  BY <1>1, <1>2, <1>5, <1>6, HandlerSafe

\* The rider's handlers.
LEMMA RiderSafe ==
    ASSUME IInv, TypeOK', NEW a \in Riders, RiderStep(a)
    PROVE  IInv'
<1>1. <<>> \in Seq(WriteType) /\ \A i \in 1 .. Len(<<>>) : <<>>[i].op # "clearAll"
  OBVIOUS
<1>2. ASSUME NEW x \in RideType, CreateRide(x), MutexFree,
             x.status = "REQUESTED", x.driver = NoDriver
      PROVE  IInv'
  <2>1. rideCounter \in Nat /\ rideCounter + 1 \in RideIds
    BY <1>2, BackendAssumption DEF CreateRide, IInv, TypeOK, CountersOK, RideIds
  <2>2. rideCounter + 1 \notin DOMAIN rides
    BY <2>1 DEF IInv, MemoryInv, IdsIssued
  <2>3. /\ DOMAIN rides' = DOMAIN rides \cup {rideCounter + 1}
        /\ rides'[rideCounter + 1] = x
        /\ \A q \in DOMAIN rides : rides'[q] = rides[q]
    BY <1>2, <2>2 DEF CreateRide, Put
  <2>4. IdsIssued'
    <3>1. \A q \in DOMAIN rides : q \in Nat /\ q <= rideCounter
      BY DEF IInv, TypeOK, RidesOK, RideIds, MemoryInv, IdsIssued
    <3> QED
      BY <1>2, <2>1, <2>3, <3>1 DEF CreateRide, IdsIssued, IInv, MemoryInv
  <2>5. MemoryInv'
    BY <1>2, <2>3, <2>4, RidesSafe DEF CreateRide, IInv
  <2>6. /\ pending' = <<>> \o <<SaveRide(rideCounter + 1)>>
        /\ SaveRide(rideCounter + 1) \in WriteType
        /\ SaveRide(rideCounter + 1).op # "clearAll"
    BY <1>2, <2>1, WriteFacts DEF CreateRide
  <2> QED
    BY <1>1, <1>2, <2>3, <2>5, <2>6, HandlerSafe DEF CreateRide
<1>3. ASSUME NEW trip \in Trips, NEW v \in Vehicles, CreateRideForRider(a, trip, v)
      PROVE  IInv'
  <2>1. trip[1] \in Locations /\ trip[2] \in Locations
    BY BackendAssumption
  <2>2. NewRide(a, v, trip[1], trip[2]) \in RideType
    BY <2>1, NewRideTyped
  <2> QED
    BY <1>2, <1>3, <2>2 DEF CreateRideForRider, NewRide
<1>4. ASSUME NEW r \in DOMAIN rides, RebookRideForRider(a, r)
      PROVE  IInv'
  <2>1. NewRide(a, rides[r].vehicle, rides[r].source, rides[r].destination) \in RideType
    BY NewRideTyped DEF IInv, TypeOK, RidesOK, RideType
  <2> QED
    BY <1>2, <1>4, <2>1 DEF RebookRideForRider, NewRide
<1>5. ASSUME NEW r \in DOMAIN rides
      PROVE  SaveRide(r) \in WriteType /\ SaveRide(r).op # "clearAll"
  BY WriteFacts DEF IInv, TypeOK, RidesOK
<1>6. ASSUME NEW r \in DOMAIN rides, AssignNearestForRider(a, r)
      PROVE  IInv'
  <2>1. PICK d \in Nearest(drivers, r) : AssignDriver(drivers, r, d)
    BY <1>6 DEF AssignNearestForRider
  <2>2. d \in DOMAIN drivers /\ d \in DriverIds /\ drivers[d].status = "AVAILABLE"
    BY <2>1 DEF Nearest, Matched, NearEnough, Candidates, IInv, TypeOK, DriversOK
  <2>3. /\ DOMAIN rides' = DOMAIN rides /\ DOMAIN drivers' = DOMAIN drivers
        /\ \A q \in DOMAIN rides : q # r => rides'[q] = rides[q]
    BY <2>1 DEF AssignDriver
  <2>4. IdsIssued'
    BY <1>6, <2>3, IdsKept DEF AssignNearestForRider, IInv, MemoryInv
  <2>5. MemoryInv'
    BY <1>6, <2>1, <2>2, <2>4, AssignSafe, DriversAgree DEF AssignNearestForRider, IInv
  <2>6. pending' = <<>> \o <<SaveRide(r)>>
    BY <1>6 DEF AssignNearestForRider
  <2>7. MutexFree /\ UNCHANGED tables
    BY <1>6 DEF AssignNearestForRider
  <2> QED
    BY <1>1, <1>5, <2>3, <2>5, <2>6, <2>7, HandlerSafe
<1>7. ASSUME NEW r \in DOMAIN rides, NEW l \in Locations, AddStopForRider(a, r, l)
      PROVE  IInv'
  <2>1. /\ DOMAIN rides' = DOMAIN rides
        /\ \A q \in DOMAIN rides : rides'[q].status = rides[q].status /\ rides'[q].driver = rides[q].driver
        /\ \A q \in DOMAIN rides : q # r => rides'[q] = rides[q]
    BY <1>7 DEF AddStopForRider, IInv, TypeOK, RidesOK, RideType
  <2>2. UNCHANGED <<drivers, rideCounter, nextDriverId, tables>> /\ MutexFree
    BY <1>7 DEF AddStopForRider
  <2>3. IdsIssued'
    BY <2>1, <2>2, IdsKept DEF IInv, MemoryInv
  <2>4. MemoryInv'
    BY <2>1, <2>2, <2>3, RidesSafe DEF IInv
  <2>5. pending' = <<>> \o <<SaveRide(r)>>
    BY <1>7 DEF AddStopForRider
  <2> QED
    BY <1>1, <1>5, <2>1, <2>2, <2>4, <2>5, HandlerSafe
<1>8. ASSUME NEW r \in DOMAIN rides, NEW hasReason \in BOOLEAN, CancelRideForRider(a, r, hasReason)
      PROVE  IInv'
  <2> DEFINE before == IF hasReason THEN <<SaveCancelReason(r)>> ELSE <<>>
  <2>1. SaveCancelReason(r) \in WriteType /\ SaveCancelReason(r).op # "clearAll"
    BY WriteFacts DEF IInv, TypeOK, RidesOK
  <2>2. before \in Seq(WriteType) /\ \A i \in 1 .. Len(before) : before[i].op # "clearAll"
    BY <2>1
  <2>3. pending' = before \o <<SaveRide(r)>> /\ CancelRide(r) /\ MutexFree
    BY <1>8 DEF CancelRideForRider
  <2> HIDE DEF before
  <2> QED
    BY <2>2, <2>3, CancelSafe
<1>9. ASSUME NEW r \in DOMAIN rides, RateRideForRider(a, r)
      PROVE  IInv'
  <2>1. r \in RideIds /\ rides[r].driver \in DriverIds
    BY <1>9 DEF RateRideForRider, IInv, TypeOK, RidesOK, RideType
  <2>2. /\ SaveRating(r, rides[r].driver) \in WriteType
        /\ SaveRating(r, rides[r].driver).op # "clearAll"
    BY <2>1, WriteFacts
  <2>3. pending' = <<>> \o <<SaveRating(r, rides[r].driver)>> /\ MutexFree
        /\ UNCHANGED <<memory, tables>>
    BY <1>9 DEF RateRideForRider
  <2>4. MemoryInv'
    BY <2>3 DEF memory, IInv, MemoryInv, ActiveExclusive, ServingBusy, IdleNotBusy, HasActiveRide,
                RequestedHasNone, IdsIssued
  <2> QED
    BY <1>1, <2>2, <2>3, <2>4, HandlerSafe DEF memory
<1> QED
  BY <1>3, <1>4, <1>6, <1>7, <1>8, <1>9 DEF RiderStep

\* The driver's handlers.
LEMMA DriverSafe ==
    ASSUME IInv, TypeOK', NEW a \in DriverAccounts, DriverStep(a)
    PROVE  IInv'
<1> USE DEF IInv
<1>1. ASSUME EnsureDriverForAccount(a)
      PROVE  /\ MutexFree /\ UNCHANGED tables
             /\ Agrees(EnsuredDrivers(a))
             /\ Me(a) \in DriverIds /\ Me(a) \in DOMAIN EnsuredDrivers(a)
             /\ ProfileInsert(a) \in Seq(WriteType)
             /\ \A i \in 1 .. Len(ProfileInsert(a)) : ProfileInsert(a)[i].op # "clearAll"
  BY <1>1, EnsuredAgree, EnsureFacts DEF EnsureDriverForAccount
<1>2. ASSUME EnsureDriverForAccount(a), DOMAIN rides' = DOMAIN rides,
             DOMAIN drivers' = DOMAIN EnsuredDrivers(a)
      PROVE  IdsIssued'
  <2>1. /\ \A d \in DOMAIN EnsuredDrivers(a) : d <= nextDriverId'
        /\ rideCounter' = rideCounter
    BY <1>2, EnsuredAgree
  <2> QED
    BY <1>2, <2>1 DEF MemoryInv, IdsIssued
<1>3. ASSUME NEW r \in DOMAIN rides
      PROVE  SaveRide(r) \in WriteType /\ SaveRide(r).op # "clearAll"
  BY WriteFacts DEF TypeOK, RidesOK
<1>4. ASSUME NEW p \in ProfileType
      PROVE  SaveDriverProfile(a, p) \in WriteType /\ SaveDriverProfile(a, p).op # "clearAll"
  BY <1>4, WriteFacts
<1>5. ASSUME DriverState(a)
      PROVE  IInv'
  <2>1. EnsureDriverForAccount(a) /\ drivers' = EnsuredDrivers(a) /\ UNCHANGED rides
        /\ pending' = ProfileInsert(a)
    BY <1>5 DEF DriverState
  <2>2. MemoryInv'
    BY <1>1, <1>2, <2>1, QuietSafe
  <2> QED
    BY <1>1, <2>1, <2>2, QuietHandlerSafe
<1>6. ASSUME NEW v \in Vehicles, NEW l \in Locations, UpdateDriverProfileForAccount(a, v, l)
      PROVE  IInv'
  <2> DEFINE p == [vehicle |-> v, location |-> l, availability |-> EnsuredDrivers(a)[Me(a)].status]
  <2>1. EnsureDriverForAccount(a) /\ UNCHANGED rides
        /\ pending' = ProfileInsert(a) \o <<SaveDriverProfile(a, p)>>
        /\ drivers' = [EnsuredDrivers(a) EXCEPT ![Me(a)].location = l]
    BY <1>6 DEF UpdateDriverProfileForAccount
  <2>2. p \in ProfileType
    BY <2>1, EnsureFacts DEF ProfileType, DriverType
  <2>3. /\ DOMAIN drivers' = DOMAIN EnsuredDrivers(a)
        /\ \A d \in DOMAIN drivers' : drivers'[d] \in DriverType
        /\ \A d \in DOMAIN drivers' : drivers'[d].status = EnsuredDrivers(a)[d].status
    BY <1>1, <2>1 DEF Agrees, DriverType
  <2>4. Agrees(drivers')
    BY <1>1, <2>1, <2>3 DEF Agrees
  <2>5. MemoryInv'
    BY <1>2, <2>1, <2>3, <2>4, QuietSafe
  <2> HIDE DEF p
  <2> QED
    BY <1>1, <1>4, <2>1, <2>2, <2>5, HandlerSafe
<1>7. ASSUME NEW s \in ParsedStatus, SetDriverStatusForAccount(a, s)
      PROVE  IInv'
  <2> DEFINE p == [ProfileOf(a) EXCEPT !.availability = s]
  <2>1. EnsureDriverForAccount(a) /\ UNCHANGED rides /\ ~HasActiveRide(Me(a))
        /\ pending' = ProfileInsert(a) \o <<SaveDriverProfile(a, p)>>
        /\ drivers' = [EnsuredDrivers(a) EXCEPT ![Me(a)].status = s]
    BY <1>7 DEF SetDriverStatusForAccount
  <2>2. p \in ProfileType
    BY <2>1, EnsureFacts DEF ProfileType, ParsedStatus, DriverStatuses
  <2>3. Agrees(drivers') /\ DOMAIN drivers' = DOMAIN EnsuredDrivers(a)
    BY <1>1, <2>1, SetIdleAgrees
  <2>4. MemoryInv'
    BY <1>2, <2>1, <2>3, QuietSafe
  <2> HIDE DEF p
  <2> QED
    BY <1>1, <1>4, <2>1, <2>2, <2>4, HandlerSafe
<1>8. ASSUME NEW r \in DOMAIN rides, RejectRideForDriver(a, r)
      PROVE  IInv'
  <2>1. EnsureDriverForAccount(a) /\ drivers' = EnsuredDrivers(a) /\ UNCHANGED rides
        /\ pending' = ProfileInsert(a)
    BY <1>8 DEF RejectRideForDriver
  <2>2. MemoryInv'
    BY <1>1, <1>2, <2>1, QuietSafe
  <2> QED
    BY <1>1, <2>1, <2>2, QuietHandlerSafe
<1>9. ASSUME NEW r \in DOMAIN rides, EnsureDriverForAccount(a), MemoryInv',
             pending' = ProfileInsert(a) \o <<SaveRide(r)>>,
             DOMAIN rides' = DOMAIN rides,
             \A q \in DOMAIN rides : q # r => rides'[q] = rides[q]
      PROVE  IInv'
  BY <1>1, <1>3, <1>9, HandlerSafe
<1>10. ASSUME NEW r \in DOMAIN rides, AcceptRideForDriver(a, r)
       PROVE  IInv'
  <2>1. /\ EnsureDriverForAccount(a) /\ AssignDriver(EnsuredDrivers(a), r, Me(a))
        /\ rides[r].status = "REQUESTED" /\ EnsuredDrivers(a)[Me(a)].status = "AVAILABLE"
        /\ pending' = ProfileInsert(a) \o <<SaveRide(r)>>
    BY <1>10 DEF AcceptRideForDriver
  <2>2. /\ DOMAIN rides' = DOMAIN rides /\ DOMAIN drivers' = DOMAIN EnsuredDrivers(a)
        /\ \A q \in DOMAIN rides : q # r => rides'[q] = rides[q]
    BY <2>1 DEF AssignDriver
  <2>3. MemoryInv'
    BY <1>1, <1>2, <2>1, <2>2, AssignSafe
  <2> QED
    BY <1>9, <2>1, <2>2, <2>3
<1>11. ASSUME NEW r \in DOMAIN rides, StartRideForDriver(a, r)
       PROVE  IInv'
  <2>1. /\ EnsureDriverForAccount(a) /\ drivers' = EnsuredDrivers(a)
        /\ rides[r].status = "DRIVER_ASSIGNED"
        /\ rides' = [rides EXCEPT ![r].status = "IN_PROGRESS"]
        /\ pending' = ProfileInsert(a) \o <<SaveRide(r)>>
    BY <1>11 DEF StartRideForDriver
  <2>2. /\ DOMAIN rides' = DOMAIN rides
        /\ \A q \in DOMAIN rides : q # r => rides'[q] = rides[q]
    BY <2>1
  <2>3. MemoryInv'
    BY <1>1, <1>2, <2>1, <2>2, StartSafe
  <2> QED
    BY <1>9, <2>1, <2>2, <2>3
<1>12. ASSUME NEW r \in DOMAIN rides, CompleteRideForDriver(a, r)
       PROVE  IInv'
  <2>1. /\ EnsureDriverForAccount(a) /\ drivers' = FreeDriver(EnsuredDrivers(a), rides[r].driver)
        /\ rides[r].status = "IN_PROGRESS"
        /\ rides' = [rides EXCEPT ![r].status = "COMPLETED"]
        /\ pending' = ProfileInsert(a) \o <<SaveRide(r)>>
    BY <1>12 DEF CompleteRideForDriver, DrivenBy
  <2>2. /\ DOMAIN rides' = DOMAIN rides
        /\ \A q \in DOMAIN rides : q # r => rides'[q] = rides[q]
        /\ rides'[r].status = "COMPLETED"
    BY <2>1 DEF TypeOK, RidesOK, RideType
  <2>3. DOMAIN drivers' = DOMAIN EnsuredDrivers(a)
    BY <2>1, EnsureFacts, DriverFreed
  <2>4. rides[r].status \notin Finished /\ rides'[r].status \in Finished
    BY <2>1, <2>2 DEF Finished
  <2>5. MemoryInv'
    BY <1>1, <1>2, <2>1, <2>2, <2>3, <2>4, EndSafe
  <2> QED
    BY <1>9, <2>1, <2>2, <2>5
<1> QED
  BY <1>5, <1>6, <1>7, <1>8, <1>10, <1>11, <1>12, BackendAssumption DEF DriverStep

\* The administrator's handlers.
LEMMA AdminSafe ==
    ASSUME IInv, TypeOK', AdminStep
    PROVE  IInv'
<1>1. ASSUME NEW d \in DOMAIN drivers, NEW s \in ParsedStatus, SetDriverStatusAsAdmin(d, s)
      PROVE  IInv'
  <2>1. /\ MutexFree /\ ~HasActiveRide(d) /\ drivers' = [drivers EXCEPT ![d].status = s]
        /\ UNCHANGED <<rides, rideCounter, nextDriverId, pending, tables>>
    BY <1>1 DEF SetDriverStatusAsAdmin
  <2>2. Agrees(drivers') /\ DOMAIN drivers' = DOMAIN drivers
    BY <2>1, DriversAgree, SetIdleAgrees DEF IInv
  <2>3. IdsIssued'
    BY <2>1, <2>2, IdsKept DEF IInv, MemoryInv
  <2>4. MemoryInv'
    BY <2>1, <2>2, <2>3, QuietSafe DEF IInv
  <2>5. \A i \in 1 .. Len(pending') : pending'[i].op # "clearAll"
    BY <2>1 DEF MutexFree
  <2> QED
    BY <2>1, <2>4, <2>5, QuietHandlerSafe
<1>2. ASSUME NEW r \in DOMAIN rides, CancelRideAsAdmin(r)
      PROVE  IInv'
  <2>1. pending' = <<>> \o <<SaveRide(r)>> /\ CancelRide(r) /\ MutexFree
    BY <1>2 DEF CancelRideAsAdmin
  <2>2. <<>> \in Seq(WriteType) /\ \A i \in 1 .. Len(<<>>) : <<>>[i].op # "clearAll"
    OBVIOUS
  <2> QED
    BY <2>1, <2>2, CancelSafe
<1>3. ASSUME Reset
      PROVE  IInv'
  <2>1. MemoryInv'
    BY <1>3, EmptyTyped, EmptySafe, BootSafe DEF Reset
  <2> QED
    BY <1>3, <2>1, ResetStored DEF IInv
<1> QED
  BY <1>1, <1>2, <1>3 DEF AdminStep

\* The memory does not change while a handler's writes are made.
LEMMA StoreSafe ==
    ASSUME IInv, TypeOK', StoreStep
    PROVE  IInv'
<1>1. UNCHANGED memory /\ pending # <<>> /\ (Reliable => pending' = Tail(pending))
  BY DEF StoreStep, Doing, WriteRide, WriteRideFails, WriteIsLost, WriteDriverProfile, WriteRating,
         WriteCancelReason, ClearTable, ClearTableThrows, Clearing, Reliable
<1>2. MemoryInv'
  BY <1>1 DEF memory, IInv, MemoryInv, ActiveExclusive, ServingBusy, IdleNotBusy, HasActiveRide,
              RequestedHasNone, IdsIssued
<1>3. ASSUME Reliable, StoreInv
      PROVE  StoreInv'
  <2>1. CASE WriteRide
    BY <1>3, <2>1, RideStored DEF IInv
  <2>2. CASE WriteDriverProfile \/ WriteRating \/ WriteCancelReason
    <3>1. /\ Head(pending).op \notin {"saveRide", "clearAll"}
          /\ UNCHANGED <<rides, rideTable>>
      BY <2>2 DEF WriteDriverProfile, WriteRating, WriteCancelReason, Doing, memory
    <3> QED
      BY <1>1, <1>3, <3>1, OtherStored DEF IInv
  <2>3. CASE ClearTable
    BY <1>3, <2>3, ClearStored DEF IInv
  <2> QED
    BY <1>3, <2>1, <2>2, <2>3 DEF StoreStep, WriteRideFails, WriteIsLost, ClearTableThrows, Reliable
<1> QED
  BY <1>2, <1>3 DEF IInv

\* A crash is only ever met with a store whose statements do not fail.
LEMMA CrashSafe ==
    ASSUME ~("crash" \in Faults /\ ~Reliable), IInv, TypeOK', Crash
    PROVE  IInv'
<1>1. StoreInv
  BY DEF Crash, IInv
<1>2. TableTyped(rideTable) /\ TableSafe(rideTable) /\ Boot(rideTable)
  BY <1>1 DEF StoreInv, Crash, IInv, TypeOK, RideTableOK, TableTyped
<1>3. MemoryInv'
  BY <1>2, BootSafe
<1>4. StoreInv'
  BY <1>1, CrashStored DEF IInv
<1> QED
  BY <1>3, <1>4 DEF IInv

\* The inductive step, where crashes and failing statements are not both possible.
LEMMA StepSafe ==
    ASSUME ~("crash" \in Faults /\ ~Reliable), IInv, [Next]_vars
    PROVE  IInv'
<1>1. TypeOK'
  BY TypeStep DEF IInv
<1>2. CASE UNCHANGED vars
  BY <1>1, <1>2 DEF vars, memory, tables, IInv, MemoryInv, ActiveExclusive, ServingBusy, IdleNotBusy,
            HasActiveRide, RequestedHasNone, IdsIssued, StoreInv, TableSafe, RowsInStep, ResetEmpties,
            Clearing
<1> QED
  BY <1>1, <1>2, RiderSafe, DriverSafe, AdminSafe, StoreSafe, CrashSafe DEF Next

\* ... so the invariant holds of every state the backend reaches.
LEMMA InvariantHolds ==
    ASSUME ~("crash" \in Faults /\ ~Reliable)
    PROVE  Spec => []IInv
<1>1. Init => IInv
  BY InitSafe
<1>2. IInv /\ [Next]_vars => IInv'
  BY StepSafe
<1> QED
  BY <1>1, <1>2, PTL DEF Spec

-----------------------------------------------------------------------------
(* The theorems *)

\* No driver ever serves two rides, whichever of acceptRideForDriver and
\* assignNearestForRider wins, and whatever the other handlers, a reset and any
\* number of crashes do in between; even if saves and deletions fail, as long as no
\* restart then reads what they left.
THEOREM NoDoubleService ==
    ASSUME ~("crash" \in Faults /\ ~Reliable)
    PROVE  Spec => []ActiveExclusive
<1>1. IInv => ActiveExclusive
  BY DEF IInv, MemoryInv
<1> QED
  BY <1>1, InvariantHolds, PTL

\* ... and a driver is ON_TRIP exactly while he serves a ride, or was seeded so.
THEOREM StatusMatchesRides ==
    ASSUME ~("crash" \in Faults /\ ~Reliable)
    PROVE  Spec => []BusyIffServing
<1>1. IInv => BusyIffServing
  BY DEF IInv, MemoryInv, ServingBusy, IdleNotBusy, BusyIffServing, HasActiveRide
<1> QED
  BY <1>1, InvariantHolds, PTL

\* If no statement of the store fails, the rows of ride_history never name a driver twice either,
\* not even between two writes of a handler or of clearAll: that is why a
\* restart is safe at any moment.
THEOREM RestartIsSafe ==
    ASSUME Reliable
    PROVE  Spec => []StoreExclusive
<1>1. IInv => StoreExclusive
  BY DEF IInv, StoreInv, TableSafe, StoreExclusive
<1>2. ~("crash" \in Faults /\ ~Reliable)
  OBVIOUS
<1>3. Spec => []IInv
  BY <1>2, InvariantHolds
<1> QED
  BY <1>1, <1>3, PTL
=============================================================================
