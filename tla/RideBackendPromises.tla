------------------------ MODULE RideBackendPromises ------------------------
(***************************************************************************)
(* RideBackend with a record of what it told its drivers, to compare with  *)
(* what it does later: the replies and the documentation make promises     *)
(* that no variable of the program keeps.                                  *)
(***************************************************************************)
EXTENDS RideBackend

VARIABLES
    told,       \* driver -> the last status set for him, and by whom
    refreshed,  \* accounts seen since the last restart, profile not edited since
    edited      \* accounts that saved a profile since the last restart

record == <<told, refreshed, edited>>

PromisesInit ==
    /\ Init
    /\ told = Empty
    /\ refreshed = {}
    /\ edited = {}

\* The steps that promise something, each with what it promises.
RecordedStep ==
    \/ \E a \in DriverAccounts, s \in ParsedStatus :
          /\ SetDriverStatusForAccount(a, s)
          /\ told' = Put(told, Me(a), [status |-> s, by |-> "driver"])
          /\ UNCHANGED <<refreshed, edited>>
    \/ \E d \in DOMAIN drivers, s \in ParsedStatus :
          /\ SetDriverStatusAsAdmin(d, s)
          /\ told' = Put(told, d, [status |-> s, by |-> "admin"])
          /\ UNCHANGED <<refreshed, edited>>
    \/ \E a \in DriverAccounts, f \in ProfileForms :
          /\ UpdateDriverProfileForAccount(a, f[1], f[2])
          /\ edited' = edited \cup {a}
          /\ refreshed' = refreshed \ {a}
          /\ UNCHANGED told
    \/ \E a \in DriverAccounts :
          /\ DriverState(a)
          /\ refreshed' = (refreshed \cup {a}) \ edited
          /\ UNCHANGED <<told, edited>>
    \/ /\ Crash
       /\ refreshed' = {} /\ edited' = {}
       /\ UNCHANGED told
    \/ /\ Reset
       /\ told' = Empty
       /\ UNCHANGED <<refreshed, edited>>

\* The steps that promise nothing new.
SilentStep ==
    \/ \E a \in Riders : RiderStep(a)
    \/ \E a \in DriverAccounts, r \in DOMAIN rides :
          \/ RejectRideForDriver(a, r)
          \/ AcceptRideForDriver(a, r)
          \/ StartRideForDriver(a, r)
          \/ CompleteRideForDriver(a, r)
    \/ \E r \in DOMAIN rides : CancelRideAsAdmin(r)
    \/ StoreStep

PromisesNext == RecordedStep \/ (SilentStep /\ UNCHANGED record)

PromisesSpec == PromisesInit /\ [][PromisesNext]_<<vars, record>>

-----------------------------------------------------------------------------

GetsRide(d) == \E r \in DOMAIN rides : rides[r].driver # d /\ rides'[r].driver = d

\* AI_HANDOFF.md:224, "Driver profile data, availability, ... are also persisted
\* in SQLite": a driver who set himself OFFLINE, and whose profile row says so,
\* gets no ride before somebody sets his status again, restarts included.
AvailabilityPersisted ==
    [][\A a \in DOMAIN profiles \cap DOMAIN driverByEmail :
          /\ profiles[a].availability = "OFFLINE"
          /\ driverByEmail[a] \in DOMAIN told
          /\ told[driverByEmail[a]] = [status |-> "OFFLINE", by |-> "driver"]
          /\ DOMAIN rides \subseteq DOMAIN rides'
          => ~GetsRide(driverByEmail[a])]_<<vars, record>>

\* WebServer.cpp:1099, "Vehicle changes apply after the next session refresh.":
\* a driver seen since the restart that followed his last profile change drives
\* the vehicle of his profile.
VehicleChangesApply ==
    \A a \in refreshed :
        MutexFree /\ a \in DOMAIN driverByEmail =>
            drivers[driverByEmail[a]].vehicle = profiles[a].vehicle
=============================================================================
