--------------------------- MODULE RideLifecycle ---------------------------
(***************************************************************************)
(* What RideFlow promises about a ride, whoever asks and whatever crashes: *)
(* a ledger of rides that only moves forward.  A ride is requested, gets   *)
(* one driver for good, is started, and ends COMPLETED or CANCELLED; a     *)
(* driver serves one ride at a time; a ride that ended stays as it is.     *)
(* RideBackend is checked to implement this module with the durable        *)
(* ride_history table as the ledger, so that the promise survives          *)
(* restarts.  The lifecycle is the one of readme.md, "Ride Lifecycle",     *)
(* as RideService.cpp carries it out.                                      *)
(***************************************************************************)
EXTENDS Naturals

CONSTANTS
    LedgerRides,        \* the ride numbers the ledger may hold
    LedgerDrivers,      \* the driver numbers
    Unassigned,         \* stands for "no driver yet"
    Fee                 \* the cancellation fee

VARIABLE ledger         \* ride number -> [status, driver, fee]

Serving == {"DRIVER_ASSIGNED", "IN_PROGRESS"}

Entry == [status : {"REQUESTED", "DRIVER_ASSIGNED", "IN_PROGRESS",
                    "COMPLETED", "CANCELLED"},
          driver : LedgerDrivers \cup {Unassigned},
          fee    : {0, Fee}]

LedgerInit == ledger = [r \in {} |-> {}]

Request(r) ==
    /\ r \notin DOMAIN ledger
    /\ ledger' = [q \in DOMAIN ledger \cup {r} |->
                    IF q = r THEN [status |-> "REQUESTED",
                                   driver |-> Unassigned, fee |-> 0]
                             ELSE ledger[q]]

Assign(r, d) ==
    /\ r \in DOMAIN ledger
    /\ ledger[r].status = "REQUESTED"
    /\ \A q \in DOMAIN ledger : ledger[q].driver = d => ledger[q].status \notin Serving
    /\ ledger' = [ledger EXCEPT ![r].status = "DRIVER_ASSIGNED", ![r].driver = d]

Start(r) ==
    /\ r \in DOMAIN ledger
    /\ ledger[r].status = "DRIVER_ASSIGNED"
    /\ ledger' = [ledger EXCEPT ![r].status = "IN_PROGRESS"]

Complete(r) ==
    /\ r \in DOMAIN ledger
    /\ ledger[r].status = "IN_PROGRESS"
    /\ ledger' = [ledger EXCEPT ![r].status = "COMPLETED"]

\* The fee is due exactly when a driver was already serving the ride.
Cancel(r) ==
    /\ r \in DOMAIN ledger
    /\ ledger[r].status \in Serving \cup {"REQUESTED"}
    /\ ledger' = [ledger EXCEPT
         ![r].status = "CANCELLED",
         ![r].fee = IF ledger[r].status \in Serving THEN Fee ELSE 0]

\* The administrator's demo reset empties the whole history at once.
Clear == ledger' = [r \in {} |-> {}]

LedgerNext ==
    \/ \E r \in LedgerRides :
          \/ Request(r)
          \/ \E d \in LedgerDrivers : Assign(r, d)
          \/ Start(r)
          \/ Complete(r)
          \/ Cancel(r)
    \/ Clear

LedgerSpec == LedgerInit /\ [][LedgerNext]_ledger
=============================================================================
