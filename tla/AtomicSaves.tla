---------------------------- MODULE AtomicSaves ----------------------------
(***************************************************************************)
(* What RideBackend takes for granted of RideHistoryStore::saveRide: a     *)
(* ride and its stops are written whole, as the ride is in memory at that  *)
(* moment, or nothing is written at all.  A restart finds what was written.*)
(***************************************************************************)
EXTENDS Naturals

CONSTANTS SavedRides, LastVersion

VARIABLES
    current,    \* ride -> its version in memory, counted from the start
    saved       \* ride -> the versions of its row and of its stops in the file

AtomicInit ==
    /\ current = [r \in SavedRides |-> 0]
    /\ saved = [r \in SavedRides |-> [row |-> 0, stops |-> 0]]

Change(r) ==
    /\ current[r] < LastVersion
    /\ current' = [current EXCEPT ![r] = @ + 1]
    /\ UNCHANGED saved

Save(r) ==
    /\ saved' = [saved EXCEPT ![r] = [row |-> current[r], stops |-> current[r]]]
    /\ UNCHANGED current

Reload ==
    /\ current' = [r \in SavedRides |-> saved[r].row]
    /\ UNCHANGED saved

AtomicNext == Reload \/ \E r \in SavedRides : Change(r) \/ Save(r)

AtomicSpec == AtomicInit /\ [][AtomicNext]_<<current, saved>>
=============================================================================
