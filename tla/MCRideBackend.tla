--------------------------- MODULE MCRideBackend ---------------------------
(***************************************************************************)
(* Small instances of RideBackend.  Two places, two seeded drivers of      *)
(* which the second is seeded ON_TRIP like D6, the demo driver account     *)
(* bound to D1 and one registered driver account.                          *)
(***************************************************************************)
EXTENDS RideBackend

MCTrips == {<<"gate", "library">>}
MCEta == [p \in {"gate", "library"} \X {"gate", "library"} |-> IF p[1] = p[2] THEN 0 ELSE 3]
MCSeedLocation == <<"gate", "library">>
MCSeedVehicle == <<"sedan", "sedan">>
MCSeedStatus == <<"AVAILABLE", "ON_TRIP">>

\* For the runs with one seed and a second vehicle.
MCOneLocation == <<"gate">>
MCOneVehicle == <<"sedan">>
MCOneStatus == <<"AVAILABLE">>
MCTwoTrips == {<<"gate", "library">>, <<"library", "gate">>}

MCForms == {<<"sedan", "gate">>, <<"sedan", "library">>}
MCFormStay == {<<"sedan", "gate">>}
MCFormMove == {<<"sedan", "library">>}
MCNoForm == {}

\* What decides about drivers and accounts: no guard reads ratings or cancel_reasons.
MCAccountsView == <<memory, pending, rideTable, profiles, outdated>>

\* A lost save is followed up while there is one ride: a state with a second one is
\* checked, and left, if ride_history lags behind the memory.
MCLossWithOneRide ==
    \/ DOMAIN rides \cup DOMAIN rideTable # RideIds
    \/ \A r \in DOMAIN rides :
          \/ r \in DOMAIN rideTable /\ rideTable[r] = Snapshot(r)
          \/ pending # <<>> /\ pending[Len(pending)] = SaveRide(r)

MCFormSuv == {<<"suv", "library">>}
=============================================================================
