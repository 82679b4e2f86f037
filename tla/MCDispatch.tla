----------------------------- MODULE MCDispatch -----------------------------
(* Drivers anywhere on two campuses, in one of which annex is cut off. *)
EXTENDS Dispatch, MCCampus

Campus == {<<"gate", "library">>, <<"gate", "sports">>, <<"library", "hostel">>, <<"sports", "hostel">>}
MCCalls == {Campus \cup {<<"hostel", "annexe">>}, Campus \cup {<<"hostel", "annex">>}}

Driver(status, fits, at) == [status |-> status, fits |-> fits, at |-> at]

MCDrivers == {Driver("AVAILABLE", TRUE, p) : p \in MCPlaces} \cup
             {Driver("ON_TRIP", TRUE, "gate"), Driver("AVAILABLE", FALSE, "gate")}
=============================================================================
