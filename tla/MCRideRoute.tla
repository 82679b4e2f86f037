---------------------------- MODULE MCRideRoute ----------------------------
(***************************************************************************)
(* Every choice of seven roads, one of which names a place that does not   *)
(* exist, as GIRLS_HOSTEL does.                                            *)
(***************************************************************************)
EXTENDS RideRoute, MCCampus

MCCalls == SUBSET {<<"gate", "library">>, <<"gate", "sports">>, <<"library", "hostel">>,
                   <<"sports", "hostel">>, <<"gate", "hostel">>, <<"hostel", "annex">>,
                   <<"library", "annexe">>}
=============================================================================
