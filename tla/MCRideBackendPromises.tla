----------------------- MODULE MCRideBackendPromises -----------------------
(* The instance of MCRideBackend, with the record of RideBackendPromises. *)
EXTENDS MCRideBackend, RideBackendPromises
=============================================================================
