---------------------------- MODULE MCHttpServer ----------------------------
(* Two administrators, of whom the first may create the second, and a driver who registers himself. *)
EXTENDS HttpServer

MCRoleOf == [e \in Accounts |-> IF e = "dan" THEN "driver" ELSE "admin"]
=============================================================================
