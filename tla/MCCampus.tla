------------------------------ MODULE MCCampus ------------------------------
(***************************************************************************)
(* Five places measured along the streets.  From gate, library is nearer   *)
(* than sports but hostel is sooner over sports: a search reaches hostel   *)
(* over library first and has to correct it.  annex is in the building of  *)
(* hostel, so that the road between them takes no time.                    *)
(***************************************************************************)
EXTENDS Integers

MCPlaces == {"gate", "library", "hostel", "sports", "annex"}

MCX == [gate |-> 0, library |-> 100, hostel |-> 800, sports |-> 400, annex |-> 800]
MCY == [gate |-> 0, library |-> 300, hostel |-> 0, sports |-> -300, annex |-> 0]

Abs(n) == IF n < 0 THEN -n ELSE n
MCStraight == [p \in MCPlaces \X MCPlaces |-> Abs(MCX[p[1]] - MCX[p[2]]) + Abs(MCY[p[1]] - MCY[p[2]])]
=============================================================================
