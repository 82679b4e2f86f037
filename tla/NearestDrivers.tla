--------------------------- MODULE NearestDrivers ---------------------------
(***************************************************************************)
(* What "the k nearest" means, for DriverMatching, which finds them, and   *)
(* for RideBackend, which relies on them.  C is a set of candidates and    *)
(* eta gives the minutes of each; candidates equally far away may stand    *)
(* for each other.                                                         *)
(***************************************************************************)
EXTENDS Naturals, FiniteSets

\* The candidates that can be among k nearest: fewer than k are strictly nearer.
NearEnough(C, eta, k) ==
    {c \in C : Cardinality({e \in C : eta[e] < eta[c]}) < k}

\* S is a choice of k nearest of C (of all of C when C has fewer).
IsNearest(S, C, eta, k) ==
    /\ S \subseteq C
    /\ Cardinality(S) = IF Cardinality(C) < k THEN Cardinality(C) ELSE k
    /\ \A s \in S, c \in C \ S : eta[s] <= eta[c]
=============================================================================
