------------------------------ MODULE Dispatch ------------------------------
(***************************************************************************)
(* DriverMatchingService::findNearestDrivers together with the             *)
(* RouteService::findShortestRoute it calls for every available driver of  *)
(* the type, from where the driver is to the pickup.  DriverMatching has   *)
(* the loop over the drivers with all times known beforehand; here a time  *)
(* is known when its search has answered, and Matching shows that the      *)
(* whole is that loop with the times of really fastest routes.             *)
(***************************************************************************)
EXTENDS RouteSearch

CONSTANTS
    Drivers,        \* driver records [status, fits, at]
    Pickups,        \* places to be picked up at
    NoRoute,
    FleetSizes,     \* the lengths of the drivers vector to try
    Limits          \* the values of maxDrivers to try

ASSUME DispatchAssumption ==
    /\ NoRoute \notin Nat
    /\ Drivers \subseteq [status : {"AVAILABLE", "ON_TRIP", "OFFLINE"}, fits : BOOLEAN, at : Places]
    /\ Pickups \subseteq Places
    /\ FleetSizes \subseteq Nat /\ Limits \subseteq Nat

VARIABLES
    drivers, pickup,        \* arguments of the call
    etas,                   \* the answers so far, a function on the drivers asked about
    maxDrivers, next, topK, nearest, stage,     \* as in DriverMatching
    truth                   \* history: the drivers with the times of fastest routes

matchVars == <<drivers, pickup, etas, maxDrivers, next, topK, nearest, stage, truth>>

Seen(eta) ==
    [i \in 1 .. Len(drivers) |->
        [status |-> drivers[i].status, fits |-> drivers[i].fits, eta |-> eta[i]]]

\* The loop, as it sees the drivers: with the answers it has.
Answered == [i \in 1 .. Len(drivers) |-> IF i \in DOMAIN etas THEN etas[i] ELSE NoRoute]
Loop == INSTANCE DriverMatching WITH fleet <- Seen(Answered), phase <- stage

\* The loop as it would be with a table of fastest routes.
Fastest ==
    [i \in 1 .. Len(drivers) |->
        LET t == Within(drivers[i].at, pickup) IN IF t < 0 THEN NoRoute ELSE t]
Table == INSTANCE DriverMatching WITH fleet <- truth, phase <- stage

DispatchInit ==
    /\ GraphInit
    /\ drivers \in UNION {[1 .. n -> Drivers] : n \in FleetSizes}
    /\ pickup \in Pickups
    /\ etas = <<>>
    /\ truth = Seen(Fastest)
    /\ Loop!Init
    /\ source = pickup /\ destination = pickup
    /\ bestTime = Only(source, 0) /\ bestDistance = Only(source, 0)
    /\ previous = [p \in {} |-> p]
    /\ openSet = {} /\ path = <<>> /\ phase = "idle"

\* The first two continue statements come before the search.
Unasked ==
    /\ stage = "scan" /\ next <= Len(drivers)
    /\ drivers[next].status = "AVAILABLE" /\ drivers[next].fits
    /\ next \notin DOMAIN etas

AskRoute ==
    /\ Unasked /\ phase = "idle"
    /\ Begin(drivers[next].at, pickup)
    /\ UNCHANGED <<roads, matchVars>>

Search == Unasked /\ SearchStep /\ UNCHANGED matchVars

Answer_NotFoundIsZero == IF isFound THEN totalTimeMinutes ELSE 0
Answer == IF isFound THEN totalTimeMinutes ELSE NoRoute

RouteAnswered ==
    /\ Unasked /\ Finished
    /\ etas' = [i \in DOMAIN etas \cup {next} |-> IF i = next THEN Answer ELSE etas[i]]
    /\ phase' = "idle"
    /\ UNCHANGED <<roads, source, destination, bestTime, bestDistance, previous, openSet, path,
                   drivers, pickup, maxDrivers, next, topK, nearest, stage, truth>>

LoopStep ==
    /\ ~Unasked
    /\ UNCHANGED <<roads, searchVars, drivers, pickup, etas, truth>>
    /\ Loop!Next

DispatchNext == AskRoute \/ Search \/ RouteAnswered \/ LoopStep

DispatchSpec ==
    /\ DispatchInit /\ [][DispatchNext]_<<roads, searchVars, matchVars>>
    /\ WF_<<roads, searchVars, matchVars>>(DispatchNext)

-----------------------------------------------------------------------------
(* Properties *)

\* findNearestDrivers with its searches is findNearestDrivers with a table of
\* the fastest routes: a search that stops at the first sight of its goal never
\* makes the heap keep, drop or order a driver differently.
Matching == Table!Spec

\* In the middle of the pass the heap holds k really nearest of the drivers
\* looked at so far, ties and early farther drivers included.
HeapHoldsNearest == Table!HeapHoldsNearest

\* The result is k really nearest of the available drivers that can come,
\* nearest first.
ReturnsNearest == Table!ReturnsNearest

\* Every driver returned is in the set RideBackend's Matched chooses from.
WithinBackendView == Table!WithinBackendView

\* A request is answered, however many drivers are asked about.
MatchingReturns == stage = "scan" ~> stage = "done"
=============================================================================
