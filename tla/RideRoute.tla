----------------------------- MODULE RideRoute -----------------------------
(***************************************************************************)
(* The route of a ride: RideService::recomputeRoute, which createRide and  *)
(* addStop call, runs one search of RouteService for every leg from the    *)
(* pickup over the stops to the destination, and adds up what it gets.  A  *)
(* leg that has no route adds nothing.                                     *)
(***************************************************************************)
EXTENDS RouteSearch

CONSTANT MaxStops       \* bound on the stops of a ride

ASSUME StopsAssumption == MaxStops \in Nat

VARIABLES
    waypoints,          \* of the ride; <<>> before it is created
    leg,                \* the leg being searched; 0 when no route is being computed
    distanceSoFar, timeSoFar,      \* recomputeRoute's locals
    ride,               \* the time and distance it left in the ride
    timeBefore          \* history: the ride's time before its last stop was added

rideVars == <<waypoints, leg, distanceSoFar, timeSoFar, ride, timeBefore>>

RideTypeOK ==
    /\ TypeOK
    /\ waypoints \in Seq(Places)
    /\ leg \in 0 .. MaxStops + 1
    /\ distanceSoFar \in Nat /\ timeSoFar \in Nat
    /\ ride \in [time : Nat, distance : Nat]
    /\ timeBefore \in Nat

RideInit ==
    /\ GraphInit
    /\ source \in Places /\ destination = source
    /\ bestTime = Only(source, 0) /\ bestDistance = Only(source, 0)
    /\ previous = [p \in {} |-> p]
    /\ openSet = {} /\ path = <<>> /\ phase = "idle"
    /\ waypoints = <<>>
    /\ leg = 0
    /\ distanceSoFar = 0 /\ timeSoFar = 0
    /\ ride = [time |-> 0, distance |-> 0]
    /\ timeBefore = 0

RecomputeRoute(w) ==
    /\ waypoints' = w
    /\ leg' = 1
    /\ distanceSoFar' = 0 /\ timeSoFar' = 0
    /\ Begin(w[1], w[2])
    /\ timeBefore' = ride.time
    /\ UNCHANGED <<roads, ride>>

CreateRide(a, b) ==
    /\ waypoints = <<>>
    /\ a # b
    /\ RecomputeRoute(<<a, b>>)

WithStop(w, l) == SubSeq(w, 1, Len(w) - 1) \o <<l, w[Len(w)]>>

AddStop(l) ==
    /\ leg = 0
    /\ Len(waypoints) \in 2 .. MaxStops + 1
    /\ RecomputeRoute(WithStop(waypoints, l))

SearchLeg ==
    /\ leg > 0
    /\ SearchStep
    /\ UNCHANGED rideVars

LastLeg_EndsEarly == IF Len(waypoints) > 2 THEN Len(waypoints) - 2 ELSE 1
LastLeg == Len(waypoints) - 1

\* The result of the leg is added, and the next leg searched.
NextLeg ==
    /\ leg > 0 /\ Finished
    /\ timeSoFar' = timeSoFar + (IF isFound THEN totalTimeMinutes ELSE 0)
    /\ distanceSoFar' = distanceSoFar + (IF isFound THEN totalDistance ELSE 0)
    /\ IF leg < LastLeg
       THEN /\ leg' = leg + 1
            /\ Begin(waypoints[leg + 1], waypoints[leg + 2])
            /\ UNCHANGED ride
       ELSE /\ leg' = 0
            /\ ride' = [time |-> timeSoFar', distance |-> distanceSoFar']
            /\ phase' = "idle"
            /\ UNCHANGED <<source, destination, bestTime, bestDistance, previous, openSet, path>>
    /\ UNCHANGED <<roads, waypoints, timeBefore>>

RideNext ==
    \/ \E a, b \in Places : CreateRide(a, b)
    \/ \E l \in Places : AddStop(l)
    \/ SearchLeg
    \/ NextLeg

RideSpec ==
    /\ RideInit /\ [][RideNext]_<<roads, searchVars, rideVars>>
    /\ WF_<<roads, searchVars, rideVars>>(SearchLeg \/ NextLeg)

-----------------------------------------------------------------------------
(* Properties *)

Reachable(w) == \A i \in 1 .. Len(w) - 1 : Within(w[i], w[i + 1]) >= 0

\* A stop never makes a ride shorter in time, whichever of several equally fast
\* routes each search finds; its kilometres, and so its fare, may fall.  Only a
\* stop that cannot be reached makes the legs around it count for nothing.
StopNeverSaves ==
    leg = 0 /\ Len(waypoints) > 2 /\ Reachable(waypoints) => ride.time >= timeBefore

\* createRide and addStop return: every route is computed to its end.
RouteComputed == leg > 0 ~> leg = 0
=============================================================================
