--------------------------- MODULE RideRouteProofs ---------------------------
(***************************************************************************)
(* Proofs about RideRoute, for any places, roads and number of stops: its  *)
(* types, that every leg is a fastest route, and that a stop never makes a *)
(* ride shorter in time.                                                   *)
(***************************************************************************)
EXTENDS RideRoute, RouteProofs

\* The waypoints a ride has, and the leg that is searched.
WaypointsInv ==
    /\ Len(waypoints) <= MaxStops + 2
    /\ waypoints # <<>> => Len(waypoints) >= 2
    /\ leg = 0 => phase = "idle"
    /\ leg > 0 => /\ leg < Len(waypoints) /\ phase # "idle"
                  /\ source = waypoints[leg] /\ destination = waypoints[leg + 1]

\* What a leg adds to a ride: nothing, if there is no route.
LegTime(graph, a, b) ==
    IF FastestTimes[graph][<<a, b>>] < 0 THEN 0 ELSE FastestTimes[graph][<<a, b>>]

\* c has the minutes of the legs up to each of the waypoints w.
Legs(graph, w, c) ==
    /\ c \in [1 .. Len(w) -> Nat]
    /\ c[1] = 0
    /\ \A i \in 1 .. Len(w) - 1 : c[i + 1] = c[i] + LegTime(graph, w[i], w[i + 1])

\* The sum so far is that of the legs searched, and the sum before the last stop
\* that of the waypoints without it: addStop puts it before the destination.
TimesInv ==
    waypoints # <<>> =>
        \E c : /\ Legs(roads, waypoints, c)
               /\ leg > 0 => timeSoFar = c[leg]
               /\ leg = 0 => ride.time = c[Len(waypoints)]
               /\ Len(waypoints) > 2 =>
                     timeBefore = c[Len(waypoints) - 2] +
                         LegTime(roads, waypoints[Len(waypoints) - 2], waypoints[Len(waypoints)])

IInv == RideTypeOK /\ GraphInit /\ SearchInv /\ OrderInv /\ WaypointsInv /\ TimesInv

-----------------------------------------------------------------------------
(* Legs *)

LEMMA LegTimeType ==
    ASSUME GraphInit, NEW a \in Places, NEW b \in Places
    PROVE  LegTime(roads, a, b) \in Nat
<1>1. FastestTimes[roads][<<a, b>>] = -1 \/ FastestTimes[roads][<<a, b>>] \in Nat
    BY FastestIsLeast DEF GraphInit
<1> QED
    BY <1>1 DEF LegTime

\* The answer of a search is what the leg adds.
LEMMA AnswerIsLegTime ==
    ASSUME TypeOK, GraphInit, SearchInv, Finished
    PROVE  (IF isFound THEN totalTimeMinutes ELSE 0) = LegTime(roads, source, destination)
<1>1. source \in Places /\ destination \in Places
    BY DEF TypeOK
<1>2. FastestTimes[roads][<<source, destination>>] = -1 \/ FastestTimes[roads][<<source, destination>>] \in Nat
    BY <1>1, FastestIsLeast DEF GraphInit
<1>3. IF isFound THEN totalTimeMinutes = FastestTimes[roads][<<source, destination>>]
      ELSE FastestTimes[roads][<<source, destination>>] = -1
    BY AnswerIsFastest DEF FastestRoute, Within
<1>4. isFound => totalTimeMinutes \in Nat
    BY DEF TypeOK, isFound, totalTimeMinutes
<1> QED
    BY <1>2, <1>3, <1>4 DEF LegTime

LEMMA WithStopType ==
    ASSUME NEW w \in Seq(Places), NEW l \in Places, Len(w) >= 2
    PROVE  /\ WithStop(w, l) \in Seq(Places) /\ Len(WithStop(w, l)) = Len(w) + 1
           /\ \A i \in 1 .. Len(w) - 1 : WithStop(w, l)[i] = w[i]
           /\ WithStop(w, l)[Len(w)] = l /\ WithStop(w, l)[Len(w) + 1] = w[Len(w)]
<1>1. Len(w) \in Nat /\ w[Len(w)] \in Places
    OBVIOUS
<1>2. SubSeq(w, 1, Len(w) - 1) \in Seq(Places) /\ Len(SubSeq(w, 1, Len(w) - 1)) = Len(w) - 1
    BY <1>1, SubSeqProperties
<1>3. <<l, w[Len(w)]>> \in Seq(Places) /\ Len(<<l, w[Len(w)]>>) = 2
    BY <1>1
<1> QED
    BY <1>1, <1>2, <1>3, ConcatProperties DEF WithStop

\* A stop splits the last leg in two.
LEMMA StopLegs ==
    ASSUME GraphInit, NEW w \in Seq(Places), Len(w) >= 2, NEW l \in Places,
           NEW c, Legs(roads, w, c)
    PROVE  \E d : /\ Legs(roads, WithStop(w, l), d)
                  /\ c[Len(w)] = d[Len(w) - 1] + LegTime(roads, w[Len(w) - 1], w[Len(w)])
<1> DEFINE n == Len(w)
           v == WithStop(w, l)
           T(a, b) == LegTime(roads, a, b)
           d == [i \in 1 .. n + 1 |->
                   IF i < n THEN c[i]
                   ELSE IF i = n THEN c[n - 1] + T(w[n - 1], l)
                   ELSE c[n - 1] + T(w[n - 1], l) + T(l, w[n])]
<1>1. n \in Nat /\ n >= 2 /\ n - 1 \in 1 .. n /\ (n - 1) + 1 = n /\ n - 1 \in 1 .. n - 1
      /\ w[n - 1] \in Places /\ w[n] \in Places
    OBVIOUS
<1>2. /\ Len(v) = n + 1 /\ \A i \in 1 .. n - 1 : v[i] = w[i]
      /\ v[n] = l /\ v[n + 1] = w[n]
    BY WithStopType
<1>3. T(w[n - 1], l) \in Nat /\ T(l, w[n]) \in Nat
    BY <1>1, LegTimeType
<1>4. \A i \in 1 .. n : c[i] \in Nat
    BY DEF Legs
<1>5. c[1] = 0 /\ \A i \in 1 .. n - 1 : c[i + 1] = c[i] + T(w[i], w[i + 1])
    BY DEF Legs
<1> HIDE DEF n, v, T
<1>6. d \in [1 .. n + 1 -> Nat]
    BY <1>1, <1>3, <1>4
<1>7. /\ \A i \in 1 .. n - 1 : d[i] = c[i]
      /\ d[n] = c[n - 1] + T(w[n - 1], l)
      /\ d[n + 1] = c[n - 1] + T(w[n - 1], l) + T(l, w[n])
    BY <1>1
<1> HIDE DEF d
<1>8. ASSUME NEW i \in 1 .. (n + 1) - 1 PROVE d[i + 1] = d[i] + T(v[i], v[i + 1])
    <2>1. CASE i < n - 1
        <3>1. i \in 1 .. n - 1 /\ i + 1 \in 1 .. n - 1
            BY <1>1, <2>1
        <3> QED
            BY <1>2, <1>5, <1>7, <3>1
    <2>2. CASE i = n - 1
        BY <1>1, <1>2, <1>7, <2>2
    <2>3. CASE i = n
        BY <1>2, <1>7, <2>3
    <2> QED
        BY <1>1, <2>1, <2>2, <2>3
<1>9. Legs(roads, v, d)
    <2>1. d[1] = 0
        BY <1>1, <1>5, <1>7
    <2> QED
        BY <1>2, <1>6, <1>8, <2>1 DEF Legs, T
<1>10. c[n] = d[n - 1] + T(w[n - 1], w[n])
    BY <1>1, <1>5, <1>7
<1> QED
    BY <1>9, <1>10 DEF n, v, T

-----------------------------------------------------------------------------
(* The invariant *)

LEMMA InitIInv == RideInit => IInv
<1> SUFFICES ASSUME RideInit PROVE IInv
    OBVIOUS
<1>1. TypeOK /\ GraphInit
    BY IdleTypeOK DEF RideInit
<1>2. RideTypeOK
    BY <1>1, StopsAssumption DEF RideInit, RideTypeOK
<1>3. SearchInv /\ WaypointsInv /\ TimesInv
    BY StopsAssumption DEF RideInit, SearchInv, WaypointsInv, TimesInv
<1>4. OrderInv
    BY NothingToOrder DEF RideInit
<1> QED
    BY <1>1, <1>2, <1>3, <1>4 DEF IInv

\* A route that is computed anew begins with the first leg and nothing summed up.
LEMMA RecomputeInv ==
    ASSUME IInv, NEW w \in Seq(Places), Len(w) \in 2 .. MaxStops + 2, RecomputeRoute(w),
           NEW c, Legs(roads, w, c),
           Len(w) > 2 => ride.time = c[Len(w) - 2] + LegTime(roads, w[Len(w) - 2], w[Len(w)])
    PROVE  IInv'
<1>1. w[1] \in Places /\ w[2] \in Places /\ Len(w) \in Nat /\ Len(w) >= 2 /\ w # <<>>
    BY StopsAssumption
<1>2. TypeOK' /\ SearchInv'
    BY <1>1, BeginTypeOK, BeginInv DEF IInv, RideTypeOK, RecomputeRoute
<1>3. /\ waypoints' = w /\ leg' = 1 /\ distanceSoFar' = 0 /\ timeSoFar' = 0
      /\ timeBefore' = ride.time /\ ride' = ride /\ roads' = roads
    BY DEF RecomputeRoute
<1>4. RideTypeOK'
    BY <1>2, <1>3, StopsAssumption DEF IInv, RideTypeOK
<1>5. source' = w[1] /\ destination' = w[2] /\ phase' = "search"
    BY DEF RecomputeRoute, Begin
<1>6. WaypointsInv'
    BY <1>1, <1>3, <1>5, StopsAssumption DEF WaypointsInv
<1>7. TimesInv'
    <2>1. c[1] = 0
        BY DEF Legs
    <2> QED
        BY <1>1, <1>3, <2>1 DEF TimesInv
<1>8. GraphInit'
    BY <1>3 DEF IInv, GraphInit
<1>9. OrderInv'
    BY BeginOrder DEF RecomputeRoute
<1> QED
    BY <1>2, <1>4, <1>6, <1>7, <1>8, <1>9 DEF IInv

LEMMA CreateRideInv ==
    ASSUME IInv, NEW a \in Places, NEW b \in Places, CreateRide(a, b)
    PROVE  IInv'
<1> DEFINE w == <<a, b>>
           c == [i \in 1 .. 2 |-> IF i = 1 THEN 0 ELSE LegTime(roads, a, b)]
<1>1. w \in Seq(Places) /\ Len(w) = 2 /\ Len(w) \in 2 .. MaxStops + 2 /\ w[1] = a /\ w[2] = b
    BY StopsAssumption
<1>2. LegTime(roads, a, b) \in Nat
    BY LegTimeType DEF IInv
<1>3. Legs(roads, w, c)
    <2>1. c \in [1 .. 2 -> Nat] /\ c[1] = 0 /\ c[2] = LegTime(roads, a, b)
        BY <1>2
    <2> HIDE DEF c, w
    <2>2. \A i \in 1 .. Len(w) - 1 : i = 1
        BY <1>1
    <2>3. 1 + 1 = 2
        OBVIOUS
    <2>4. c[2] = c[1] + LegTime(roads, w[1], w[2])
        BY <1>1, <1>2, <2>1
    <2> QED
        BY <1>1, <2>1, <2>2, <2>3, <2>4 DEF Legs
<1>4. RecomputeRoute(w)
    BY DEF CreateRide
<1> HIDE DEF w, c
<1>5. Len(w) > 2 => ride.time = c[Len(w) - 2] + LegTime(roads, w[Len(w) - 2], w[Len(w)])
    BY <1>1
<1> QED
    BY <1>1, <1>3, <1>4, <1>5, RecomputeInv

LEMMA AddStopInv ==
    ASSUME IInv, NEW l \in Places, AddStop(l)
    PROVE  IInv'
<1> DEFINE n == Len(waypoints)
           w == WithStop(waypoints, l)
<1>1. waypoints \in Seq(Places) /\ n \in Nat /\ n >= 2 /\ n + 1 \in 2 .. MaxStops + 2
      /\ leg = 0 /\ RecomputeRoute(w) /\ waypoints # <<>>
    BY StopsAssumption DEF AddStop, IInv, RideTypeOK
<1>2. /\ w \in Seq(Places) /\ Len(w) = n + 1
      /\ \A i \in 1 .. n - 1 : w[i] = waypoints[i]
      /\ w[n] = l /\ w[n + 1] = waypoints[n]
    BY <1>1, WithStopType
<1>3. PICK c : Legs(roads, waypoints, c) /\ ride.time = c[n]
    BY <1>1 DEF IInv, TimesInv
<1>4. PICK d : /\ Legs(roads, w, d)
               /\ c[n] = d[n - 1] + LegTime(roads, waypoints[n - 1], waypoints[n])
    BY <1>1, <1>3, StopLegs DEF IInv
<1> HIDE DEF n, w
<1>5. (n + 1) - 2 = n - 1 /\ n - 1 \in 1 .. n - 1
    BY <1>1
<1>6. Len(w) > 2 => ride.time = d[Len(w) - 2] + LegTime(roads, w[Len(w) - 2], w[Len(w)])
    BY <1>2, <1>3, <1>4, <1>5
<1> QED
    BY <1>1, <1>2, <1>4, <1>6, RecomputeInv

\* What the search of a leg leaves alone.
LEMMA SearchLegInv == ASSUME IInv, SearchLeg PROVE IInv'
<1>1. SearchStep /\ UNCHANGED rideVars
    BY DEF SearchLeg
<1>2. phase # "idle" /\ phase' # "idle" /\ UNCHANGED <<source, destination, roads>>
    BY <1>1 DEF SearchStep, DropStale, ReachDestination, Expand, Exhausted, Trace
<1>3. TypeOK' /\ SearchInv'
    BY <1>1, <1>2, SearchTypeOK, SearchStepInv DEF IInv, RideTypeOK
<1>4. GraphInit' /\ TimesInv'
    BY <1>1, <1>2 DEF IInv, GraphInit, TimesInv, rideVars
<1>5. OrderInv'
    BY <1>1, <1>2, OrderStep DEF IInv, RideTypeOK
<1>6. leg > 0
    BY DEF SearchLeg
<1>7. WaypointsInv'
    BY <1>1, <1>2, <1>6 DEF IInv, WaypointsInv, rideVars
<1> QED
    BY <1>1, <1>3, <1>4, <1>5, <1>7 DEF IInv, RideTypeOK, rideVars

LEMMA NextLegInv == ASSUME IInv, NextLeg PROVE IInv'
<1> DEFINE time == timeSoFar + (IF isFound THEN totalTimeMinutes ELSE 0)
           distance == distanceSoFar + (IF isFound THEN totalDistance ELSE 0)
<1>1. timeSoFar' \in Nat /\ distanceSoFar' \in Nat
    <2>1. isFound => totalTimeMinutes \in Nat /\ totalDistance \in Nat
        <3>1. bestTime \in [DOMAIN bestTime -> Nat] /\ bestDistance \in [DOMAIN bestTime -> Nat]
            BY DEF IInv, RideTypeOK, TypeOK
        <3> QED
            BY <3>1 DEF isFound, totalTimeMinutes, totalDistance
    <2> QED
        BY <2>1 DEF NextLeg, IInv, RideTypeOK
<1>2. UNCHANGED <<roads, waypoints, timeBefore>> /\ leg > 0 /\ leg < Len(waypoints)
    BY DEF NextLeg, IInv, WaypointsInv
<1>3. waypoints \in Seq(Places) /\ Len(waypoints) \in Nat /\ leg \in 0 .. MaxStops + 1
      /\ Len(waypoints) <= MaxStops + 2
    BY DEF IInv, RideTypeOK, WaypointsInv
<1>6. GraphInit' /\ GraphInit
    BY <1>2 DEF IInv, GraphInit
<1>7. PICK c : /\ Legs(roads, waypoints, c)
               /\ timeSoFar = c[leg]
               /\ Len(waypoints) > 2 =>
                     timeBefore = c[Len(waypoints) - 2] +
                         LegTime(roads, waypoints[Len(waypoints) - 2], waypoints[Len(waypoints)])
    <2>1. waypoints # <<>>
        BY <1>2, <1>3
    <2> QED
        BY <1>2, <2>1 DEF IInv, TimesInv
<1>8. timeSoFar' = c[leg + 1]
    <2>1. source = waypoints[leg] /\ destination = waypoints[leg + 1] /\ Finished
        BY <1>2 DEF IInv, WaypointsInv, NextLeg
    <2>2. timeSoFar' = timeSoFar + LegTime(roads, source, destination)
        BY <2>1, AnswerIsLegTime DEF NextLeg, IInv, RideTypeOK
    <2>3. leg \in 1 .. Len(waypoints) - 1
        BY <1>2, <1>3
    <2> QED
        BY <1>7, <2>1, <2>2, <2>3 DEF Legs
<1>4. CASE leg < LastLeg
    <2>1. leg' = leg + 1 /\ Begin(waypoints[leg + 1], waypoints[leg + 2]) /\ ride' = ride
        BY <1>4 DEF NextLeg
    <2>2. leg + 2 <= Len(waypoints) /\ leg + 1 \in 1 .. Len(waypoints)
          /\ leg + 2 \in 1 .. Len(waypoints)
        BY <1>2, <1>3, <1>4 DEF LastLeg
    <2>3. waypoints[leg + 1] \in Places /\ waypoints[leg + 2] \in Places
        BY <1>3, <2>2
    <2>4. TypeOK' /\ SearchInv'
        BY <1>2, <2>1, <2>3, BeginTypeOK, BeginInv DEF IInv, RideTypeOK
    <2>5. leg' \in 0 .. MaxStops + 1 /\ leg' < Len(waypoints) /\ leg' > 0
        BY <1>2, <1>3, <2>1, <2>2, StopsAssumption
    <2>6. /\ source' = waypoints[leg'] /\ destination' = waypoints[leg' + 1]
          /\ phase' = "search"
        BY <1>3, <2>1 DEF Begin
    <2>7. TimesInv'
        BY <1>2, <1>7, <1>8, <2>1, <2>5 DEF TimesInv
    <2>8. RideTypeOK'
        BY <1>1, <1>2, <2>1, <2>4, <2>5 DEF IInv, RideTypeOK
    <2>9. WaypointsInv'
        BY <1>2, <2>5, <2>6 DEF IInv, WaypointsInv
    <2>10. OrderInv'
        BY <2>1, BeginOrder
    <2> QED
        BY <1>6, <2>4, <2>7, <2>8, <2>9, <2>10 DEF IInv
<1>5. CASE ~(leg < LastLeg)
    <2>1. /\ leg' = 0 /\ ride' = [time |-> timeSoFar', distance |-> distanceSoFar']
          /\ phase' = "idle"
          /\ UNCHANGED <<source, destination, bestTime, bestDistance, previous, openSet, path>>
        BY <1>5 DEF NextLeg
    <2>2. TypeOK' /\ SearchInv'
        BY <1>2, <2>1 DEF IInv, RideTypeOK, TypeOK, SearchInv
    <2>3. leg + 1 = Len(waypoints)
        BY <1>2, <1>3, <1>5 DEF LastLeg
    <2>4. TimesInv'
        BY <1>2, <1>7, <1>8, <2>1, <2>3 DEF TimesInv
    <2>5. RideTypeOK' /\ WaypointsInv'
        BY <1>1, <1>2, <2>1, <2>2, StopsAssumption DEF IInv, RideTypeOK, WaypointsInv
    <2>6. OrderInv'
        BY <2>1 DEF IInv, OrderInv
    <2> QED
        BY <1>6, <2>2, <2>4, <2>5, <2>6 DEF IInv
<1> QED
    BY <1>4, <1>5

LEMMA NextIInv == IInv /\ [RideNext]_<<roads, searchVars, rideVars>> => IInv'
<1> SUFFICES ASSUME IInv, [RideNext]_<<roads, searchVars, rideVars>> PROVE IInv'
    OBVIOUS
<1>1. CASE UNCHANGED <<roads, searchVars, rideVars>>
    <2>1. TypeOK' /\ RideTypeOK' /\ WaypointsInv'
        BY <1>1 DEF IInv, RideTypeOK, TypeOK, WaypointsInv, searchVars, rideVars
    <2>2. SearchInv'
        BY <1>1, SearchStutter DEF IInv
    <2>3. GraphInit' /\ TimesInv'
        BY <1>1 DEF IInv, GraphInit, TimesInv, searchVars, rideVars
    <2>4. OrderInv'
        BY <1>1 DEF IInv, OrderInv, searchVars
    <2> QED
        BY <2>1, <2>2, <2>3, <2>4 DEF IInv
<1> QED
    BY <1>1, CreateRideInv, AddStopInv, SearchLegInv, NextLegInv DEF RideNext

\* The invariant holds in every state of every ride's route.
THEOREM Invariant == RideSpec => []IInv
BY InitIInv, NextIInv, PTL DEF RideSpec

\* Routes, queues and sums have their types, on any map and with any number of stops.
THEOREM RideTypeCorrect == RideSpec => []RideTypeOK
<1>1. IInv => RideTypeOK
    BY DEF IInv
<1> QED
    BY <1>1, Invariant, PTL

\* The path of a found route goes from its source to its destination by roads, and
\* its time and distance are the sums along it.
THEOREM PathsAreRoutes == RideSpec => []PathMatchesTotals
<1>1. IInv => PathMatchesTotals
    BY AnswerIsPath DEF IInv, RideTypeOK
<1> QED
    BY <1>1, Invariant, PTL

\* Every answer of the search comes with the certificate that no way is faster, or
\* that there is none.
THEOREM RoutesCertified == RideSpec => []Certified
<1>1. IInv => Certified
    BY AnswerIsCertified DEF IInv, RideTypeOK
<1> QED
    BY <1>1, Invariant, PTL

\* The search finds a route exactly if there is one, and then a fastest: no way
\* through the graph, of however many places, takes less.
THEOREM LegsAreFastest == RideSpec => []FastestRoute
<1>1. IInv => FastestRoute
    BY AnswerIsFastest DEF IInv, RideTypeOK
<1> QED
    BY <1>1, Invariant, PTL

\* The way back through previous meets no place twice, so the loop that follows it ends.
THEOREM PathsAreSimple == RideSpec => []PathMeetsNoPlaceTwice
<1>1. IInv => PathMeetsNoPlaceTwice
    BY PathIsSimple DEF IInv, RideTypeOK, PathMeetsNoPlaceTwice
<1> QED
    BY <1>1, Invariant, PTL

\* A place that was taken from the queue at its best time is final.
THEOREM PlacesStaySettled == RideSpec => PlacesSettleOnce
<1> DEFINE A == phase = "search" =>
                  \A p \in DOMAIN bestTime : Settled(p) =>
                      /\ Settled(p)'
                      /\ bestTime'[p] = bestTime[p] /\ bestDistance'[p] = bestDistance[p]
                      /\ p \in DOMAIN previous => previous'[p] = previous[p]
<1>1. IInv /\ [RideNext]_<<roads, searchVars, rideVars>> => [A]_searchVars
    <2> SUFFICES ASSUME IInv, RideNext, phase = "search",
                        NEW p \in DOMAIN bestTime, Settled(p)
                 PROVE  /\ Settled(p)'
                        /\ bestTime'[p] = bestTime[p] /\ bestDistance'[p] = bestDistance[p]
                        /\ p \in DOMAIN previous => previous'[p] = previous[p]
        BY DEF searchVars
    <2>1. ~NextLeg
        BY DEF NextLeg, Finished
    <2>2. leg # 0 /\ waypoints # <<>>
        BY DEF IInv, WaypointsInv, RideTypeOK
    <2>3. SearchLeg
        BY <2>1, <2>2 DEF RideNext, CreateRide, AddStop
    <2> QED
        BY <2>3, SettledStays DEF SearchLeg, IInv, RideTypeOK
<1> QED
    BY <1>1, Invariant, PTL DEF RideSpec, PlacesSettleOnce

\* A stop that can be reached never makes a ride shorter in time.
THEOREM StopsCostTime == RideSpec => []StopNeverSaves
<1>1. IInv => StopNeverSaves
    <2> SUFFICES ASSUME IInv, leg = 0, Len(waypoints) > 2, Reachable(waypoints)
                 PROVE  ride.time >= timeBefore
        BY DEF StopNeverSaves
    <2> DEFINE n == Len(waypoints)
               a == waypoints[n - 2]
               l == waypoints[n - 1]
               b == waypoints[n]
               F(p, q) == FastestTimes[roads][<<p, q>>]
    <2>1. /\ waypoints \in Seq(Places) /\ n \in Nat /\ n > 2 /\ waypoints # <<>>
          /\ a \in Places /\ l \in Places /\ b \in Places
          /\ n - 2 \in 1 .. n - 1 /\ n - 1 \in 1 .. n - 1
          /\ (n - 2) + 1 = n - 1 /\ (n - 1) + 1 = n /\ n - 2 \in 1 .. n
        BY DEF IInv, RideTypeOK
    <2>2. PICK c : /\ Legs(roads, waypoints, c) /\ ride.time = c[n]
                   /\ timeBefore = c[n - 2] + LegTime(roads, a, b)
        BY <2>1 DEF IInv, TimesInv
    <2>3. F(a, l) >= 0 /\ F(l, b) >= 0
        <3>1. \A i \in 1 .. n - 1 : FastestTimes[roads][<<waypoints[i], waypoints[i + 1]>>] >= 0
            BY DEF Reachable, Within
        <3> QED
            BY <2>1, <3>1
    <2>4. F(a, b) \in Nat /\ F(a, b) <= F(a, l) + F(l, b)
        BY <2>1, <2>3, FastestTriangle DEF IInv, GraphInit
    <2>5. LegTime(roads, a, l) \in Nat /\ LegTime(roads, l, b) \in Nat
        BY <2>1, LegTimeType DEF IInv
    <2>6. /\ LegTime(roads, a, l) = F(a, l) /\ LegTime(roads, l, b) = F(l, b)
          /\ LegTime(roads, a, b) = F(a, b)
        <3>1. \A p, q \in Places : F(p, q) = -1 \/ F(p, q) \in Nat
            BY FastestIsLeast DEF IInv, GraphInit
        <3>2. F(a, l) \in Nat /\ F(l, b) \in Nat
            BY <2>1, <2>3, <3>1
        <3> QED
            BY <2>4, <3>2 DEF LegTime
    <2>7. /\ c[n - 1] = c[n - 2] + LegTime(roads, a, l)
          /\ c[n] = c[n - 1] + LegTime(roads, l, b)
          /\ c[n - 2] \in Nat
        <3>1. /\ \A i \in 1 .. n - 1 :
                    c[i + 1] = c[i] + LegTime(roads, waypoints[i], waypoints[i + 1])
              /\ \A i \in 1 .. n : c[i] \in Nat
            BY <2>2 DEF Legs
        <3> QED
            BY <2>1, <3>1
    <2> HIDE DEF n, a, l, b, F
    <2> QED
        BY <2>2, <2>4, <2>5, <2>6, <2>7
<1> QED
    BY <1>1, Invariant, PTL
=============================================================================
