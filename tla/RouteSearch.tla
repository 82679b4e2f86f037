---------------------------- MODULE RouteSearch ----------------------------
(***************************************************************************)
(* RouteService::findShortestRoute on the graph CityGraph builds: A* by    *)
(* travel time, estimating what remains as the straight line at 80 km/h.   *)
(*                                                                         *)
(* Metres stand for the haversine kilometres.  A road is 1.25 times as     *)
(* long as the straight line between its ends and takes whole minutes,     *)
(* rounded up, where the estimate is not rounded.  To stay in integers,    *)
(* lengths are in quarters of a metre and estimates in 4000ths of a        *)
(* minute: 80 km/h is 4000 metres in 3 minutes.  priority_queue does not   *)
(* say which of several equal entries is on top.                           *)
(***************************************************************************)
EXTENDS Integers, Sequences, FiniteSets

CONSTANTS
    Places,             \* ids that addLocation was called with
    Straight,           \* [<<a, b>> |-> metres]
    RoadCalls,          \* sets of <<from, to>> that addCampusRoad is called with
    MetresPerMinute     \* averageSpeedKmph of the roads: 18 km/h is 300

\* Straight lines are a metric, and no road is faster than 100 km/h.  The code
\* checks neither; its roads are at 18 km/h.
ASSUME RoadsAssumption ==
    /\ IsFiniteSet(Places)
    /\ Straight \in [Places \X Places -> Nat]
    /\ \A a \in Places : Straight[<<a, a>>] = 0
    /\ \A a, b \in Places : Straight[<<a, b>>] = Straight[<<b, a>>]
    /\ \A a, b, c \in Places : Straight[<<a, c>>] <= Straight[<<a, b>>] + Straight[<<b, c>>]
    /\ MetresPerMinute \in Nat \ {0}
    /\ 3 * MetresPerMinute <= 5000
    /\ \A calls \in RoadCalls : \A c \in calls : c = <<c[1], c[2]>>

VARIABLES
    roads,              \* the roads of the graph, as <<from, to>>
    source, destination,
    bestTime, bestDistance, previous,   \* functions on the places reached so far
    openSet,            \* entries [at, time] of the priority queue
    path,               \* the end of the result's path, from the place reached by now
    phase               \* "idle", "search", "trace", "done"

searchVars == <<source, destination, bestTime, bestDistance, previous, openSet, path, phase>>

Joined_OneWay(u, v) == <<u, v>> \in roads

\* addRoad puts an edge at both ends.
Joined(u, v) == <<u, v>> \in roads \/ <<v, u>> \in roads

Length(u, v) == 5 * Straight[<<u, v>>]

\* estimateTravelTimeMinutes: (int) ceil(km / kmph * 60).
Minutes(u, v) == (Length(u, v) + 4 * MetresPerMinute - 1) \div (4 * MetresPerMinute)

Remaining_Slow(u, v) == 30 * Straight[<<u, v>>]
Remaining(u, v) == 3 * Straight[<<u, v>>]

Estimate(e) == 4000 * e.time + Remaining(e.at, destination)

\* addCampusRoad skips a road one of whose ids is unknown.
AddCampusRoads_Unchecked(calls) == calls
AddCampusRoads(calls) == {c \in calls : c[1] \in Places /\ c[2] \in Places}

Entries == [at : Places, time : Nat]

TypeOK ==
    /\ roads \subseteq Places \X Places
    /\ source \in Places /\ destination \in Places
    /\ DOMAIN bestTime \subseteq Places
    /\ bestTime \in [DOMAIN bestTime -> Nat]
    /\ bestDistance \in [DOMAIN bestTime -> Nat]
    /\ DOMAIN previous \subseteq Places
    /\ previous \in [DOMAIN previous -> Places]
    /\ openSet \subseteq Entries
    /\ path \in Seq(Places)
    /\ phase \in {"idle", "search", "trace", "done"}

Only(a, x) == [p \in {a} |-> x]

GraphInit == roads \in {AddCampusRoads(calls) : calls \in RoadCalls}

\* findShortestRoute is called.
Begin(a, b) ==
    /\ source' = a /\ destination' = b
    /\ bestTime' = Only(a, 0)
    /\ bestDistance' = Only(a, 0)
    /\ previous' = [p \in {} |-> p]
    /\ openSet' = {[at |-> a, time |-> 0]}
    /\ path' = <<>>
    /\ phase' = "search"

Top(e) == e \in openSet /\ \A f \in openSet : Estimate(e) <= Estimate(f)

Stale(e) == e.time > bestTime[e.at]

DropStale(e) ==
    /\ phase = "search"
    /\ Top(e) /\ Stale(e)
    /\ openSet' = openSet \ {e}
    /\ UNCHANGED <<source, destination, bestTime, bestDistance, previous, path, phase>>

ReachDestination(e) ==
    /\ phase = "search"
    /\ Top(e) /\ ~Stale(e)
    /\ e.at = destination
    /\ openSet' = openSet \ {e}
    /\ path' = <<destination>>
    /\ phase' = "trace"
    /\ UNCHANGED <<source, destination, bestTime, bestDistance, previous>>

Popped_Not(e) == openSet
Popped(e) == openSet \ {e}

\* The neighbours reached for the first time, or sooner than before.
Improved_Unchecked(e) == {v \in Places : Joined(e.at, v)}
Improved_OrAsSoon(e) ==
    {v \in Places : /\ Joined(e.at, v)
                    /\ \/ v \notin DOMAIN bestTime
                       \/ e.time + Minutes(e.at, v) <= bestTime[v]}
Improved(e) ==
    {v \in Places : /\ Joined(e.at, v)
                    /\ \/ v \notin DOMAIN bestTime
                       \/ e.time + Minutes(e.at, v) < bestTime[v]}

\* map[key] = value for the keys of g.
Assigned_InsertOnly(f, g) == [p \in DOMAIN f \cup DOMAIN g |-> IF p \in DOMAIN f THEN f[p] ELSE g[p]]
Assigned(f, g) == [p \in DOMAIN f \cup DOMAIN g |-> IF p \in DOMAIN g THEN g[p] ELSE f[p]]

Expand(e) ==
    LET u == e.at
        newTime == [v \in Improved(e) |-> e.time + Minutes(u, v)]
        newDistance == [v \in Improved(e) |-> bestDistance[u] + Length(u, v)]
    IN
    /\ phase = "search"
    /\ Top(e) /\ ~Stale(e)
    /\ u # destination
    /\ bestTime' = Assigned(bestTime, newTime)
    /\ bestDistance' = Assigned(bestDistance, newDistance)
    /\ previous' = Assigned(previous, [v \in Improved(e) |-> u])
    /\ openSet' = Popped(e) \cup {[at |-> v, time |-> newTime[v]] : v \in Improved(e)}
    /\ UNCHANGED <<source, destination, path, phase>>

\* The queue is empty: no route, unless the destination was reached.
Exhausted ==
    /\ phase = "search"
    /\ openSet = {}
    /\ IF destination \in DOMAIN bestTime
       THEN phase' = "trace" /\ path' = <<destination>>
       ELSE phase' = "done" /\ UNCHANGED path
    /\ UNCHANGED <<source, destination, bestTime, bestDistance, previous, openSet>>

\* The path is followed back through previous.
Trace ==
    /\ phase = "trace"
    /\ IF Head(path) = source \/ Head(path) \notin DOMAIN previous
       THEN phase' = "done" /\ UNCHANGED path
       ELSE path' = <<previous[Head(path)]>> \o path /\ UNCHANGED phase
    /\ UNCHANGED <<source, destination, bestTime, bestDistance, previous, openSet>>

SearchStep ==
    /\ \/ \E e \in openSet : DropStale(e) \/ ReachDestination(e) \/ Expand(e)
       \/ Exhausted
       \/ Trace
    /\ UNCHANGED roads

\* One search on its own.
Init ==
    /\ GraphInit
    /\ source \in Places /\ destination \in Places
    /\ bestTime = Only(source, 0)
    /\ bestDistance = Only(source, 0)
    /\ previous = [p \in {} |-> p]
    /\ openSet = {[at |-> source, time |-> 0]}
    /\ path = <<>>
    /\ phase = "search"

Spec == Init /\ [][SearchStep]_<<roads, searchVars>> /\ WF_<<roads, searchVars>>(SearchStep)

isFound == destination \in DOMAIN bestTime
totalTimeMinutes == bestTime[destination]
totalDistance == bestDistance[destination]

-----------------------------------------------------------------------------
(* Properties *)

Least(S) == CHOOSE n \in S : \A m \in S : n <= m

\* Reference: all ways that pass no place twice, and the least time of those
\* from a to b; -1 if there is none.
SimpleWays ==
    UNION {{w \in [1 .. n -> Places] : \A i, j \in 1 .. n : w[i] = w[j] => i = j} :
              n \in 1 .. Cardinality(Places)}

TimeOf(w) ==
    LET upTo[n \in 1 .. Len(w)] == IF n = 1 THEN 0 ELSE upTo[n - 1] + Minutes(w[n - 1], w[n])
    IN upTo[Len(w)]

Open(w, graph) ==
    \A i \in 1 .. Len(w) - 1 : <<w[i], w[i + 1]>> \in graph \/ <<w[i + 1], w[i]>> \in graph

\* A constant, so that it is computed only once.
FastestTimes ==
    [graph \in {AddCampusRoads(calls) : calls \in RoadCalls} |->
        LET open == {w \in SimpleWays : Open(w, graph)} IN
        [ends \in Places \X Places |->
            LET times == {TimeOf(w) : w \in {x \in open : x[1] = ends[1] /\ x[Len(x)] = ends[2]}}
            IN IF times = {} THEN -1 ELSE Least(times)]]

Within(a, b) == FastestTimes[roads][<<a, b>>]

Finished == phase = "done"

\* The search finds a route exactly if there is one, and then a fastest one,
\* although it stops at the first sight of the destination on top of the queue
\* and may have reached places again and sooner after it put them there.
FastestRoute ==
    Finished => IF isFound THEN totalTimeMinutes = Within(source, destination)
                ELSE Within(source, destination) = -1

\* The path handed out is a way through the graph from source to destination,
\* and time and distance are those of that way, though place by place they are
\* overwritten while the search goes on.
PathMatchesTotals ==
    Finished /\ isFound =>
        /\ Head(path) = source /\ path[Len(path)] = destination
        /\ \A i \in 1 .. Len(path) - 1 :
              LET u == path[i]  v == path[i + 1] IN
              /\ Joined(u, v)
              /\ bestTime[v] = bestTime[u] + Minutes(u, v)
              /\ bestDistance[v] = bestDistance[u] + Length(u, v)

\* No closed set keeps a place from being expanded again, only the order of the
\* queue: once a place was taken from it at its best time, its time, its distance
\* and its predecessor stay to the end of the search, so that a road is looked at
\* at most once from either end and the search stops.
Settled(p) == p \in DOMAIN bestTime /\ [at |-> p, time |-> bestTime[p]] \notin openSet

PlacesSettleOnce ==
    [][phase = "search" =>
         \A p \in DOMAIN bestTime : Settled(p) =>
             /\ Settled(p)'
             /\ bestTime'[p] = bestTime[p] /\ bestDistance'[p] = bestDistance[p]
             /\ p \in DOMAIN previous => previous'[p] = previous[p]]_searchVars

\* The way back through previous never comes by a place twice, so that the loop
\* that follows it ends, also over a road that takes no time.
PathMeetsNoPlaceTwice ==
    phase \in {"trace", "done"} => \A i, j \in 1 .. Len(path) : path[i] = path[j] => i = j

\* A proof that the answer is right, readable from the state when the search
\* stops: a value for every place that is 0 at the source, grows by no more than
\* a road's minutes along any road, and is the answer at the destination; so no
\* way takes less.  Without an answer: what was reached has no road out of it.
Lower(a, b) == IF a < b THEN a ELSE b

Potential(p) ==
    LET bound == 4000 * totalTimeMinutes - Remaining(p, destination) IN
    IF p \in DOMAIN bestTime THEN Lower(4000 * bestTime[p], bound) ELSE bound

Certified ==
    Finished =>
        IF isFound
        THEN /\ Potential(source) = 0
             /\ Potential(destination) = 4000 * totalTimeMinutes
             /\ \A u, v \in Places :
                   Joined(u, v) => Potential(v) <= Potential(u) + 4000 * Minutes(u, v)
        ELSE \A u \in DOMAIN bestTime, v \in Places : Joined(u, v) => v \in DOMAIN bestTime
=============================================================================
