--------------------------- MODULE DispatchProofs ---------------------------
(***************************************************************************)
(* Proofs about Dispatch, for any map, fleet and maxDrivers: the matching  *)
(* with its searches is the loop of DriverMatching on a table of fastest   *)
(* routes, and returns the really nearest drivers.                         *)
(***************************************************************************)
EXTENDS Dispatch, RouteProofs

TableProofs == INSTANCE DriverMatchingProofs WITH fleet <- truth, phase <- stage

\* The loop has asked for every driver it has passed that it could offer, and for
\* those in the heap.
AskedInv ==
    /\ DOMAIN etas \subseteq 1 .. Len(drivers)
    /\ \A i \in DOMAIN etas : etas[i] = Fastest[i]
    /\ topK \subseteq DOMAIN etas
    /\ next \in Nat \ {0}

\* The search that runs is for the driver the loop is looking at.
SearchedInv ==
    phase # "idle" => Unasked /\ source = drivers[next].at /\ destination = pickup

DInv ==
    /\ TypeOK /\ GraphInit /\ SearchInv
    /\ drivers \in Seq(Drivers) /\ pickup \in Places
    /\ truth = Seen(Fastest)
    /\ AskedInv /\ SearchedInv

-----------------------------------------------------------------------------

LEMMA TimesType ==
    ASSUME GraphInit, drivers \in Seq(Drivers), pickup \in Places
    PROVE  /\ Len(drivers) \in Nat
           /\ \A i \in 1 .. Len(drivers) :
                 /\ drivers[i] \in Drivers /\ drivers[i].at \in Places
                 /\ drivers[i].status \in {"AVAILABLE", "ON_TRIP", "OFFLINE"}
                 /\ drivers[i].fits \in BOOLEAN
                 /\ Fastest[i] \in Nat \cup {NoRoute}
<1>1. Len(drivers) \in Nat /\ \A i \in 1 .. Len(drivers) : drivers[i] \in Drivers
    OBVIOUS
<1>2. \A i \in 1 .. Len(drivers) :
         /\ drivers[i].at \in Places /\ drivers[i].fits \in BOOLEAN
         /\ drivers[i].status \in {"AVAILABLE", "ON_TRIP", "OFFLINE"}
    BY <1>1, DispatchAssumption
<1>3. ASSUME NEW i \in 1 .. Len(drivers) PROVE Fastest[i] \in Nat \cup {NoRoute}
    <2>1. Within(drivers[i].at, pickup) = -1 \/ Within(drivers[i].at, pickup) \in Nat
        BY <1>2, FastestIsLeast DEF GraphInit, Within
    <2> QED
        BY <2>1 DEF Fastest
<1> QED
    BY <1>1, <1>2, <1>3

\* The loop with a table starts as the loop with searches does.
LEMMA InitDInv == DispatchInit => DInv /\ Table!Init
<1> SUFFICES ASSUME DispatchInit PROVE DInv /\ Table!Init
    OBVIOUS
<1>1. pickup \in Places
    BY DispatchAssumption DEF DispatchInit
<1>2. drivers \in Seq(Drivers)
    <2>1. PICK n \in FleetSizes : drivers \in [1 .. n -> Drivers]
        BY DEF DispatchInit
    <2>2. n \in Nat
        BY DispatchAssumption
    <2> QED
        BY <2>1, <2>2
<1>3. TypeOK /\ GraphInit
    BY <1>1, IdleTypeOK DEF DispatchInit
<1>4. SearchInv /\ SearchedInv
    BY DEF DispatchInit, SearchInv, SearchedInv
<1>5. maxDrivers \in Limits /\ next = 1 /\ topK = {} /\ nearest = <<>>
      /\ stage = IF maxDrivers = 0 THEN "done" ELSE "scan"
    BY DEF DispatchInit, Loop!Init
<1>6. DOMAIN etas = {}
    BY DEF DispatchInit
<1>7. AskedInv
    BY <1>5, <1>6 DEF AskedInv
<1>8. truth = Seen(Fastest)
    BY DEF DispatchInit
<1>9. truth \in Seq(Table!Views)
    <2>1. truth \in [1 .. Len(drivers) -> Table!Views]
        BY <1>1, <1>2, <1>3, <1>8, TimesType DEF Seen, Table!Views
    <2>2. Len(drivers) \in Nat
        BY <1>2
    <2> QED
        BY <2>1, <2>2
<1> QED
    BY <1>1, <1>2, <1>3, <1>4, <1>5, <1>7, <1>8, <1>9 DEF DInv, Table!Init

\* What the loop sees of a driver it has asked about is what the table has.
LEMMA SeenIsTrue ==
    ASSUME DInv
    PROVE  /\ Len(Seen(Answered)) = Len(drivers) /\ Len(truth) = Len(drivers)
           /\ \A i \in DOMAIN etas : Seen(Answered)[i] = truth[i]
           /\ \A i \in 1 .. Len(drivers) :
                 /\ Seen(Answered)[i].status = drivers[i].status
                 /\ Seen(Answered)[i].fits = drivers[i].fits
                 /\ truth[i].status = drivers[i].status /\ truth[i].fits = drivers[i].fits
<1>1. Len(drivers) \in Nat
    BY DEF DInv
<1>2. \A i \in DOMAIN etas : i \in 1 .. Len(drivers) /\ Answered[i] = Fastest[i]
    BY DEF DInv, AskedInv, Answered
<1>3. /\ \A eta : Seen(eta) = [i \in 1 .. Len(drivers) |->
             [status |-> drivers[i].status, fits |-> drivers[i].fits, eta |-> eta[i]]]
      /\ truth = Seen(Fastest)
    BY DEF Seen, DInv
<1>4. \A eta : Len(Seen(eta)) = Len(drivers)
    BY <1>1, <1>3
<1> QED
    BY <1>2, <1>3, <1>4

\* Every instance counts elements alike.
LEMMA OneCardinality ==
    ASSUME NEW S
    PROVE  /\ Loop!Cardinality(S) = Cardinality(S)
           /\ Table!Cardinality(S) = Cardinality(S)
           /\ TableProofs!Cardinality(S) = Cardinality(S)
BY DEF Loop!Cardinality, Table!Cardinality, TableProofs!Cardinality, Cardinality

\* A step of the loop is a step of the loop with the table.
LEMMA LoopStepMaps ==
    ASSUME DInv, LoopStep
    PROVE  DInv' /\ Table!Next
<1>1. UNCHANGED <<roads, searchVars, drivers, pickup, etas, truth>> /\ Loop!Next /\ ~Unasked
    BY DEF LoopStep
<1>2. truth' = truth
    BY <1>1
<1>3. /\ Len(Seen(Answered)) = Len(drivers) /\ Len(truth) = Len(drivers)
      /\ \A i \in DOMAIN etas : Seen(Answered)[i] = truth[i]
    BY SeenIsTrue
<1>4. DOMAIN etas \subseteq 1 .. Len(drivers) /\ topK \subseteq DOMAIN etas /\ next \in Nat \ {0}
      /\ Len(drivers) \in Nat
    BY DEF DInv, AskedInv
<1>5. ASSUME stage = "scan", next <= Len(drivers)
      PROVE  /\ Loop!Eligible(next) <=> Table!Eligible(next)
             /\ Table!Eligible(next) => next \in DOMAIN etas
    <2>1. next \in 1 .. Len(drivers)
        BY <1>4, <1>5
    <2>2. CASE drivers[next].status = "AVAILABLE" /\ drivers[next].fits
        <3>1. next \in DOMAIN etas
            BY <1>1, <1>5, <2>2 DEF Unasked
        <3> QED
            BY <1>3, <3>1 DEF Loop!Eligible, Table!Eligible
    <2>3. CASE ~(drivers[next].status = "AVAILABLE" /\ drivers[next].fits)
        BY <2>1, <2>3, SeenIsTrue DEF Loop!Eligible, Table!Eligible
    <2> QED
        BY <2>2, <2>3
<1>6. \A top : Loop!Farthest(top) <=> Table!Farthest(top)
    BY <1>3, <1>4 DEF Loop!Farthest, Table!Farthest
<1>7. ASSUME NEW top \in topK, next \in DOMAIN etas
      PROVE  Loop!Nearer(next, top) <=> Table!Nearer(next, top)
    BY <1>3, <1>4, <1>7 DEF Loop!Nearer, Table!Nearer
<1>8. Table!Next /\ topK' \subseteq DOMAIN etas /\ next' \in Nat \ {0}
    <2>1. CASE Loop!Skip
        <3>1. Table!Skip
            BY <1>2, <1>3, <1>5, <2>1
                DEF Loop!Skip, Table!Skip, Loop!Scanning, Table!Scanning, Loop!Advance, Table!Advance
        <3>2. topK' = topK /\ next' = next + 1
            BY <2>1 DEF Loop!Skip, Loop!Advance
        <3> QED
            BY <1>4, <3>1, <3>2 DEF Table!Next
    <2>2. CASE Loop!Push
        <3>1. Table!Push /\ next \in DOMAIN etas
            BY <1>2, <1>3, <1>5, <2>2, OneCardinality
                DEF Loop!Push, Table!Push, Loop!Scanning, Table!Scanning, Loop!Advance, Table!Advance
        <3>2. topK' = topK \cup {next} /\ next' = next + 1
            BY <2>2 DEF Loop!Push, Loop!Advance
        <3> QED
            BY <1>4, <3>1, <3>2 DEF Table!Next
    <2>3. CASE Loop!Replace
        <3>1. /\ stage = "scan" /\ next <= Len(drivers) /\ Loop!Eligible(next)
              /\ Cardinality(topK) >= maxDrivers
              /\ next' = next + 1 /\ UNCHANGED <<maxDrivers, nearest, stage>>
            BY <1>3, <2>3, OneCardinality DEF Loop!Replace, Loop!Scanning, Loop!Advance
        <3>2. PICK top : /\ Loop!Farthest(top)
                         /\ topK' = IF Loop!Nearer(next, top) THEN (topK \ {top}) \cup {next} ELSE topK
            BY <2>3 DEF Loop!Replace
        <3>3. Table!Eligible(next) /\ next \in DOMAIN etas
            BY <1>5, <3>1
        <3>4. top \in topK /\ Table!Farthest(top)
            BY <1>6, <3>2 DEF Loop!Farthest
        <3>5. topK' = IF Table!Nearer(next, top) THEN (topK \ {top}) \cup {next} ELSE topK
            BY <1>7, <3>2, <3>3, <3>4
        <3>6. Table!Replace
            BY <1>2, <1>3, <3>1, <3>3, <3>4, <3>5, OneCardinality DEF Table!Replace, Table!Scanning, Table!Advance
        <3>7. topK' \subseteq DOMAIN etas
            BY <1>4, <3>3, <3>5
        <3> QED
            BY <1>4, <3>1, <3>6, <3>7 DEF Table!Next
    <2>4. CASE Loop!ScanEnds
        <3>1. Table!ScanEnds /\ UNCHANGED <<topK, next>>
            BY <1>2, <1>3, <2>4 DEF Loop!ScanEnds, Table!ScanEnds
        <3> QED
            BY <1>4, <3>1 DEF Table!Next
    <2>5. CASE Loop!Drain
        <3>1. stage = "drain" /\ topK # {} /\ UNCHANGED <<maxDrivers, next, stage>>
            BY <2>5 DEF Loop!Drain
        <3>2. PICK top : Loop!Farthest(top) /\ topK' = topK \ {top} /\ nearest' = Append(nearest, top)
            BY <2>5 DEF Loop!Drain
        <3>3. top \in topK /\ Table!Farthest(top)
            BY <1>6, <3>2 DEF Loop!Farthest
        <3>4. Table!Drain
            BY <1>2, <3>1, <3>2, <3>3 DEF Table!Drain
        <3> QED
            BY <1>4, <3>1, <3>2, <3>4 DEF Table!Next
    <2>6. CASE Loop!Return
        <3>1. /\ stage = "drain" /\ topK = {} /\ stage' = "done"
              /\ UNCHANGED <<maxDrivers, next, topK>>
            BY <2>6 DEF Loop!Return
        <3>2. nearest' = Table!Reversed(nearest)
            BY <2>6 DEF Loop!Return, Loop!Reversed, Table!Reversed
        <3>3. Table!Return
            BY <1>2, <3>1, <3>2 DEF Table!Return
        <3> QED
            BY <1>4, <3>1, <3>3 DEF Table!Next
    <2> QED
        BY <1>1, <2>1, <2>2, <2>3, <2>4, <2>5, <2>6 DEF Loop!Next
<1>9. DInv'
    <2>1. TypeOK' /\ GraphInit' /\ Fastest' = Fastest
        BY <1>1 DEF DInv, TypeOK, GraphInit, searchVars, Fastest, Within
    <2>2. SearchInv'
        BY <1>1, SearchStutter DEF DInv
    <2>3. AskedInv'
        BY <1>1, <1>4, <1>8, <2>1 DEF DInv, AskedInv
    <2>4. SearchedInv'
        BY <1>1 DEF DInv, SearchedInv, searchVars
    <2> QED
        BY <1>1, <2>1, <2>2, <2>3, <2>4 DEF DInv, Seen
<1> QED
    BY <1>8, <1>9

\* The steps of the search do not touch the loop.
LEMMA AskRouteMaps ==
    ASSUME DInv, AskRoute
    PROVE  DInv' /\ UNCHANGED Table!vars
<1>1. Unasked /\ Begin(drivers[next].at, pickup) /\ UNCHANGED <<roads, matchVars>>
    BY DEF AskRoute
<1>2. next \in 1 .. Len(drivers)
    BY <1>1, TimesType DEF Unasked, DInv, AskedInv
<1>3. drivers[next].at \in Places /\ pickup \in Places
    BY <1>2, TimesType DEF DInv
<1>4. TypeOK' /\ SearchInv'
    BY <1>1, <1>3, BeginTypeOK, BeginInv DEF DInv
<1>5. SearchedInv'
    BY <1>1 DEF SearchedInv, Begin, Unasked, matchVars
<1>6. GraphInit' /\ Fastest' = Fastest
    BY <1>1 DEF DInv, GraphInit, Fastest, Within, matchVars
<1>7. AskedInv'
    BY <1>1, <1>6 DEF DInv, AskedInv, matchVars
<1>8. DInv'
    BY <1>1, <1>4, <1>5, <1>6, <1>7 DEF DInv, Seen, matchVars
<1> QED
    BY <1>1, <1>8 DEF Table!vars, matchVars

LEMMA SearchMaps ==
    ASSUME DInv, Search
    PROVE  DInv' /\ UNCHANGED Table!vars
<1>1. Unasked /\ SearchStep /\ UNCHANGED matchVars
    BY DEF Search
<1>2. phase # "idle" /\ UNCHANGED <<source, destination, roads>>
    BY <1>1 DEF SearchStep, DropStale, ReachDestination, Expand, Exhausted, Trace
<1>3. TypeOK' /\ SearchInv'
    BY <1>1, <1>2, SearchTypeOK, SearchStepInv DEF DInv
<1>4. SearchedInv'
    BY <1>1, <1>2 DEF DInv, SearchedInv, Unasked, matchVars
<1>5. GraphInit' /\ Fastest' = Fastest
    BY <1>1, <1>2 DEF DInv, GraphInit, Fastest, Within, matchVars
<1>6. AskedInv'
    BY <1>1, <1>5 DEF DInv, AskedInv, matchVars
<1>7. DInv'
    BY <1>1, <1>3, <1>4, <1>5, <1>6 DEF DInv, Seen, matchVars
<1> QED
    BY <1>1, <1>7 DEF Table!vars, matchVars

\* The answer of a search is the entry of the table.
LEMMA RouteAnsweredMaps ==
    ASSUME DInv, RouteAnswered
    PROVE  DInv' /\ UNCHANGED Table!vars
<1>1. /\ Unasked /\ Finished
      /\ etas' = [i \in DOMAIN etas \cup {next} |-> IF i = next THEN Answer ELSE etas[i]]
      /\ phase' = "idle"
      /\ UNCHANGED <<roads, source, destination, bestTime, bestDistance, previous, openSet, path,
                     drivers, pickup, maxDrivers, next, topK, nearest, stage, truth>>
    BY DEF RouteAnswered
<1>2. source = drivers[next].at /\ destination = pickup
    BY <1>1 DEF DInv, SearchedInv, Finished
<1>3. next \in 1 .. Len(drivers)
    BY <1>1, TimesType DEF Unasked, DInv, AskedInv
<1>4. Answer = Fastest[next]
    <2>1. IF isFound THEN totalTimeMinutes = Within(source, destination)
          ELSE Within(source, destination) = -1
        BY <1>1, AnswerIsFastest DEF DInv, FastestRoute
    <2>2. isFound => totalTimeMinutes \in Nat
        BY DEF DInv, TypeOK, isFound, totalTimeMinutes
    <2>3. Fastest[next] = LET t == Within(source, destination) IN IF t < 0 THEN NoRoute ELSE t
        BY <1>2, <1>3 DEF Fastest
    <2> QED
        BY <2>1, <2>2, <2>3 DEF Answer
<1>5. TypeOK' /\ GraphInit' /\ Fastest' = Fastest
    BY <1>1 DEF DInv, TypeOK, GraphInit, Fastest, Within
<1>6. SearchInv' /\ SearchedInv'
    BY <1>1 DEF SearchInv, SearchedInv
<1>7. AskedInv'
    BY <1>1, <1>3, <1>4, <1>5 DEF DInv, AskedInv
<1>8. DInv'
    BY <1>1, <1>5, <1>6, <1>7 DEF DInv, Seen
<1> QED
    BY <1>1, <1>8 DEF Table!vars

LEMMA NextDInv ==
    DInv /\ [DispatchNext]_<<roads, searchVars, matchVars>> => DInv' /\ [Table!Next]_(Table!vars)
<1> SUFFICES ASSUME DInv, [DispatchNext]_<<roads, searchVars, matchVars>>
             PROVE  DInv' /\ [Table!Next]_(Table!vars)
    OBVIOUS
<1>1. CASE UNCHANGED <<roads, searchVars, matchVars>>
    <2>1. TypeOK' /\ GraphInit' /\ Fastest' = Fastest
        BY <1>1 DEF DInv, TypeOK, GraphInit, searchVars, matchVars, Fastest, Within
    <2>2. SearchInv'
        BY <1>1, SearchStutter DEF DInv
    <2>3. AskedInv' /\ SearchedInv'
        BY <1>1, <2>1 DEF DInv, AskedInv, SearchedInv, Unasked, searchVars, matchVars
    <2>4. DInv'
        BY <1>1, <2>1, <2>2, <2>3 DEF DInv, Seen, matchVars
    <2> QED
        BY <1>1, <2>4 DEF Table!vars, matchVars
<1> QED
    BY <1>1, AskRouteMaps, SearchMaps, RouteAnsweredMaps, LoopStepMaps DEF DispatchNext

\* The matching with its searches implements the loop over a table of fastest
\* routes, on any map, for any drivers and any maxDrivers.
THEOREM SearchesDoNotMatter == DispatchSpec => Matching
<1>1. DispatchInit => DInv /\ Table!Init
    BY InitDInv
<1>2. DInv /\ [DispatchNext]_<<roads, searchVars, matchVars>> => DInv' /\ [Table!Next]_(Table!vars)
    BY NextDInv
<1> QED
    BY <1>1, <1>2, PTL DEF DispatchSpec, Matching, Table!Spec

-----------------------------------------------------------------------------
(* What the loop over the table finds *)

LEMMA InitTableInv == DispatchInit => DInv /\ TableProofs!IInv
<1>1. Table!Init => TableProofs!Init
    BY DEF Table!Init, TableProofs!Init, Table!Views, TableProofs!Views
<1>2. TableProofs!Init => TableProofs!IInv
    BY DispatchAssumption, TableProofs!InitIInv
<1> QED
    BY <1>1, <1>2, InitDInv

LEMMA NextTableInv ==
    DInv /\ TableProofs!IInv /\ [DispatchNext]_<<roads, searchVars, matchVars>> =>
        (DInv /\ TableProofs!IInv)'
<1>1. [Table!Next]_(Table!vars) => [TableProofs!Next]_(TableProofs!vars)
    BY OneCardinality DEF Table!Next, TableProofs!Next, Table!vars, TableProofs!vars,
        Table!Skip, Table!Push, Table!Replace, Table!ScanEnds, Table!Drain, Table!Return,
        TableProofs!Skip, TableProofs!Push, TableProofs!Replace, TableProofs!ScanEnds,
        TableProofs!Drain, TableProofs!Return,
        Table!Scanning, Table!Advance, Table!Eligible, Table!Farthest, Table!Nearer, Table!Reversed,
        TableProofs!Scanning, TableProofs!Advance, TableProofs!Eligible, TableProofs!Farthest,
        TableProofs!Nearer, TableProofs!Reversed
<1>2. TableProofs!IInv /\ [TableProofs!Next]_(TableProofs!vars) => TableProofs!IInv'
    BY TableProofs!NextIInv
<1> QED
    BY <1>1, <1>2, NextDInv

\* Every instance means the same by nearest.
LEMMA OneNearest ==
    ASSUME NEW S, NEW C, NEW eta, NEW k
    PROVE  /\ TableProofs!IsNearest(S, C, eta, k) <=> Table!IsNearest(S, C, eta, k)
           /\ TableProofs!NearEnough(C, eta, k) = Table!NearEnough(C, eta, k)
BY OneCardinality DEF TableProofs!IsNearest, Table!IsNearest,
    TableProofs!NearEnough, Table!NearEnough

LEMMA OneTable ==
    /\ TableProofs!AllEligible = Table!AllEligible /\ TableProofs!EtaAt = Table!EtaAt
    /\ TableProofs!Elements(nearest) = Table!Elements(nearest)
BY DEF TableProofs!AllEligible, Table!AllEligible, TableProofs!EtaAt, Table!EtaAt,
    TableProofs!Elements, Table!Elements

\* While drivers are asked about, the heap holds k really nearest of those passed.
THEOREM HeapIsNearestByRoad == DispatchSpec => []HeapHoldsNearest
<1>1. TableProofs!IInv => HeapHoldsNearest
    BY OneNearest, OneTable DEF HeapHoldsNearest, Table!HeapHoldsNearest,
        TableProofs!IInv, TableProofs!ScanInv, TableProofs!Looked
<1> QED
    BY <1>1, InitTableInv, NextTableInv, PTL DEF DispatchSpec

\* What is returned are k really nearest of the drivers that can come, nearest first.
THEOREM NearestByRoadReturned == DispatchSpec => []ReturnsNearest
<1>1. TableProofs!IInv => ReturnsNearest
    BY OneNearest, OneTable, OneCardinality DEF ReturnsNearest, Table!ReturnsNearest,
        TableProofs!IInv, TableProofs!ReturnsNearest
<1> QED
    BY <1>1, InitTableInv, NextTableInv, PTL DEF DispatchSpec

\* Every driver returned is in the set that RideBackend's matching chooses from.
THEOREM BackendViewByRoad == DispatchSpec => []WithinBackendView
<1>1. TableProofs!IInv => WithinBackendView
    BY TableProofs!InvBackendView, OneNearest, OneTable DEF WithinBackendView,
        Table!WithinBackendView, TableProofs!WithinBackendView
<1> QED
    BY <1>1, InitTableInv, NextTableInv, PTL DEF DispatchSpec
=============================================================================
