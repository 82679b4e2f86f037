--------------------------- MODULE DriverMatching ---------------------------
(***************************************************************************)
(* DriverMatchingService::findNearestDrivers: one pass over the drivers    *)
(* with a max-heap of at most MaxDrivers candidates, which is emptied      *)
(* farthest first and reversed.  priority_queue does not say which of two  *)
(* equally far candidates is at the top, so any farthest one may be.       *)
(***************************************************************************)
EXTENDS Naturals, Sequences, FiniteSets, NearestDrivers

CONSTANTS
    NoRoute,        \* eta of a driver that cannot come
    Limits          \* the values of maxDrivers to try

VARIABLES
    fleet,          \* the drivers vector, a sequence of Views of drivers
    maxDrivers,
    next,           \* index of the driver the loop looks at next
    topK,           \* the heap: indices into fleet
    nearest,        \* nearestDrivers, being filled
    phase           \* "scan", "drain", "done"

vars == <<fleet, maxDrivers, next, topK, nearest, phase>>

\* What the loop looks at; fits: the vehicle is of the requested type.
Views == [status : {"AVAILABLE", "ON_TRIP", "OFFLINE"}, fits : BOOLEAN, eta : Nat \cup {NoRoute}]

Init ==
    /\ fleet \in Seq(Views)
    /\ maxDrivers \in Limits
    /\ next = 1
    /\ topK = {}
    /\ nearest = <<>>
    /\ phase = IF maxDrivers = 0 THEN "done" ELSE "scan"

EtaAt == [i \in 1 .. Len(fleet) |-> fleet[i].eta]

Eligible(i) == fleet[i].status = "AVAILABLE" /\ fleet[i].fits /\ fleet[i].eta # NoRoute

Farthest_Nearest(i) == i \in topK /\ \A j \in topK : fleet[i].eta <= fleet[j].eta
Farthest(i) == i \in topK /\ \A j \in topK : fleet[j].eta <= fleet[i].eta

Scanning == phase = "scan" /\ next <= Len(fleet)
Advance == next' = next + 1 /\ UNCHANGED <<fleet, maxDrivers, nearest, phase>>

\* The three continue statements.
Skip ==
    /\ Scanning
    /\ ~Eligible(next)
    /\ UNCHANGED topK
    /\ Advance

Push ==
    /\ Scanning
    /\ Eligible(next)
    /\ Cardinality(topK) < maxDrivers
    /\ topK' = topK \cup {next}
    /\ Advance

Nearer(i, top) == fleet[i].eta < fleet[top].eta

\* A full heap: the candidate replaces the top only if it is strictly nearer.
Replace ==
    /\ Scanning
    /\ Eligible(next)
    /\ Cardinality(topK) >= maxDrivers
    /\ \E top \in topK : /\ Farthest(top)
                         /\ topK' = IF Nearer(next, top) THEN (topK \ {top}) \cup {next} ELSE topK
    /\ Advance

ScanEnds ==
    /\ phase = "scan" /\ next > Len(fleet)
    /\ phase' = "drain"
    /\ UNCHANGED <<fleet, maxDrivers, next, topK, nearest>>

Reversed_Not(s) == s
Reversed(s) == [i \in 1 .. Len(s) |-> s[Len(s) + 1 - i]]

Drain ==
    /\ phase = "drain"
    /\ topK # {}
    /\ \E top \in topK : /\ Farthest(top)
                         /\ topK' = topK \ {top}
                         /\ nearest' = Append(nearest, top)
    /\ UNCHANGED <<fleet, maxDrivers, next, phase>>

Return ==
    /\ phase = "drain"
    /\ topK = {}
    /\ nearest' = Reversed(nearest)
    /\ phase' = "done"
    /\ UNCHANGED <<fleet, maxDrivers, next, topK>>

Next == Skip \/ Push \/ Replace \/ ScanEnds \/ Drain \/ Return

Spec == Init /\ [][Next]_vars

-----------------------------------------------------------------------------

Elements(s) == {s[i] : i \in 1 .. Len(s)}
AllEligible == {i \in 1 .. Len(fleet) :
                   fleet[i].status = "AVAILABLE" /\ fleet[i].fits /\ fleet[i].eta # NoRoute}

\* In the middle of the pass the heap holds k nearest of the drivers looked at
\* so far, ties and early farther drivers included.
HeapHoldsNearest ==
    phase = "scan" => IsNearest(topK, {i \in AllEligible : i < next}, EtaAt, maxDrivers)

\* The result is k nearest available drivers of the type that can reach the
\* pickup, nearest first: assignNearestForRider takes the first of them, and a
\* request is shown to no driver beyond them.
ReturnsNearest ==
    phase = "done" =>
        /\ IsNearest(Elements(nearest), AllEligible, EtaAt, maxDrivers)
        /\ Len(nearest) = Cardinality(Elements(nearest))
        /\ \A i, j \in 1 .. Len(nearest) : i < j => EtaAt[nearest[i]] <= EtaAt[nearest[j]]

\* RideBackend does not run this loop: its Matched is the set NearEnough of the
\* eligible drivers.  Every driver returned here is in it.
WithinBackendView ==
    phase = "done" => Elements(nearest) \subseteq NearEnough(AllEligible, EtaAt, maxDrivers)
=============================================================================
