----------------------------- MODULE RouteProofs -----------------------------
(***************************************************************************)
(* Proofs about one search of RouteService, for any places and roads: its  *)
(* types, that the path handed out has the time and distance handed out,   *)
(* that every answer comes with a certificate that no way is faster, and   *)
(* that it is therefore the least time of all ways, of any length, which   *)
(* is what the table of fastest times has.  RideRouteProofs and            *)
(* DispatchProofs build on it.                                             *)
(*                                                                         *)
(* What is said of ways of any length is proved by the least               *)
(* counterexample: the least place along a way where it fails is not the   *)
(* first, so it holds at the place before.                                 *)
(***************************************************************************)
EXTENDS RouteSearch, SequenceTheorems, FiniteSetTheorems, WellFoundedInduction, TLAPS

\* What the top of the queue is compared by, for a place at its best time.
Value(p) == 4000 * bestTime[p] + Remaining(p, destination)

\* The source is where the search began and stays its own best.
SourceInv ==
    /\ source \in DOMAIN bestTime
    /\ bestTime[source] = 0 /\ bestDistance[source] = 0
    /\ source \notin DOMAIN previous

\* Nothing in the queue is better than the best time of its place.
QueueInv ==
    \A f \in openSet : f.at \in DOMAIN bestTime /\ bestTime[f.at] <= f.time

\* Every other place was reached from a settled one, by a road, at the sum.
PreviousInv ==
    /\ \A p \in DOMAIN bestTime : p # source => p \in DOMAIN previous
    /\ \A p \in DOMAIN previous :
          /\ p \in DOMAIN bestTime
          /\ Settled(previous[p])
          /\ Joined(previous[p], p)
          /\ bestTime[p] = bestTime[previous[p]] + Minutes(previous[p], p)
          /\ bestDistance[p] = bestDistance[previous[p]] + Length(previous[p], p)

\* No settled place would come out of the queue later than what is in it; this is
\* what makes a settled place final.
SettledInv ==
    /\ \A p \in DOMAIN bestTime, f \in openSet : Settled(p) => Value(p) <= Estimate(f)
    /\ \A p \in DOMAIN bestTime, v \in Places :
          Settled(p) /\ p # destination /\ Joined(p, v) =>
              v \in DOMAIN bestTime /\ bestTime[v] <= bestTime[p] + Minutes(p, v)
    /\ \A p \in DOMAIN bestTime : Remaining(source, p) <= 4000 * bestTime[p]

\* How a search ends, and the path that is followed back.
EndInv ==
    /\ phase = "search" => ~Settled(destination) /\ path = <<>>
    /\ phase \in {"trace", "done"} =>
          IF destination \in DOMAIN bestTime
          THEN /\ Settled(destination)
               /\ Len(path) > 0 /\ path[Len(path)] = destination
               /\ \A i \in 1 .. Len(path) : path[i] \in DOMAIN bestTime
               /\ \A i \in 1 .. Len(path) - 1 :
                     path[i + 1] \in DOMAIN previous /\ path[i] = previous[path[i + 1]]
               /\ phase = "done" => path[1] = source
          ELSE phase = "done" /\ openSet = {} /\ path = <<>>

\* previous leads round no circle: places can be numbered in the order in which
\* they were settled, and what is reached from a place comes after it.  Minutes do
\* not give that order, as there may be roads that take none.
OrderInv ==
    \E rank \in [Places -> Nat] : \A p \in DOMAIN previous : rank[previous[p]] < rank[p]

SearchInv ==
    phase # "idle" => SourceInv /\ QueueInv /\ PreviousInv /\ SettledInv /\ EndInv

-----------------------------------------------------------------------------
(* Arithmetic of roads *)

LEMMA DivisionRoundsUp ==
    ASSUME NEW n \in Nat, NEW d \in Nat \ {0}
    PROVE  /\ (n + d - 1) \div d \in Nat
           /\ n <= d * ((n + d - 1) \div d)
OBVIOUS

\* A road takes whole minutes, and no fewer than its straight line at 80 km/h.
LEMMA MinutesBound ==
    ASSUME NEW u \in Places, NEW v \in Places
    PROVE  /\ Minutes(u, v) \in Nat /\ Length(u, v) \in Nat /\ Remaining(u, v) \in Nat
           /\ Remaining(u, v) <= 4000 * Minutes(u, v)
<1> DEFINE S == Straight[<<u, v>>]
           M == MetresPerMinute
           q == Minutes(u, v)
<1>1. S \in Nat /\ M \in Nat \ {0} /\ 3 * M <= 5000
    BY RoadsAssumption
<1>2. 5 * S \in Nat /\ 4 * M \in Nat \ {0}
    BY <1>1
<1>3. q = (5 * S + 4 * M - 1) \div (4 * M)
    BY DEF Minutes, Length
<1>4. q \in Nat /\ 5 * S <= (4 * M) * q
    BY <1>2, <1>3, DivisionRoundsUp
<1> HIDE DEF q, S, M
<1>5. (3 * M) * q <= 5000 * q
    BY <1>1, <1>4
<1>6. 3 * ((4 * M) * q) = 4 * ((3 * M) * q)
    BY <1>1, <1>4
<1>7. (4 * M) * q \in Nat /\ (3 * M) * q \in Nat
    BY <1>1, <1>4
<1>8. 15 * S <= 20000 * q
    BY <1>1, <1>4, <1>5, <1>6, <1>7
<1>9. 3 * S <= 4000 * q
    BY <1>1, <1>4, <1>8
<1> QED
    BY <1>1, <1>4, <1>9 DEF S, q, Remaining, Length

\* The estimate is consistent: along a road it falls by no more than the road takes.
LEMMA EstimateConsistent ==
    ASSUME NEW u \in Places, NEW v \in Places, NEW w \in Places
    PROVE  /\ Remaining(u, w) <= 4000 * Minutes(u, v) + Remaining(v, w)
           /\ Remaining(w, v) <= Remaining(w, u) + 4000 * Minutes(u, v)
           /\ Remaining(u, u) = 0
<1>1. /\ Straight[<<u, w>>] <= Straight[<<u, v>>] + Straight[<<v, w>>]
      /\ Straight[<<w, v>>] <= Straight[<<w, u>>] + Straight[<<u, v>>]
      /\ Straight[<<u, u>>] = 0
      /\ \A a, b \in Places : Straight[<<a, b>>] \in Nat
    BY RoadsAssumption
<1>2. Remaining(u, v) <= 4000 * Minutes(u, v) /\ Minutes(u, v) \in Nat
    BY MinutesBound
<1> QED
    BY <1>1, <1>2 DEF Remaining

-----------------------------------------------------------------------------
(* Ways *)

\* The induction that the lemmas below use: a set of numbers has a least one.
LEMMA LeastExists ==
    ASSUME NEW T, T \subseteq Nat, T # {}
    PROVE  \E k \in T : \A m \in T : k <= m
<1>1. PICK k \in T : \A m \in T : ~ (<<m, k>> \in OpToRel(<, Nat))
    BY NatLessThanWellFounded, WFMin
<1>2. \A m \in T : ~(m < k)
    BY <1>1 DEF OpToRel
<1> QED
    BY <1>2

\* A way of n places, with the minutes it takes up to each of them.
Way(graph, n, w, t) ==
    /\ n \in Nat \ {0}
    /\ w \in [1 .. n -> Places] /\ t \in [1 .. n -> Nat]
    /\ t[1] = 0
    /\ \A i \in 1 .. n - 1 :
          /\ <<w[i], w[i + 1]>> \in graph \/ <<w[i + 1], w[i]>> \in graph
          /\ t[i + 1] = t[i] + Minutes(w[i], w[i + 1])

LEMMA WayIsLonger ==
    ASSUME NEW graph, NEW n, NEW w, NEW t, Way(graph, n, w, t), NEW i \in 1 .. n, NEW j \in i .. n
    PROVE  t[i] <= t[j]
<1> DEFINE T == {k \in i .. n : ~(t[i] <= t[k])}
<1>1. n \in Nat \ {0} /\ \A k \in 1 .. n : w[k] \in Places /\ t[k] \in Nat
    BY DEF Way
<1> SUFFICES ASSUME T # {} PROVE FALSE
    BY <1>1
<1>2. T \subseteq Nat
    BY <1>1
<1> HIDE DEF T
<1>3. PICK k \in T : \A m \in T : k <= m
    BY <1>2, LeastExists
<1> USE DEF T
<1>4. k # i
    BY <1>1
<1>5. k - 1 \in i .. n /\ k - 1 \in 1 .. n - 1 /\ (k - 1) + 1 = k
    BY <1>1, <1>4
<1>6. t[i] <= t[k - 1]
    <2>1. k - 1 \notin T
        BY <1>1, <1>3, <1>5
    <2> QED
        BY <1>5, <2>1
<1>7. t[(k - 1) + 1] = t[k - 1] + Minutes(w[k - 1], w[(k - 1) + 1])
    BY <1>5 DEF Way
<1>8. Minutes(w[k - 1], w[k]) \in Nat
    BY <1>1, <1>5, MinutesBound
<1>9. t[k] \in Nat /\ t[k - 1] \in Nat /\ t[i] \in Nat
    BY <1>1, <1>5
<1> QED
    BY <1>5, <1>6, <1>7, <1>8, <1>9

\* Every sequence of places has its minutes.
LEMMA ClockExists ==
    ASSUME NEW n \in Nat \ {0}, NEW w \in [1 .. n -> Places]
    PROVE  \E t \in [1 .. n -> Nat] :
              t[1] = 0 /\ \A i \in 1 .. n - 1 : t[i + 1] = t[i] + Minutes(w[i], w[i + 1])
<1> DEFINE Clock(k, t) == t[1] = 0 /\ \A i \in 1 .. k - 1 : t[i + 1] = t[i] + Minutes(w[i], w[i + 1])
           T == {k \in 1 .. n : ~ \E t \in [1 .. k -> Nat] : Clock(k, t)}
<1> SUFFICES ASSUME T # {} PROVE FALSE
    <2> HIDE DEF Clock
    <2>1. n \in 1 .. n
        OBVIOUS
    <2>2. n \notin T => \E t \in [1 .. n -> Nat] : Clock(n, t)
        BY <2>1
    <2>3. T = {} => \E t \in [1 .. n -> Nat] : Clock(n, t)
        BY <2>2
    <2> QED
        BY <2>3 DEF Clock
<1>1. T \subseteq Nat
    OBVIOUS
<1> HIDE DEF T
<1>2. PICK k \in T : \A m \in T : k <= m
    BY <1>1, LeastExists
<1>3. k \in 1 .. n /\ ~ \E t \in [1 .. k -> Nat] : Clock(k, t)
    BY DEF T
<1>4. k # 1
    <2> SUFFICES ASSUME k = 1 PROVE FALSE
        OBVIOUS
    <2> DEFINE z == [i \in 1 .. 1 |-> 0]
    <2>1. z \in [1 .. k -> Nat] /\ Clock(k, z)
        OBVIOUS
    <2> QED
        BY <1>3, <2>1
<1>5. k - 1 \in 1 .. n /\ k \in Nat
    BY <1>3, <1>4
<1>6. k - 1 \notin T
    BY <1>2, <1>5
<1>7. PICK s \in [1 .. k - 1 -> Nat] : Clock(k - 1, s)
    BY <1>5, <1>6 DEF T
<1> DEFINE t == [i \in 1 .. k |-> IF i = k THEN s[k - 1] + Minutes(w[k - 1], w[k]) ELSE s[i]]
<1>8. Minutes(w[k - 1], w[k]) \in Nat
    BY <1>3, <1>5, MinutesBound
<1>9. s[k - 1] \in Nat
    BY <1>5
<1>10. t \in [1 .. k -> Nat]
    BY <1>5, <1>8, <1>9
<1>11. Clock(k, t)
    <2>1. t[1] = 0
        BY <1>4, <1>5, <1>7
    <2>2. ASSUME NEW i \in 1 .. k - 1 PROVE t[i + 1] = t[i] + Minutes(w[i], w[i + 1])
        <3>1. CASE i = k - 1
            <4>1. i + 1 = k /\ i \in 1 .. k /\ i # k
                BY <1>5, <3>1
            <4> QED
                BY <1>5, <3>1, <4>1
        <3>2. CASE i # k - 1
            <4>1. i \in 1 .. (k - 1) - 1 /\ i + 1 # k /\ i # k /\ i + 1 \in 1 .. k /\ i \in 1 .. k
                BY <1>5, <3>2
            <4> QED
                BY <1>7, <4>1
        <3> QED
            BY <3>1, <3>2
    <2> QED
        BY <2>1, <2>2
<1> HIDE DEF t, Clock
<1> QED
    BY <1>3, <1>10, <1>11

\* TimeOf adds up the minutes of the roads.
LEMMA TimeOfWay ==
    ASSUME NEW graph, NEW n, NEW w, NEW t, Way(graph, n, w, t)
    PROVE  TimeOf(w) = t[n]
<1> DEFINE Sum(f) == [m \in 1 .. Len(w) |-> IF m = 1 THEN 0 ELSE f[m - 1] + Minutes(w[m - 1], w[m])]
           f == CHOOSE f : f = Sum(f)
<1>1. n \in Nat \ {0} /\ w \in [1 .. n -> Places] /\ Len(w) = n /\ t \in [1 .. n -> Nat] /\ t[1] = 0
    BY DEF Way
<1>2. \A m \in 1 .. n : m # 1 => m - 1 \in 1 .. n - 1 /\ (m - 1) + 1 = m
    BY <1>1
<1>3. \A m \in 1 .. n : m # 1 => t[m] = t[m - 1] + Minutes(w[m - 1], w[m])
    BY <1>2 DEF Way
<1>4. t = Sum(t)
    BY <1>1, <1>3
<1>5. f = Sum(f)
    BY <1>4
<1>6. TimeOf(w) = f[Len(w)]
    BY DEF TimeOf
<1> DEFINE T == {m \in 1 .. n : f[m] # t[m]}
<1> HIDE DEF f
<1>7. T = {}
    <2> SUFFICES ASSUME T # {} PROVE FALSE
        OBVIOUS
    <2>1. T \subseteq Nat
        OBVIOUS
    <2> HIDE DEF T
    <2>2. PICK m \in T : \A k \in T : m <= k
        BY <2>1, LeastExists
    <2>3. m \in 1 .. n /\ f[m] # t[m]
        BY DEF T
    <2>4. f[1] = 0
        BY <1>1, <1>5
    <2>5. m # 1
        BY <1>1, <2>3, <2>4
    <2>6. m - 1 \in 1 .. n /\ m - 1 < m
        BY <1>1, <2>3, <2>5
    <2>7. f[m - 1] = t[m - 1]
        BY <2>2, <2>3, <2>6 DEF T
    <2>8. f[m] = f[m - 1] + Minutes(w[m - 1], w[m])
        BY <1>1, <1>5, <2>3, <2>5
    <2> QED
        BY <1>3, <2>3, <2>5, <2>7, <2>8
<1> QED
    BY <1>1, <1>6, <1>7

\* A way that passes a place twice can do without what lies between.
LEMMA CutWay ==
    ASSUME NEW graph, NEW n, NEW w, NEW t, Way(graph, n, w, t),
           NEW i \in 1 .. n, NEW j \in 1 .. n, i < j, w[i] = w[j]
    PROVE  \E m, x, s : /\ Way(graph, m, x, s) /\ m < n
                        /\ x[1] = w[1] /\ x[m] = w[n] /\ s[m] <= t[n]
<1> DEFINE d == j - i
           m == n - d
           x == [k \in 1 .. m |-> IF k <= i THEN w[k] ELSE w[k + d]]
           s == [k \in 1 .. m |-> IF k <= i THEN t[k] ELSE t[k + d] - (t[j] - t[i])]
<1>1. n \in Nat \ {0} /\ w \in [1 .. n -> Places] /\ t \in [1 .. n -> Nat] /\ t[1] = 0
      /\ \A k \in 1 .. n : w[k] \in Places /\ t[k] \in Nat
    BY DEF Way
<1>2. d \in Nat \ {0} /\ m \in Nat \ {0} /\ m < n /\ i <= m /\ i + d = j /\ m + d = n
    BY <1>1
<1> HIDE DEF d, m
<1>3. \A k \in 1 .. m : k > i => k + d \in j .. n /\ k + d \in 1 .. n
    BY <1>1, <1>2
<1>4. \A k \in 1 .. m : k \in 1 .. n
    BY <1>1, <1>2
<1>5. t[i] <= t[j] /\ \A k \in 1 .. m : k > i => t[j] <= t[k + d]
    BY <1>1, <1>2, <1>3, WayIsLonger
<1>6. x \in [1 .. m -> Places]
    BY <1>1, <1>3, <1>4
<1>7. s \in [1 .. m -> Nat]
    <2>1. \A k \in 1 .. m : k > i => t[k + d] - (t[j] - t[i]) \in Nat
        BY <1>1, <1>3, <1>5
    <2> QED
        BY <1>1, <1>4, <2>1
<1>8. \A k \in i .. m : x[k] = w[k + d] /\ s[k] = t[k + d] - (t[j] - t[i])
    <2>1. \A k \in i .. m : k \in 1 .. m /\ (k = i \/ k > i)
        BY <1>1, <1>2
    <2>2. x[i] = w[i] /\ s[i] = t[i] /\ t[i] = t[j] - (t[j] - t[i])
        BY <1>1, <1>2
    <2> QED
        BY <1>2, <2>1, <2>2
<1>9. \A k \in 1 .. i : x[k] = w[k] /\ s[k] = t[k]
    BY <1>1, <1>2
<1> HIDE DEF x, s
<1>10. ASSUME NEW k \in 1 .. m - 1
       PROVE  /\ <<x[k], x[k + 1]>> \in graph \/ <<x[k + 1], x[k]>> \in graph
              /\ s[k + 1] = s[k] + Minutes(x[k], x[k + 1])
    <2>1. CASE k < i
        <3>1. k \in 1 .. n - 1 /\ k \in 1 .. i /\ k + 1 \in 1 .. i
            BY <1>1, <1>2, <2>1
        <3> QED
            BY <1>9, <3>1 DEF Way
    <2>2. CASE k >= i
        <3>1. k \in i .. m /\ k + 1 \in i .. m /\ (k + 1) + d = (k + d) + 1
              /\ k + d \in 1 .. n - 1 /\ k + d \in 1 .. n /\ (k + d) + 1 \in 1 .. n
            BY <1>1, <1>2, <2>2
        <3>2. /\ x[k] = w[k + d] /\ x[k + 1] = w[(k + d) + 1]
              /\ s[k] = t[k + d] - (t[j] - t[i]) /\ s[k + 1] = t[(k + d) + 1] - (t[j] - t[i])
            BY <1>8, <3>1
        <3>3. /\ <<w[k + d], w[(k + d) + 1]>> \in graph \/ <<w[(k + d) + 1], w[k + d]>> \in graph
              /\ t[(k + d) + 1] = t[k + d] + Minutes(w[k + d], w[(k + d) + 1])
            BY <3>1 DEF Way
        <3>4. w[k + d] \in Places /\ w[(k + d) + 1] \in Places /\ t[k + d] \in Nat
            BY <1>1, <3>1
        <3>5. Minutes(w[k + d], w[(k + d) + 1]) \in Nat
            BY <3>4, MinutesBound
        <3>6. t[i] \in Nat /\ t[j] \in Nat
            BY <1>1
        <3> QED
            BY <3>2, <3>3, <3>4, <3>5, <3>6
    <2> QED
        BY <1>1, <1>2, <2>1, <2>2
<1>11. x[1] = w[1] /\ s[1] = 0 /\ x[m] = w[n] /\ s[m] <= t[n]
    <2>1. 1 \in 1 .. i /\ m \in i .. m
        BY <1>1, <1>2
    <2>2. x[1] = w[1] /\ s[1] = t[1] /\ x[m] = w[n] /\ s[m] = t[n] - (t[j] - t[i])
        BY <1>2, <1>8, <1>9, <2>1
    <2> QED
        BY <1>1, <1>5, <2>2
<1>12. Way(graph, m, x, s)
    BY <1>2, <1>6, <1>7, <1>10, <1>11 DEF Way
<1> QED
    BY <1>2, <1>11, <1>12

\* So some way that takes no longer passes no place twice.
LEMMA SimpleWay ==
    ASSUME NEW graph, NEW n, NEW w, NEW t, Way(graph, n, w, t)
    PROVE  \E m \in 1 .. Cardinality(Places) : \E x, s :
              /\ Way(graph, m, x, s) /\ \A i, j \in 1 .. m : x[i] = x[j] => i = j
              /\ x[1] = w[1] /\ x[m] = w[n] /\ s[m] <= t[n]
<1> DEFINE Short(m, x, s) == /\ Way(graph, m, x, s)
                             /\ x[1] = w[1] /\ x[m] = w[n] /\ s[m] <= t[n]
           T == {m \in Nat : \E x, s : Short(m, x, s)}
<1>1. n \in Nat \ {0} /\ t[n] \in Nat
    BY DEF Way
<1>2. n \in T
    BY <1>1
<1>3. T \subseteq Nat /\ T # {}
    BY <1>2
<1> HIDE DEF T
<1>4. PICK m \in T : \A k \in T : m <= k
    BY <1>3, LeastExists
<1>5. PICK x, s : Short(m, x, s)
    BY DEF T
<1>6. m \in Nat \ {0} /\ x \in [1 .. m -> Places] /\ s[m] \in Nat
    BY <1>5 DEF Way
<1>7. ASSUME NEW i \in 1 .. m, NEW j \in 1 .. m, i < j, x[i] = x[j] PROVE FALSE
    <2>1. PICK k, y, u : /\ Way(graph, k, y, u) /\ k < m
                         /\ y[1] = x[1] /\ y[k] = x[m] /\ u[k] <= s[m]
        BY <1>5, <1>7, CutWay
    <2>2. k \in Nat /\ u[k] \in Nat
        BY <2>1 DEF Way
    <2>3. Short(k, y, u)
        BY <1>1, <1>5, <1>6, <2>1, <2>2
    <2>4. k \in T
        BY <2>2, <2>3 DEF T
    <2> QED
        BY <1>4, <1>6, <2>1, <2>2, <2>4
<1>8. \A i, j \in 1 .. m : x[i] = x[j] => i = j
    <2> SUFFICES ASSUME NEW i \in 1 .. m, NEW j \in 1 .. m, x[i] = x[j], i # j PROVE FALSE
        OBVIOUS
    <2>1. i < j \/ j < i
        BY <1>6
    <2> QED
        BY <1>7, <2>1
<1>9. m <= Cardinality(Places) /\ Cardinality(Places) \in Nat
    <2>1. x \in Injection(1 .. m, Places)
        BY <1>6, <1>8 DEF Injection, IsInjective
    <2>2. IsFiniteSet(Places)
        BY RoadsAssumption
    <2>3. Cardinality(1 .. m) <= Cardinality(Places)
        BY <2>1, <2>2, FS_Injection
    <2>4. Cardinality(1 .. m) = m
        BY <1>6, FS_Interval
    <2> QED
        BY <2>2, <2>3, <2>4, FS_CardinalityType
<1>10. m \in 1 .. Cardinality(Places)
    BY <1>6, <1>9
<1> QED
    BY <1>5, <1>8, <1>10

\* Two ways, one after the other.
LEMMA JoinWays ==
    ASSUME NEW graph, NEW n, NEW w, NEW t, Way(graph, n, w, t),
           NEW m, NEW x, NEW s, Way(graph, m, x, s), w[n] = x[1]
    PROVE  \E k, y, u : /\ Way(graph, k, y, u)
                        /\ y[1] = w[1] /\ y[k] = x[m] /\ u[k] = t[n] + s[m]
<1> DEFINE k == n + m - 1
           y == [i \in 1 .. k |-> IF i <= n THEN w[i] ELSE x[i - n + 1]]
           u == [i \in 1 .. k |-> IF i <= n THEN t[i] ELSE t[n] + s[i - n + 1]]
<1>1. /\ n \in Nat \ {0} /\ \A i \in 1 .. n : w[i] \in Places /\ t[i] \in Nat
      /\ m \in Nat \ {0} /\ \A i \in 1 .. m : x[i] \in Places /\ s[i] \in Nat
      /\ t[1] = 0 /\ s[1] = 0
    BY DEF Way
<1>2. k \in Nat \ {0} /\ n <= k /\ k - n + 1 = m
      /\ \A i \in n .. k : i \in 1 .. k /\ i - n + 1 \in 1 .. m /\ (i = n \/ i > n)
    BY <1>1
<1> HIDE DEF k
<1>3. y \in [1 .. k -> Places] /\ u \in [1 .. k -> Nat]
    <2>1. ASSUME NEW i \in 1 .. k, ~(i <= n) PROVE i - n + 1 \in 1 .. m
        BY <1>1, <1>2, <2>1
    <2>2. ASSUME NEW i \in 1 .. k, i <= n PROVE i \in 1 .. n
        BY <1>1, <1>2, <2>2
    <2>3. n \in 1 .. n
        BY <1>1
    <2>4. ASSUME NEW i \in 1 .. m PROVE t[n] + s[i] \in Nat
        BY <1>1, <2>3
    <2> QED
        BY <1>1, <2>1, <2>2, <2>4
<1>4. \A i \in 1 .. n : y[i] = w[i] /\ u[i] = t[i]
    BY <1>1, <1>2
<1>5. \A i \in n .. k : y[i] = x[i - n + 1] /\ u[i] = t[n] + s[i - n + 1]
    <2>1. n - n + 1 = 1 /\ n \in 1 .. n
        BY <1>1
    <2> HIDE DEF y, u
    <2>2. y[n] = w[n] /\ u[n] = t[n]
        BY <1>4, <2>1
    <2>3. t[n] = t[n] + s[1]
        BY <1>1, <2>1
    <2>4. y[n] = x[n - n + 1] /\ u[n] = t[n] + s[n - n + 1]
        BY <2>1, <2>2, <2>3
    <2> USE DEF y, u
    <2>5. ASSUME NEW i \in n .. k, i > n PROVE y[i] = x[i - n + 1] /\ u[i] = t[n] + s[i - n + 1]
        BY <1>1, <1>2, <2>5
    <2> HIDE DEF y, u
    <2> QED
        BY <1>2, <2>4, <2>5
<1> HIDE DEF y, u
<1>6. ASSUME NEW i \in 1 .. k - 1
      PROVE  /\ <<y[i], y[i + 1]>> \in graph \/ <<y[i + 1], y[i]>> \in graph
             /\ u[i + 1] = u[i] + Minutes(y[i], y[i + 1])
    <2>1. CASE i < n
        <3>1. i \in 1 .. n - 1 /\ i \in 1 .. n /\ i + 1 \in 1 .. n
            BY <1>1, <2>1
        <3> QED
            BY <1>4, <3>1 DEF Way
    <2>2. CASE i >= n
        <3> DEFINE h == i - n + 1
        <3>1. /\ i \in n .. k /\ i + 1 \in n .. k /\ h \in 1 .. m - 1
              /\ h + 1 \in 1 .. m /\ h \in 1 .. m /\ (i + 1) - n + 1 = h + 1 /\ n \in 1 .. n
            BY <1>1, <1>2, <2>2
        <3>2. /\ y[i] = x[h] /\ y[i + 1] = x[h + 1]
              /\ u[i] = t[n] + s[h] /\ u[i + 1] = t[n] + s[h + 1]
            BY <1>5, <3>1
        <3> HIDE DEF h
        <3>3. /\ <<x[h], x[h + 1]>> \in graph \/ <<x[h + 1], x[h]>> \in graph
              /\ s[h + 1] = s[h] + Minutes(x[h], x[h + 1])
            BY <3>1 DEF Way
        <3>4. Minutes(x[h], x[h + 1]) \in Nat /\ s[h] \in Nat /\ t[n] \in Nat
            BY <1>1, <3>1, MinutesBound
        <3> QED
            BY <3>2, <3>3, <3>4
    <2> QED
        BY <1>1, <1>2, <2>1, <2>2
<1>7. y[1] = w[1] /\ u[1] = 0 /\ y[k] = x[m] /\ u[k] = t[n] + s[m]
    BY <1>1, <1>2, <1>4, <1>5
<1>8. Way(graph, k, y, u)
    BY <1>2, <1>3, <1>6, <1>7 DEF Way
<1> QED
    BY <1>7, <1>8

\* What cannot rise faster along a road than the minutes it takes is a lower bound.
LEMMA PotentialBounds ==
    ASSUME NEW graph, NEW n, NEW w, NEW t, Way(graph, n, w, t),
           NEW P \in [Places -> Int], P[w[1]] = 0,
           \A u, v \in Places : <<u, v>> \in graph \/ <<v, u>> \in graph =>
               P[v] <= P[u] + 4000 * Minutes(u, v)
    PROVE  P[w[n]] <= 4000 * t[n]
<1> DEFINE T == {i \in 1 .. n : ~(P[w[i]] <= 4000 * t[i])}
<1>1. n \in Nat \ {0} /\ t[1] = 0 /\ \A i \in 1 .. n : w[i] \in Places /\ t[i] \in Nat
    BY DEF Way
<1> SUFFICES ASSUME T # {} PROVE FALSE
    BY <1>1
<1>2. T \subseteq Nat
    BY <1>1
<1> HIDE DEF T
<1>3. PICK k \in T : \A i \in T : k <= i
    <2>1. T # {}
        OBVIOUS
    <2> QED
        BY ONLY <1>2, <2>1, LeastExists
<1>4. k \in 1 .. n /\ ~(P[w[k]] <= 4000 * t[k])
    BY DEF T
<1>5. k # 1
    BY <1>1, <1>4
<1>6. k - 1 \in 1 .. n /\ k - 1 \in 1 .. n - 1 /\ (k - 1) + 1 = k
    BY <1>1, <1>4, <1>5
<1>7. P[w[k - 1]] <= 4000 * t[k - 1]
    BY <1>1, <1>3, <1>4, <1>6 DEF T
<1>8. t[k] = t[k - 1] + Minutes(w[k - 1], w[k])
      /\ (<<w[k - 1], w[k]>> \in graph \/ <<w[k], w[k - 1]>> \in graph)
    BY <1>6 DEF Way
<1>9. w[k - 1] \in Places /\ w[k] \in Places /\ t[k - 1] \in Nat /\ t[k] \in Nat
    BY <1>1, <1>4, <1>6
<1>10. P[w[k]] <= P[w[k - 1]] + 4000 * Minutes(w[k - 1], w[k])
    BY <1>8, <1>9
<1>11. Minutes(w[k - 1], w[k]) \in Nat /\ P[w[k]] \in Int /\ P[w[k - 1]] \in Int
    BY <1>9, MinutesBound
<1> QED
    BY <1>4, <1>7, <1>8, <1>9, <1>10, <1>11

\* A set of places that no road leaves is left by no way.
LEMMA WayStaysWithin ==
    ASSUME NEW graph, NEW n, NEW w, NEW t, Way(graph, n, w, t),
           NEW R, w[1] \in R,
           \A u \in R, v \in Places : <<u, v>> \in graph \/ <<v, u>> \in graph => v \in R
    PROVE  w[n] \in R
<1> DEFINE T == {i \in 1 .. n : w[i] \notin R}
<1>1. n \in Nat \ {0} /\ \A i \in 1 .. n : w[i] \in Places
    BY DEF Way
<1> SUFFICES ASSUME T # {} PROVE FALSE
    BY <1>1
<1>2. T \subseteq Nat
    BY <1>1
<1> HIDE DEF T
<1>3. PICK k \in T : \A i \in T : k <= i
    BY <1>2, LeastExists
<1>4. k \in 1 .. n /\ w[k] \notin R /\ k # 1
    BY DEF T
<1>5. k - 1 \in 1 .. n /\ k - 1 \in 1 .. n - 1 /\ (k - 1) + 1 = k
    BY <1>1, <1>4
<1>6. w[k - 1] \in R
    BY <1>1, <1>3, <1>4, <1>5 DEF T
<1>7. <<w[k - 1], w[k]>> \in graph \/ <<w[k], w[k - 1]>> \in graph
    BY <1>5 DEF Way
<1> QED
    BY <1>1, <1>4, <1>6, <1>7

\* The table has the least time of all ways, also of those that pass a place twice.
LEMMA FastestIsLeast ==
    ASSUME NEW graph \in {AddCampusRoads(calls) : calls \in RoadCalls},
           NEW a \in Places, NEW b \in Places
    PROVE  \/ /\ FastestTimes[graph][<<a, b>>] = -1
              /\ ~ \E n, w, t : Way(graph, n, w, t) /\ w[1] = a /\ w[n] = b
           \/ /\ FastestTimes[graph][<<a, b>>] \in Nat
              /\ \E n, w, t : /\ Way(graph, n, w, t) /\ w[1] = a /\ w[n] = b
                              /\ t[n] = FastestTimes[graph][<<a, b>>]
              /\ \A n, w, t : Way(graph, n, w, t) /\ w[1] = a /\ w[n] = b =>
                                 FastestTimes[graph][<<a, b>>] <= t[n]
<1> DEFINE open == {w \in SimpleWays : Open(w, graph)}
           between == {x \in open : x[1] = a /\ x[Len(x)] = b}
           times == {TimeOf(w) : w \in between}
           F == FastestTimes[graph][<<a, b>>]
<1>1. F = IF times = {} THEN -1 ELSE Least(times)
    <2>1. <<a, b>> \in Places \X Places /\ <<a, b>>[1] = a /\ <<a, b>>[2] = b
        OBVIOUS
    <2> QED
        BY <2>1 DEF FastestTimes
<1> HIDE DEF F
\* What the table counts are ways.
<1>2. ASSUME NEW w \in between
      PROVE  \E n, t : Way(graph, n, w, t) /\ w[1] = a /\ w[n] = b /\ t[n] = TimeOf(w)
    <2>1. PICK n \in 1 .. Cardinality(Places) : w \in [1 .. n -> Places]
        BY DEF SimpleWays
    <2>2. n \in Nat \ {0} /\ Len(w) = n
        <3>1. Cardinality(Places) \in Nat
            BY RoadsAssumption, FS_CardinalityType
        <3>2. n \in Nat \ {0}
            BY <3>1
        <3> QED
            BY <2>1, <3>2
    <2>3. PICK t \in [1 .. n -> Nat] :
             t[1] = 0 /\ \A i \in 1 .. n - 1 : t[i + 1] = t[i] + Minutes(w[i], w[i + 1])
        BY <2>1, <2>2, ClockExists
    <2>4. Way(graph, n, w, t)
        BY <2>1, <2>2, <2>3 DEF Way, Open
    <2>5. t[n] = TimeOf(w)
        BY <2>4, TimeOfWay
    <2> QED
        BY <2>2, <2>4, <2>5
\* And no way is faster than all it counts.
<1>3. ASSUME NEW n, NEW w, NEW t, Way(graph, n, w, t), w[1] = a, w[n] = b
      PROVE  \E T \in times : T <= t[n]
    <2>1. PICK m, x, s :
             /\ m \in 1 .. Cardinality(Places)
             /\ Way(graph, m, x, s) /\ \A i, j \in 1 .. m : x[i] = x[j] => i = j
             /\ x[1] = w[1] /\ x[m] = w[n] /\ s[m] <= t[n]
        BY <1>3, SimpleWay
    <2>2. x \in [1 .. m -> Places] /\ Len(x) = m
        BY <2>1 DEF Way
    <2>3. x \in SimpleWays
        BY <2>1, <2>2 DEF SimpleWays
    <2>4. Open(x, graph)
        BY <2>1, <2>2 DEF Open, Way
    <2>5. x \in between
        BY <1>3, <2>1, <2>2, <2>3, <2>4
    <2>6. TimeOf(x) = s[m]
        BY <2>1, TimeOfWay
    <2> QED
        BY <2>1, <2>5, <2>6
<1>4. times \subseteq Nat
    <2> SUFFICES ASSUME NEW w \in between PROVE TimeOf(w) \in Nat
        OBVIOUS
    <2>1. PICK n, t : Way(graph, n, w, t) /\ t[n] = TimeOf(w)
        BY <1>2
    <2> QED
        BY <2>1 DEF Way
<1>5. times # {} => F \in times /\ \A T \in times : F <= T
    <2> HIDE DEF times
    <2> SUFFICES ASSUME times # {} PROVE F \in times /\ \A T \in times : F <= T
        OBVIOUS
    <2>1. \E T \in times : \A U \in times : T <= U
        BY <1>4, LeastExists
    <2> QED
        BY <1>1, <2>1 DEF Least
<1>6. ASSUME NEW T \in times
      PROVE  \E n, w, t : Way(graph, n, w, t) /\ w[1] = a /\ w[n] = b /\ t[n] = T
    <2>1. PICK w \in between : T = TimeOf(w)
        OBVIOUS
    <2> QED
        BY <1>2, <2>1
<1> HIDE DEF times
<1>7. CASE times = {}
    BY <1>1, <1>3, <1>7 DEF F
<1>8. CASE times # {}
    <2>1. F \in times /\ F \in Nat
        BY <1>4, <1>5, <1>8
    <2>2. \E n, w, t : Way(graph, n, w, t) /\ w[1] = a /\ w[n] = b /\ t[n] = F
        BY <1>6, <2>1
    <2>3. ASSUME NEW n, NEW w, NEW t, Way(graph, n, w, t) /\ w[1] = a /\ w[n] = b
          PROVE  F <= t[n]
        <3>1. PICK T \in times : T <= t[n]
            BY <1>3, <2>3
        <3>2. F <= T /\ T \in Nat /\ t[n] \in Nat
            BY <1>4, <1>5, <1>8, <2>3, <3>1 DEF Way
        <3> QED
            BY <2>1, <3>1, <3>2
    <2> QED
        BY <2>1, <2>2, <2>3 DEF F
<1> QED
    BY <1>7, <1>8

\* No road leads anywhere later than over another place.
LEMMA FastestTriangle ==
    ASSUME NEW graph \in {AddCampusRoads(calls) : calls \in RoadCalls},
           NEW a \in Places, NEW b \in Places, NEW c \in Places,
           FastestTimes[graph][<<a, b>>] >= 0, FastestTimes[graph][<<b, c>>] >= 0
    PROVE  /\ FastestTimes[graph][<<a, c>>] \in Nat
           /\ FastestTimes[graph][<<a, c>>] <=
                 FastestTimes[graph][<<a, b>>] + FastestTimes[graph][<<b, c>>]
<1> DEFINE F(p, q) == FastestTimes[graph][<<p, q>>]
<1>1. PICK n, w, t : Way(graph, n, w, t) /\ w[1] = a /\ w[n] = b /\ t[n] = F(a, b)
    BY FastestIsLeast
<1>2. PICK m, x, s : Way(graph, m, x, s) /\ x[1] = b /\ x[m] = c /\ s[m] = F(b, c)
    BY FastestIsLeast
<1>3. PICK k, y, u : Way(graph, k, y, u) /\ y[1] = a /\ y[k] = c /\ u[k] = F(a, b) + F(b, c)
    BY <1>1, <1>2, JoinWays
<1> QED
    BY <1>3, FastestIsLeast

-----------------------------------------------------------------------------
(* Types *)

LEMMA EntryTypes ==
    ASSUME TypeOK, NEW e \in openSet
    PROVE  e.at \in Places /\ e.time \in Nat /\ Remaining(e.at, destination) \in Nat
           /\ Estimate(e) \in Nat
<1>1. e.at \in Places /\ e.time \in Nat /\ destination \in Places
    BY DEF TypeOK, Entries
<1>2. Remaining(e.at, destination) \in Nat
    BY <1>1, MinutesBound
<1> QED
    BY <1>1, <1>2 DEF Estimate

\* What the expansion of a place leaves in the three maps and the queue.
LEMMA AfterExpand ==
    ASSUME TypeOK, NEW e \in openSet, Expand(e), roads' = roads, e.at \in DOMAIN bestTime
    PROVE  /\ TypeOK'
           /\ Improved(e) \subseteq Places
           /\ DOMAIN bestTime' = DOMAIN bestTime \cup Improved(e)
           /\ DOMAIN previous' = DOMAIN previous \cup Improved(e)
           /\ \A p \in DOMAIN bestTime \ Improved(e) :
                 bestTime'[p] = bestTime[p] /\ bestDistance'[p] = bestDistance[p]
           /\ \A p \in DOMAIN previous \ Improved(e) : previous'[p] = previous[p]
           /\ \A v \in Improved(e) :
                 /\ bestTime'[v] = e.time + Minutes(e.at, v)
                 /\ bestDistance'[v] = bestDistance[e.at] + Length(e.at, v)
                 /\ previous'[v] = e.at
           /\ openSet' = (openSet \ {e}) \cup
                            {[at |-> v, time |-> bestTime'[v]] : v \in Improved(e)}
<1>1. e.at \in Places /\ e.time \in Nat
    BY EntryTypes
<1>2. Improved(e) \subseteq Places
    BY DEF Improved
<1>3. DOMAIN bestDistance = DOMAIN bestTime /\ DOMAIN bestTime \subseteq Places
      /\ DOMAIN previous \subseteq Places
    <2>1. bestDistance \in [DOMAIN bestTime -> Nat]
        BY DEF TypeOK
    <2>2. DOMAIN bestDistance = DOMAIN bestTime
        BY <2>1
    <2> QED
        BY <2>2 DEF TypeOK
<1>4. \A v \in Improved(e) :
         e.time + Minutes(e.at, v) \in Nat /\ bestDistance[e.at] + Length(e.at, v) \in Nat
    <2>1. bestDistance[e.at] \in Nat
        <3>1. bestDistance \in [DOMAIN bestTime -> Nat]
            BY DEF TypeOK
        <3> QED
            BY <3>1
    <2>2. \A v \in Improved(e) : Minutes(e.at, v) \in Nat /\ Length(e.at, v) \in Nat
        BY <1>1, <1>2, MinutesBound
    <2> QED
        BY <1>1, <2>1, <2>2
<1>5. /\ bestTime' = Assigned(bestTime, [v \in Improved(e) |-> e.time + Minutes(e.at, v)])
      /\ bestDistance' = Assigned(bestDistance,
                                  [v \in Improved(e) |-> bestDistance[e.at] + Length(e.at, v)])
      /\ previous' = Assigned(previous, [v \in Improved(e) |-> e.at])
      /\ openSet' = (openSet \ {e}) \cup
            {[at |-> v, time |-> e.time + Minutes(e.at, v)] : v \in Improved(e)}
      /\ UNCHANGED <<source, destination, path, phase>>
    BY DEF Expand, Popped
<1>6. /\ DOMAIN bestTime' = DOMAIN bestTime \cup Improved(e)
      /\ \A p \in DOMAIN bestTime \ Improved(e) : bestTime'[p] = bestTime[p]
      /\ \A v \in Improved(e) : bestTime'[v] = e.time + Minutes(e.at, v)
      /\ bestTime' \in [DOMAIN bestTime' -> Nat]
    BY <1>4, <1>5 DEF Assigned, TypeOK
<1>7. /\ DOMAIN bestDistance' = DOMAIN bestTime \cup Improved(e)
      /\ \A p \in DOMAIN bestTime \ Improved(e) : bestDistance'[p] = bestDistance[p]
      /\ \A v \in Improved(e) : bestDistance'[v] = bestDistance[e.at] + Length(e.at, v)
      /\ bestDistance' \in [DOMAIN bestTime' -> Nat]
    BY <1>3, <1>4, <1>5, <1>6 DEF Assigned, TypeOK
<1>8. /\ DOMAIN previous' = DOMAIN previous \cup Improved(e)
      /\ \A p \in DOMAIN previous \ Improved(e) : previous'[p] = previous[p]
      /\ \A v \in Improved(e) : previous'[v] = e.at
      /\ previous' \in [DOMAIN previous' -> Places]
    BY <1>1, <1>5 DEF Assigned, TypeOK
<1>9. openSet' = (openSet \ {e}) \cup {[at |-> v, time |-> bestTime'[v]] : v \in Improved(e)}
    BY <1>5, <1>6
<1>10. openSet' \subseteq Entries
    BY <1>2, <1>4, <1>5 DEF TypeOK, Entries
<1>11. roads' = roads => TypeOK'
    BY <1>2, <1>3, <1>5, <1>6, <1>7, <1>8, <1>10 DEF TypeOK
<1> QED
    BY <1>2, <1>6, <1>7, <1>8, <1>9, <1>11

LEMMA SearchTypeOK ==
    ASSUME TypeOK, SearchInv, phase # "idle", SearchStep
    PROVE  TypeOK'
<1>1. ASSUME NEW e \in openSet, DropStale(e) PROVE TypeOK'
    BY <1>1 DEF DropStale, TypeOK, SearchStep
<1>2. ASSUME NEW e \in openSet, ReachDestination(e) PROVE TypeOK'
    <2>1. destination \in Places /\ path' = <<destination>> /\ phase' = "trace"
        BY <1>2 DEF ReachDestination, TypeOK
    <2>2. path' \in Seq(Places)
        BY <2>1
    <2> QED
        BY <1>2, <2>1, <2>2 DEF ReachDestination, TypeOK, SearchStep
<1>3. ASSUME NEW e \in openSet, Expand(e) PROVE TypeOK'
    <2>1. e.at \in DOMAIN bestTime
        BY DEF SearchInv, QueueInv
    <2>2. roads' = roads
        BY DEF SearchStep
    <2> QED
        BY <1>3, <2>1, <2>2, AfterExpand
<1>4. CASE Exhausted
    <2>1. path' \in Seq(Places)
        <3>1. <<destination>> \in Seq(Places)
            BY DEF TypeOK
        <3> QED
            BY <1>4, <3>1 DEF Exhausted, TypeOK
    <2> QED
        BY <1>4, <2>1 DEF Exhausted, TypeOK, SearchStep
<1>5. CASE Trace
    <2>1. ASSUME path \in Seq(Places), path # <<>>, NEW p \in Places
          PROVE  <<p>> \o path \in Seq(Places)
        BY <2>1, ConcatProperties
    <2>2. path # <<>>
        <3>1. phase = "trace" /\ path \in Seq(Places)
            BY <1>5 DEF Trace, TypeOK
        <3> QED
            BY <3>1 DEF SearchInv, EndInv
    <2>3. path' \in Seq(Places)
        <3>1. CASE Head(path) = source \/ Head(path) \notin DOMAIN previous
            BY <1>5, <3>1 DEF Trace, TypeOK
        <3>2. CASE ~(Head(path) = source \/ Head(path) \notin DOMAIN previous)
            <4>1. previous[Head(path)] \in Places
                BY <3>2 DEF TypeOK
            <4> QED
                BY <1>5, <2>1, <2>2, <3>2, <4>1 DEF Trace, TypeOK
        <3> QED
            BY <3>1, <3>2
    <2> QED
        BY <1>5, <2>3 DEF Trace, TypeOK, SearchStep
<1> QED
    BY <1>1, <1>2, <1>3, <1>4, <1>5 DEF SearchStep

-----------------------------------------------------------------------------
(* The search *)

\* An outdated entry leaves without a trace.
LEMMA DropStaleInv ==
    ASSUME TypeOK, SearchInv, NEW e \in openSet, DropStale(e), roads' = roads
    PROVE  SearchInv'
<1>1. SourceInv /\ QueueInv /\ PreviousInv /\ SettledInv /\ EndInv /\ phase = "search"
    BY DEF SearchInv, DropStale
<1>2. UNCHANGED <<source, destination, bestTime, bestDistance, previous, path, phase>>
      /\ openSet' = openSet \ {e}
    BY DEF DropStale
<1>3. \A p \in DOMAIN bestTime : e # [at |-> p, time |-> bestTime[p]]
    BY <1>1, EntryTypes DEF DropStale, Stale, TypeOK
<1>4. \A p : Settled(p)' <=> Settled(p)
    BY <1>2, <1>3 DEF Settled
<1>5. \A f \in openSet' : f \in openSet /\ Estimate(f)' = Estimate(f)
    BY <1>2 DEF Estimate, Remaining
<1>6. \A p \in DOMAIN bestTime : Value(p)' = Value(p)
    BY <1>2 DEF Value, Remaining
<1>7. SourceInv' /\ QueueInv'
    BY <1>1, <1>2, <1>5 DEF SourceInv, QueueInv
<1>8. PreviousInv'
    BY <1>1, <1>2, <1>4 DEF PreviousInv, Minutes, Length, Joined, SearchStep
<1>9. SettledInv'
    BY <1>1, <1>2, <1>4, <1>5, <1>6 DEF SettledInv, Minutes, Length, Joined, Remaining
<1>10. EndInv'
    BY <1>1, <1>2, <1>4 DEF EndInv
<1> QED
    BY <1>7, <1>8, <1>9, <1>10 DEF SearchInv

\* The destination on top: everything left in the queue is worth no less.
LEMMA ReachDestinationInv ==
    ASSUME TypeOK, SearchInv, NEW e \in openSet, ReachDestination(e), roads' = roads
    PROVE  SearchInv'
<1>1. SourceInv /\ QueueInv /\ PreviousInv /\ SettledInv /\ EndInv
    BY DEF SearchInv, ReachDestination
<1>2. UNCHANGED <<source, destination, bestTime, bestDistance, previous, roads>>
      /\ openSet' = openSet \ {e} /\ path' = <<destination>> /\ phase' = "trace"
    BY DEF ReachDestination
<1>3. destination \in DOMAIN bestTime /\ destination \in Places
      /\ e = [at |-> destination, time |-> bestTime[destination]]
    <2>1. e.at = destination /\ e.at \in DOMAIN bestTime /\ ~(e.time > bestTime[e.at])
          /\ bestTime[e.at] <= e.time
        BY <1>1 DEF ReachDestination, Stale, QueueInv
    <2>2. e \in Entries /\ bestTime[e.at] \in Nat
        BY <2>1 DEF TypeOK
    <2>3. e.time = bestTime[destination]
        BY <2>1, <2>2 DEF Entries
    <2> QED
        BY <2>1, <2>2, <2>3 DEF Entries
<1>4. \A p : Settled(p)' <=> Settled(p) \/ p = destination
    BY <1>2, <1>3 DEF Settled
<1>5. \A f \in openSet' : f \in openSet /\ Estimate(f)' = Estimate(f)
    BY <1>2 DEF Estimate, Remaining
<1>6. \A p \in DOMAIN bestTime : Value(p)' = Value(p)
    BY <1>2 DEF Value, Remaining
<1>7. Value(destination) = Estimate(e)
    BY <1>3 DEF Value, Estimate
<1>8. \A f \in openSet : Estimate(e) <= Estimate(f)
    BY DEF ReachDestination, Top
<1>9. SourceInv' /\ QueueInv'
    BY <1>1, <1>2, <1>5 DEF SourceInv, QueueInv
<1>10. PreviousInv'
    BY <1>1, <1>2, <1>4 DEF PreviousInv, Minutes, Length, Joined
<1>11. SettledInv'
    BY <1>1, <1>2, <1>4, <1>5, <1>6, <1>7, <1>8 DEF SettledInv, Minutes, Length, Joined, Remaining
<1>12. EndInv'
    <2>1. path' = <<destination>>
        BY <1>2
    <2>2. Len(path') = 1 /\ path'[1] = destination
        BY <2>1
    <2> QED
        BY <1>2, <1>3, <1>4, <2>2 DEF EndInv
<1> QED
    BY <1>9, <1>10, <1>11, <1>12 DEF SearchInv

\* A settled place is not reached again, nor is the one that is expanded: whatever
\* leads there now is estimated to be no less than it was.
LEMMA SettledNotImproved ==
    ASSUME TypeOK, SearchInv, NEW e \in openSet, Expand(e)
    PROVE  /\ e.at \notin Improved(e) /\ source \notin Improved(e)
           /\ \A p \in DOMAIN bestTime : Settled(p) => p \notin Improved(e)
<1> DEFINE u == e.at
           new == Improved(e)
<1>1. SourceInv /\ QueueInv /\ SettledInv
    BY DEF SearchInv, Expand
<1>2. u \in DOMAIN bestTime /\ u \in Places /\ e.time = bestTime[u] /\ bestTime[u] \in Nat
    <2>1. u \in DOMAIN bestTime /\ ~(e.time > bestTime[u]) /\ bestTime[u] <= e.time
        BY <1>1 DEF Expand, Stale, QueueInv
    <2>2. e \in Entries /\ bestTime[u] \in Nat
        BY <2>1 DEF TypeOK
    <2> QED
        BY <2>1, <2>2 DEF Entries
<1>3. \A v \in new : v \in Places /\ (v \in DOMAIN bestTime => bestTime[u] + Minutes(u, v) < bestTime[v])
    BY <1>2 DEF Improved
<1>4. \A v \in Places : /\ Minutes(u, v) \in Nat /\ Remaining(v, destination) \in Nat
                        /\ Remaining(u, destination) <=
                              4000 * Minutes(u, v) + Remaining(v, destination)
    BY <1>2, MinutesBound, EstimateConsistent DEF TypeOK
<1>5. Estimate(e) = 4000 * bestTime[u] + Remaining(u, destination)
    BY <1>2 DEF Estimate
<1>6. \A p \in DOMAIN bestTime : bestTime[p] \in Nat /\ p \in Places
                                 /\ Remaining(p, destination) \in Nat
    BY MinutesBound DEF TypeOK
<1>7. ASSUME NEW p \in DOMAIN bestTime, Settled(p), p \in new PROVE FALSE
    <2>1. Value(p) <= Estimate(e)
        BY <1>1, <1>7 DEF SettledInv
    <2>2. bestTime[u] + Minutes(u, p) < bestTime[p]
        BY <1>3, <1>7
    <2> QED
        BY <1>2, <1>4, <1>5, <1>6, <2>1, <2>2 DEF Value
<1>8. u \notin new
    <2>1. u \in new => bestTime[u] + Minutes(u, u) < bestTime[u]
        BY <1>2, <1>3
    <2> QED
        BY <1>2, <1>4, <2>1
<1>9. source \notin new
    <2>1. source \in new => Minutes(u, source) \in Nat /\ bestTime[u] + Minutes(u, source) < 0
        BY <1>1, <1>3, <1>4 DEF SourceInv
    <2> QED
        BY <1>2, <2>1
<1> QED
    BY <1>7, <1>8, <1>9

\* The place that is taken from the queue is final, its neighbours are reached by
\* it or were reached no later, and no settled place is reached again.
LEMMA ExpandInv ==
    ASSUME TypeOK, SearchInv, NEW e \in openSet, Expand(e), roads' = roads
    PROVE  SearchInv'
<1> DEFINE u == e.at
           new == Improved(e)
<1>1. SourceInv /\ QueueInv /\ PreviousInv /\ SettledInv /\ EndInv
    BY DEF SearchInv, Expand
<1>2. u \in DOMAIN bestTime /\ u \in Places /\ e.time = bestTime[u] /\ u # destination
      /\ e = [at |-> u, time |-> bestTime[u]] /\ bestTime[u] \in Nat
    <2>1. u \in DOMAIN bestTime /\ ~(e.time > bestTime[u]) /\ bestTime[u] <= e.time
          /\ u # destination
        BY <1>1 DEF Expand, Stale, QueueInv
    <2>2. e \in Entries /\ bestTime[u] \in Nat
        BY <2>1 DEF TypeOK
    <2>3. e.time = bestTime[u]
        BY <2>1, <2>2 DEF Entries
    <2> QED
        BY <2>1, <2>2, <2>3 DEF Entries
<1>3. /\ TypeOK'
      /\ new \subseteq Places
      /\ DOMAIN bestTime' = DOMAIN bestTime \cup new
      /\ DOMAIN previous' = DOMAIN previous \cup new
      /\ \A p \in DOMAIN bestTime \ new :
            bestTime'[p] = bestTime[p] /\ bestDistance'[p] = bestDistance[p]
      /\ \A p \in DOMAIN previous \ new : previous'[p] = previous[p]
      /\ \A v \in new :
            /\ bestTime'[v] = bestTime[u] + Minutes(u, v)
            /\ bestDistance'[v] = bestDistance[u] + Length(u, v)
            /\ previous'[v] = u
      /\ openSet' = (openSet \ {e}) \cup {[at |-> v, time |-> bestTime'[v]] : v \in new}
    BY <1>2, AfterExpand
<1>4. UNCHANGED <<source, destination, path, phase, roads>> /\ phase = "search"
    BY DEF Expand
<1>5. \A f \in openSet : Estimate(e) <= Estimate(f) /\ Estimate(f) \in Nat
    BY EntryTypes DEF Expand, Top
<1>6. \A v \in Places : /\ Minutes(u, v) \in Nat /\ Remaining(v, destination) \in Nat
                        /\ Remaining(u, destination) <=
                              4000 * Minutes(u, v) + Remaining(v, destination)
    BY <1>2, MinutesBound, EstimateConsistent DEF TypeOK
<1>7. Estimate(e) = 4000 * bestTime[u] + Remaining(u, destination)
    BY <1>2 DEF Estimate
<1>8. \A v \in new : Joined(u, v)
                     /\ (v \in DOMAIN bestTime => bestTime[u] + Minutes(u, v) < bestTime[v])
    BY <1>2 DEF Improved
<1>9. \A v \in new : Estimate(e) <= 4000 * bestTime'[v] + Remaining(v, destination)
    BY <1>2, <1>3, <1>6, <1>7
<1>10. \A p \in DOMAIN bestTime : bestTime[p] \in Nat /\ p \in Places
                                  /\ Remaining(p, destination) \in Nat
    BY MinutesBound DEF TypeOK
<1>11. \A p \in DOMAIN bestTime : Settled(p) => p \notin new
    BY SettledNotImproved
<1>12. u \notin new /\ source \notin new
    BY SettledNotImproved
<1>13. \A p \in DOMAIN bestTime : Settled(p)' <=> (Settled(p) /\ p \notin new) \/ p = u
    <2> SUFFICES ASSUME NEW p \in DOMAIN bestTime
                 PROVE  Settled(p)' <=> (Settled(p) /\ p \notin new) \/ p = u
        OBVIOUS
    <2>1. CASE p \in new
        <3>1. [at |-> p, time |-> bestTime'[p]] \in openSet'
            BY <1>3, <2>1
        <3>2. ~Settled(p)'
            BY <3>1 DEF Settled
        <3> QED
            BY <1>12, <2>1, <3>2
    <2>2. CASE p \notin new
        <3>1. bestTime'[p] = bestTime[p] /\ p \in DOMAIN bestTime'
            BY <1>3, <2>2
        <3>2. [at |-> p, time |-> bestTime[p]] \notin {[at |-> v, time |-> bestTime'[v]] : v \in new}
            BY <2>2
        <3>3. [at |-> p, time |-> bestTime[p]] = e <=> p = u
            BY <1>2
        <3>4. [at |-> p, time |-> bestTime[p]] \in openSet' <=>
                  [at |-> p, time |-> bestTime[p]] \in openSet /\ p # u
            BY <1>3, <3>2, <3>3
        <3> QED
            BY <2>2, <3>1, <3>4 DEF Settled
    <2> QED
        BY <2>1, <2>2
<1>14. \A p : Settled(p)' => p \in DOMAIN bestTime
    BY <1>3 DEF Settled
<1>15. \A v \in new : bestTime'[v] \in Nat /\ (v \in DOMAIN bestTime => bestTime'[v] < bestTime[v])
    BY <1>2, <1>3, <1>6, <1>8
<1>16. \A f \in openSet' :
          \/ f \in openSet
          \/ \E v \in new : f = [at |-> v, time |-> bestTime'[v]]
    BY <1>3
<1>17. SourceInv'
    BY <1>1, <1>3, <1>4, <1>12 DEF SourceInv
<1>18. QueueInv'
    <2> SUFFICES ASSUME NEW f \in openSet'
                 PROVE  f.at \in DOMAIN bestTime' /\ bestTime'[f.at] <= f.time
        BY DEF QueueInv
    <2>1. CASE f \in openSet
        <3>1. f.at \in DOMAIN bestTime /\ bestTime[f.at] <= f.time /\ f.time \in Nat
            BY <1>1, <2>1, EntryTypes DEF QueueInv
        <3> QED
            BY <1>3, <1>10, <1>15, <3>1
    <2>2. CASE \E v \in new : f = [at |-> v, time |-> bestTime'[v]]
        BY <1>3, <1>15, <2>2
    <2> QED
        BY <1>16, <2>1, <2>2
<1>19. PreviousInv'
    <2>1. \A p \in DOMAIN bestTime' : p # source' => p \in DOMAIN previous'
        BY <1>1, <1>3, <1>4 DEF PreviousInv
    <2>2. ASSUME NEW p \in new
          PROVE  /\ p \in DOMAIN bestTime' /\ Settled(previous[p])' /\ Joined(previous[p], p)'
                 /\ bestTime'[p] = bestTime'[previous'[p]] + Minutes(previous'[p], p)
                 /\ bestDistance'[p] = bestDistance'[previous'[p]] + Length(previous'[p], p)
        <3>1. previous'[p] = u /\ bestTime'[u] = bestTime[u] /\ bestDistance'[u] = bestDistance[u]
            BY <1>2, <1>3, <1>12
        <3>2. Settled(u)' /\ Joined(u, p)'
            BY <1>2, <1>4, <1>8, <1>13 DEF Joined
        <3> QED
            BY <1>3, <3>1, <3>2
    <2>3. ASSUME NEW p \in DOMAIN previous \ new
          PROVE  /\ p \in DOMAIN bestTime' /\ Settled(previous[p])' /\ Joined(previous[p], p)'
                 /\ bestTime'[p] = bestTime'[previous'[p]] + Minutes(previous'[p], p)
                 /\ bestDistance'[p] = bestDistance'[previous'[p]] + Length(previous'[p], p)
        <3>1. PICK q : q = previous[p]
            OBVIOUS
        <3>2. /\ p \in DOMAIN bestTime /\ Settled(q) /\ Joined(q, p)
              /\ bestTime[p] = bestTime[q] + Minutes(q, p)
              /\ bestDistance[p] = bestDistance[q] + Length(q, p)
            BY <1>1, <3>1 DEF PreviousInv
        <3>3. q \in DOMAIN bestTime /\ q \notin new
            BY <1>11, <3>2 DEF Settled
        <3>4. Settled(q)' /\ Joined(q, p)' /\ previous'[p] = q
            BY <1>3, <1>4, <1>13, <3>1, <3>2, <3>3 DEF Joined
        <3> QED
            BY <1>3, <3>2, <3>3, <3>4
    <2> QED
        BY <1>3, <2>1, <2>2, <2>3 DEF PreviousInv, Minutes, Length
<1>20. SettledInv'
    <2>1. \A p \in DOMAIN bestTime' : Settled(p)' =>
              p \in DOMAIN bestTime /\ p \notin new /\ bestTime'[p] = bestTime[p]
              /\ (p = u \/ Settled(p))
        BY <1>3, <1>11, <1>12, <1>13, <1>14
    <2>2. ASSUME NEW p \in DOMAIN bestTime', NEW f \in openSet', Settled(p)'
          PROVE  Value(p)' <= Estimate(f)'
        <3>1. Value(p)' = Value(p) /\ Value(p) <= Estimate(e) /\ Value(p) \in Nat
            <4>1. Value(p)' = Value(p)
                BY <1>4, <2>1, <2>2 DEF Value, Remaining
            <4>2. Value(p) <= Estimate(e)
                <5>1. CASE p = u
                    BY <1>5, <1>7, <5>1 DEF Value
                <5>2. CASE Settled(p)
                    BY <1>1, <2>1, <2>2, <5>2 DEF SettledInv
                <5> QED
                    BY <2>1, <2>2, <5>1, <5>2
            <4> QED
                BY <1>10, <2>1, <2>2, <4>1, <4>2 DEF Value
        <3>2. Estimate(e) \in Nat
            BY <1>5
        <3>3. CASE f \in openSet
            <4>1. Estimate(f)' = Estimate(f)
                BY <1>4 DEF Estimate, Remaining
            <4> QED
                BY <1>5, <3>1, <3>2, <3>3, <4>1
        <3>4. CASE \E v \in new : f = [at |-> v, time |-> bestTime'[v]]
            <4>1. PICK v \in new : f = [at |-> v, time |-> bestTime'[v]]
                BY <3>4
            <4>2. Estimate(f)' = 4000 * bestTime'[v] + Remaining(v, destination)
                BY <1>4, <4>1 DEF Estimate, Remaining
            <4>3. Estimate(f)' \in Nat
                BY <1>3, <1>6, <1>15, <4>2
            <4> QED
                BY <1>9, <3>1, <3>2, <4>2, <4>3
        <3> QED
            BY <1>16, <3>3, <3>4
    <2>3. ASSUME NEW p \in DOMAIN bestTime', NEW v \in Places, Settled(p)', p # destination,
                 Joined(p, v)
          PROVE  v \in DOMAIN bestTime' /\ bestTime'[v] <= bestTime'[p] + Minutes(p, v)
        <3>1. /\ p \in Places /\ bestTime[p] \in Nat /\ bestTime'[p] = bestTime[p]
              /\ Minutes(p, v) \in Nat
            BY <1>10, <2>1, <2>3, MinutesBound
        <3>2. CASE p = u /\ v \in new
            BY <1>2, <1>3, <1>15, <3>1, <3>2
        <3>3. CASE p = u /\ v \notin new
            <4>1. v \in DOMAIN bestTime /\ ~(bestTime[u] + Minutes(u, v) < bestTime[v])
                BY <1>2, <2>3, <3>3 DEF Improved
            <4> QED
                BY <1>2, <1>3, <1>10, <3>1, <3>3, <4>1
        <3>4. CASE p # u
            <4>1. v \in DOMAIN bestTime /\ bestTime[v] <= bestTime[p] + Minutes(p, v)
                BY <1>1, <2>1, <2>3, <3>4 DEF SettledInv
            <4>2. bestTime[v] \in Nat /\ v \in DOMAIN bestTime' /\ bestTime'[v] \in Nat
                  /\ bestTime'[v] <= bestTime[v]
                BY <1>3, <1>10, <1>15, <4>1
            <4> QED
                BY <3>1, <4>1, <4>2
        <3> QED
            BY <3>2, <3>3, <3>4
    <2>4. ASSUME NEW p \in DOMAIN bestTime'
          PROVE  Remaining(source, p) <= 4000 * bestTime'[p]
        <3>1. CASE p \in new
            <4>1. /\ Remaining(source, u) <= 4000 * bestTime[u]
                  /\ Remaining(source, p) <= Remaining(source, u) + 4000 * Minutes(u, p)
                BY <1>1, <1>2, <1>3, <3>1, EstimateConsistent DEF SettledInv, TypeOK
            <4>2. Remaining(source, u) \in Nat /\ Remaining(source, p) \in Nat /\ Minutes(u, p) \in Nat
                BY <1>2, <1>3, <3>1, MinutesBound DEF TypeOK
            <4>3. bestTime'[p] = bestTime[u] + Minutes(u, p)
                BY <1>3, <3>1
            <4> QED
                BY <1>2, <4>1, <4>2, <4>3
        <3>2. CASE p \notin new
            BY <1>1, <1>3, <3>2 DEF SettledInv
        <3> QED
            BY <3>1, <3>2
    <2> QED
        BY <1>4, <2>2, <2>3, <2>4 DEF SettledInv, Minutes, Length, Joined, Remaining
<1>21. EndInv'
    BY <1>1, <1>2, <1>4, <1>13, <1>14 DEF EndInv
<1> QED
    BY <1>17, <1>18, <1>19, <1>20, <1>21 DEF SearchInv

LEMMA ExhaustedInv ==
    ASSUME TypeOK, SearchInv, Exhausted, roads' = roads
    PROVE  SearchInv'
<1>1. SourceInv /\ QueueInv /\ PreviousInv /\ SettledInv /\ EndInv
    BY DEF SearchInv, Exhausted
<1>2. openSet = {} /\ phase = "search"
      /\ UNCHANGED <<source, destination, bestTime, bestDistance, previous, openSet, roads>>
    BY DEF Exhausted
<1>3. destination \notin DOMAIN bestTime
    BY <1>1, <1>2 DEF EndInv, Settled
<1>4. \A p : Settled(p)' <=> Settled(p)
    BY <1>2 DEF Settled
<1>5. SourceInv' /\ QueueInv'
    BY <1>1, <1>2 DEF SourceInv, QueueInv
<1>6. PreviousInv'
    BY <1>1, <1>2, <1>4 DEF PreviousInv, Minutes, Length, Joined
<1>7. SettledInv'
    BY <1>1, <1>2, <1>4 DEF SettledInv, Minutes, Length, Joined, Remaining, Value, Estimate
<1>8. EndInv'
    BY <1>1, <1>2, <1>3 DEF EndInv, Exhausted
<1> QED
    BY <1>5, <1>6, <1>7, <1>8 DEF SearchInv

\* A step back along previous.
LEMMA TraceInv ==
    ASSUME TypeOK, SearchInv, Trace, roads' = roads
    PROVE  SearchInv'
<1>1. SourceInv /\ QueueInv /\ PreviousInv /\ SettledInv /\ EndInv
    BY DEF SearchInv, Trace
<1>2. phase = "trace"
      /\ UNCHANGED <<source, destination, bestTime, bestDistance, previous, openSet, roads>>
    BY DEF Trace
<1>3. /\ destination \in DOMAIN bestTime /\ Settled(destination)
      /\ Len(path) > 0 /\ path[Len(path)] = destination
      /\ \A i \in 1 .. Len(path) : path[i] \in DOMAIN bestTime
      /\ \A i \in 1 .. Len(path) - 1 :
            path[i + 1] \in DOMAIN previous /\ path[i] = previous[path[i + 1]]
    BY <1>1, <1>2 DEF EndInv
<1>4. \A p : Settled(p)' <=> Settled(p)
    BY <1>2 DEF Settled
<1>5. SourceInv' /\ QueueInv'
    BY <1>1, <1>2 DEF SourceInv, QueueInv
<1>6. PreviousInv'
    BY <1>1, <1>2, <1>4 DEF PreviousInv, Minutes, Length, Joined
<1>7. SettledInv'
    BY <1>1, <1>2, <1>4 DEF SettledInv, Minutes, Length, Joined, Remaining, Value, Estimate
<1>8. path \in Seq(Places) /\ Len(path) \in Nat /\ path # <<>> /\ Head(path) = path[1]
    BY <1>3 DEF TypeOK
<1>9. EndInv'
    <2>1. CASE Head(path) = source \/ Head(path) \notin DOMAIN previous
        <3>1. phase' = "done" /\ path' = path
            BY <2>1 DEF Trace
        <3>2. path[1] = source
            BY <1>1, <1>3, <1>8, <2>1 DEF PreviousInv
        <3> QED
            BY <1>2, <1>3, <1>4, <3>1, <3>2 DEF EndInv
    <2>2. CASE ~(Head(path) = source \/ Head(path) \notin DOMAIN previous)
        <3> DEFINE p == previous[Head(path)]
        <3>1. phase' = "trace" /\ path' = <<p>> \o path
            BY <1>2, <2>2 DEF Trace
        <3>2. Head(path) \in DOMAIN previous /\ p \in Places /\ p \in DOMAIN bestTime
            BY <1>1, <2>2 DEF PreviousInv, Settled, TypeOK
        <3> HIDE DEF p
        <3>3. <<p>> \in Seq(Places) /\ Len(<<p>>) = 1 /\ <<p>>[1] = p
            BY <3>2
        <3>4. /\ Len(path') = 1 + Len(path)
              /\ path'[1] = p
              /\ \A i \in 2 .. Len(path) + 1 : path'[i] = path[i - 1]
            BY <1>8, <3>1, <3>3, ConcatProperties
        <3>5. Len(path') > 0 /\ path'[Len(path')] = destination
            BY <1>3, <1>8, <3>4
        <3>6. \A i \in 1 .. Len(path') : path'[i] \in DOMAIN bestTime
            <4> SUFFICES ASSUME NEW i \in 1 .. Len(path') PROVE path'[i] \in DOMAIN bestTime
                OBVIOUS
            <4>1. CASE i = 1
                BY <3>2, <3>4, <4>1
            <4>2. CASE i # 1
                <5>1. i \in 2 .. Len(path) + 1 /\ i - 1 \in 1 .. Len(path)
                    BY <1>8, <3>4, <4>2
                <5> QED
                    BY <1>3, <3>4, <5>1
            <4> QED
                BY <4>1, <4>2
        <3>7. \A i \in 1 .. Len(path') - 1 :
                 path'[i + 1] \in DOMAIN previous /\ path'[i] = previous[path'[i + 1]]
            <4> SUFFICES ASSUME NEW i \in 1 .. Len(path') - 1
                         PROVE  path'[i + 1] \in DOMAIN previous
                                /\ path'[i] = previous[path'[i + 1]]
                OBVIOUS
            <4>1. CASE i = 1
                <5>1. path'[2] = path[1]
                    BY <1>3, <1>8, <3>4
                <5> QED
                    BY <1>8, <3>2, <3>4, <4>1, <5>1 DEF p
            <4>2. CASE i # 1
                <5>1. /\ i \in 2 .. Len(path) + 1 /\ i + 1 \in 2 .. Len(path) + 1
                      /\ i - 1 \in 1 .. Len(path) - 1
                      /\ (i + 1) - 1 = (i - 1) + 1
                    BY <1>8, <3>4, <4>2
                <5>2. path'[i] = path[i - 1] /\ path'[i + 1] = path[(i - 1) + 1]
                    BY <3>4, <5>1
                <5> QED
                    BY <1>3, <5>1, <5>2
            <4> QED
                BY <4>1, <4>2
        <3> QED
            BY <1>2, <1>3, <1>4, <3>1, <3>5, <3>6, <3>7 DEF EndInv
    <2> QED
        BY <2>1, <2>2
<1> QED
    BY <1>5, <1>6, <1>7, <1>9 DEF SearchInv

LEMMA SearchStepInv == ASSUME TypeOK, SearchInv, SearchStep PROVE SearchInv'
BY DropStaleInv, ReachDestinationInv, ExpandInv, ExhaustedInv, TraceInv DEF SearchStep

\* A step that leaves the search alone.
LEMMA SearchStutter == ASSUME SearchInv, UNCHANGED <<roads, searchVars>> PROVE SearchInv'
<1>1. \A p : Settled(p)' <=> Settled(p)
    BY DEF Settled, searchVars
<1> QED
    BY <1>1 DEF SearchInv, SourceInv, QueueInv, PreviousInv, SettledInv, EndInv,
        searchVars, Minutes, Length, Joined, Remaining, Value, Estimate

-----------------------------------------------------------------------------
(* What is settled stays *)

\* One step of the search leaves every settled place as it is.
LEMMA SettledStays ==
    ASSUME TypeOK, SearchInv, SearchStep, phase = "search",
           NEW p \in DOMAIN bestTime, Settled(p)
    PROVE  /\ Settled(p)'
           /\ bestTime'[p] = bestTime[p] /\ bestDistance'[p] = bestDistance[p]
           /\ p \in DOMAIN previous => previous'[p] = previous[p]
<1>1. ASSUME NEW e \in openSet, Expand(e)
      PROVE  /\ Settled(p)'
             /\ bestTime'[p] = bestTime[p] /\ bestDistance'[p] = bestDistance[p]
             /\ p \in DOMAIN previous => previous'[p] = previous[p]
    <2>1. e.at \in DOMAIN bestTime /\ roads' = roads
        BY DEF SearchInv, QueueInv, SearchStep
    <2>2. p \notin Improved(e)
        BY <1>1, SettledNotImproved
    <2>3. /\ p \in DOMAIN bestTime' /\ bestTime'[p] = bestTime[p]
          /\ bestDistance'[p] = bestDistance[p]
          /\ p \in DOMAIN previous => previous'[p] = previous[p]
          /\ openSet' = (openSet \ {e}) \cup
                           {[at |-> v, time |-> bestTime'[v]] : v \in Improved(e)}
        BY <1>1, <2>1, <2>2, AfterExpand
    <2>4. [at |-> p, time |-> bestTime[p]] \notin
              {[at |-> v, time |-> bestTime'[v]] : v \in Improved(e)}
        BY <2>2
    <2> QED
        BY <2>3, <2>4 DEF Settled
<1>2. CASE UNCHANGED <<bestTime, bestDistance, previous>> /\ openSet' \subseteq openSet
    BY <1>2 DEF Settled
<1> QED
    BY <1>1, <1>2 DEF SearchStep, DropStale, ReachDestination, Exhausted, Trace

\* A place that is reached anew has nothing reached from it yet, so it can be
\* numbered after the place it is reached from.
LEMMA OrderStep ==
    ASSUME TypeOK, SearchInv, phase # "idle", OrderInv, SearchStep
    PROVE  OrderInv'
<1>1. ASSUME NEW e \in openSet, Expand(e) PROVE OrderInv'
    <2> DEFINE u == e.at
               new == Improved(e)
    <2>1. u \in DOMAIN bestTime /\ u \in Places /\ roads' = roads
        BY EntryTypes DEF SearchInv, QueueInv, SearchStep
    <2>2. /\ new \subseteq Places
          /\ DOMAIN previous' = DOMAIN previous \cup new
          /\ \A p \in DOMAIN previous \ new : previous'[p] = previous[p]
          /\ \A v \in new : previous'[v] = u
        BY <1>1, <2>1, AfterExpand
    <2>3. u \notin new /\ \A p \in DOMAIN bestTime : Settled(p) => p \notin new
        BY <1>1, SettledNotImproved
    <2>4. \A p \in DOMAIN previous : /\ p \in Places /\ previous[p] \in Places
                                     /\ previous[p] \notin new
        BY <2>3 DEF SearchInv, PreviousInv, Settled, TypeOK
    <2>5. PICK rank \in [Places -> Nat] : \A p \in DOMAIN previous : rank[previous[p]] < rank[p]
        BY DEF OrderInv
    <2> DEFINE after == [p \in Places |-> IF p \in new THEN rank[u] + 1 ELSE rank[p]]
    <2> HIDE DEF u, new
    <2>6. after \in [Places -> Nat]
        BY <2>1, <2>5
    <2>7. /\ \A p \in Places \ new : after[p] = rank[p]
          /\ \A p \in new : after[p] = rank[u] + 1
        BY <2>2
    <2> HIDE DEF after
    <2>8. ASSUME NEW p \in DOMAIN previous' PROVE after[previous'[p]] < after[p]
        <3>1. CASE p \in new
            <4>1. previous'[p] = u /\ after[u] = rank[u] /\ after[p] = rank[u] + 1
                  /\ rank[u] \in Nat
                BY <2>1, <2>2, <2>3, <2>5, <2>7, <3>1
            <4> QED
                BY <4>1
        <3>2. CASE p \notin new
            <4>1. p \in DOMAIN previous /\ previous'[p] = previous[p]
                BY <2>2, <3>2
            <4>2. after[previous[p]] = rank[previous[p]] /\ after[p] = rank[p]
                BY <2>4, <2>7, <3>2, <4>1
            <4> QED
                BY <2>5, <4>1, <4>2
        <3> QED
            BY <3>1, <3>2
    <2> QED
        BY <2>6, <2>8 DEF OrderInv
<1>2. CASE previous' = previous
    BY <1>2 DEF OrderInv
<1> QED
    BY <1>1, <1>2 DEF SearchStep, DropStale, ReachDestination, Exhausted, Trace

\* So the way back meets no place twice: the numbers rise along it.
LEMMA PathIsSimple ==
    ASSUME TypeOK, SearchInv, OrderInv, phase \in {"trace", "done"}
    PROVE  \A i, j \in 1 .. Len(path) : path[i] = path[j] => i = j
<1>1. path \in Seq(Places) /\ Len(path) \in Nat
      /\ \A i \in 1 .. Len(path) : path[i] \in Places
    BY DEF TypeOK
<1>2. CASE destination \in DOMAIN bestTime
    <2>1. \A i \in 1 .. Len(path) - 1 :
             path[i + 1] \in DOMAIN previous /\ path[i] = previous[path[i + 1]]
        BY <1>2 DEF SearchInv, EndInv
    <2>2. PICK rank \in [Places -> Nat] : \A p \in DOMAIN previous : rank[previous[p]] < rank[p]
        BY DEF OrderInv
    <2>3. ASSUME NEW i \in 1 .. Len(path), NEW j \in 1 .. Len(path), i < j
          PROVE  rank[path[i]] < rank[path[j]]
        <3> DEFINE T == {k \in i + 1 .. Len(path) : ~(rank[path[i]] < rank[path[k]])}
        <3> SUFFICES ASSUME T # {} PROVE FALSE
            BY <1>1, <2>3
        <3>1. T \subseteq Nat
            BY <1>1
        <3> HIDE DEF T
        <3>2. PICK k \in T : \A m \in T : k <= m
            BY <3>1, LeastExists
        <3>3. k \in i + 1 .. Len(path) /\ ~(rank[path[i]] < rank[path[k]])
            BY DEF T
        <3>4. k - 1 \in 1 .. Len(path) - 1 /\ k - 1 \in 1 .. Len(path)
              /\ k \in 1 .. Len(path) /\ (k - 1) + 1 = k
            BY <1>1, <3>3
        <3>5. rank[path[k - 1]] < rank[path[k]]
            BY <2>1, <2>2, <3>4
        <3>6. rank[path[i]] \in Nat /\ rank[path[k - 1]] \in Nat /\ rank[path[k]] \in Nat
            BY <1>1, <2>2, <3>4
        <3>7. k - 1 # i
            BY <3>3, <3>5
        <3>8. k - 1 \in i + 1 .. Len(path) /\ k - 1 \notin T
            BY <1>1, <3>2, <3>3, <3>7
        <3>9. rank[path[i]] < rank[path[k - 1]]
            BY <3>8 DEF T
        <3> QED
            BY <3>3, <3>5, <3>6, <3>9
    <2> SUFFICES ASSUME NEW i \in 1 .. Len(path), NEW j \in 1 .. Len(path),
                        path[i] = path[j], i # j
                 PROVE  FALSE
        OBVIOUS
    <2>4. i < j \/ j < i
        BY <1>1
    <2>5. rank[path[i]] \in Nat
        BY <1>1, <2>2
    <2> QED
        BY <2>3, <2>4, <2>5
\* Without a route nothing is followed back.
<1>3. CASE destination \notin DOMAIN bestTime
    <2>1. path = <<>>
        BY <1>3 DEF SearchInv, EndInv
    <2> QED
        BY <2>1
<1> QED
    BY <1>2, <1>3

-----------------------------------------------------------------------------
(* How a search begins *)

\* findShortestRoute begins with its source in the queue and nothing else.
LEMMA BeginInv ==
    ASSUME NEW a \in Places, NEW b \in Places, Begin(a, b)
    PROVE  SearchInv'
<1>1. /\ source' = a /\ destination' = b /\ phase' = "search"
      /\ DOMAIN bestTime' = {a} /\ bestTime'[a] = 0 /\ bestDistance'[a] = 0
      /\ DOMAIN previous' = {}
      /\ openSet' = {[at |-> a, time |-> 0]} /\ path' = <<>>
    BY DEF Begin, Only
<1>2. \A p : ~Settled(p)'
    BY <1>1 DEF Settled
<1>3. SourceInv' /\ QueueInv' /\ PreviousInv'
    BY <1>1 DEF SourceInv, QueueInv, PreviousInv
<1>4. SettledInv'
    <2>1. Remaining(a, a) = 0
        BY EstimateConsistent
    <2> QED
        BY <1>1, <1>2, <2>1 DEF SettledInv, Remaining
<1>5. EndInv'
    BY <1>1, <1>2 DEF EndInv
<1> QED
    BY <1>3, <1>4, <1>5 DEF SearchInv

\* Before anything is reached there is nothing to number.
LEMMA NothingToOrder == ASSUME previous = [p \in {} |-> p] PROVE OrderInv
<1>1. [p \in Places |-> 0] \in [Places -> Nat] /\ DOMAIN previous = {}
    OBVIOUS
<1> QED
    BY ONLY <1>1 DEF OrderInv

LEMMA BeginOrder == ASSUME NEW a, NEW b, Begin(a, b) PROVE OrderInv'
<1>1. [p \in Places |-> 0] \in [Places -> Nat] /\ DOMAIN previous' = {}
    BY DEF Begin
<1> QED
    BY ONLY <1>1 DEF OrderInv

LEMMA BeginTypeOK ==
    ASSUME TypeOK, NEW a \in Places, NEW b \in Places, Begin(a, b), roads' = roads
    PROVE  TypeOK'
<1>1. /\ bestTime' \in [{a} -> Nat] /\ DOMAIN bestTime' = {a}
      /\ bestDistance' \in [{a} -> Nat]
      /\ DOMAIN previous' = {} /\ previous' \in [{} -> Places]
    BY DEF Begin, Only
<1>2. openSet' \subseteq Entries
    BY DEF Begin, Entries
<1>3. path' \in Seq(Places)
    BY DEF Begin
<1> QED
    BY <1>1, <1>2, <1>3 DEF Begin, TypeOK

\* Before the first search.
LEMMA IdleTypeOK ==
    ASSUME GraphInit, source \in Places, destination \in Places,
           bestTime = Only(source, 0), bestDistance = Only(source, 0),
           previous = [p \in {} |-> p], openSet = {}, path = <<>>, phase = "idle"
    PROVE  TypeOK
<1>1. roads \subseteq Places \X Places
    <2>1. PICK calls \in RoadCalls : roads = AddCampusRoads(calls)
        BY DEF GraphInit
    <2> QED
        BY <2>1, RoadsAssumption DEF AddCampusRoads
<1>2. /\ DOMAIN bestTime = {source} /\ bestTime \in [{source} -> Nat]
      /\ bestDistance \in [{source} -> Nat]
      /\ DOMAIN previous = {} /\ previous \in [{} -> Places]
    BY DEF Only
<1> QED
    BY <1>1, <1>2 DEF TypeOK

-----------------------------------------------------------------------------
(* What the answer of a search is worth *)

LEMMA AnswerIsPath == ASSUME TypeOK, SearchInv PROVE PathMatchesTotals
<1> SUFFICES ASSUME Finished, isFound
             PROVE  /\ Head(path) = source /\ path[Len(path)] = destination
                    /\ \A i \in 1 .. Len(path) - 1 :
                          /\ Joined(path[i], path[i + 1])
                          /\ bestTime[path[i + 1]] =
                                bestTime[path[i]] + Minutes(path[i], path[i + 1])
                          /\ bestDistance[path[i + 1]] =
                                bestDistance[path[i]] + Length(path[i], path[i + 1])
    BY DEF PathMatchesTotals
<1>1. PreviousInv /\ EndInv /\ phase = "done" /\ destination \in DOMAIN bestTime
    BY DEF SearchInv, Finished, isFound
<1>2. /\ Len(path) > 0 /\ path[Len(path)] = destination /\ path[1] = source
      /\ \A i \in 1 .. Len(path) - 1 :
            path[i + 1] \in DOMAIN previous /\ path[i] = previous[path[i + 1]]
    BY <1>1 DEF EndInv
<1>3. Head(path) = path[1]
    BY <1>2 DEF TypeOK
<1> QED
    BY <1>1, <1>2, <1>3 DEF PreviousInv

\* A place that is worth less than the answer is settled, so its neighbours were
\* reached from it; every other place is held up by the estimate alone.
LEMMA AnswerIsCertified == ASSUME TypeOK, SearchInv PROVE Certified
<1> SUFFICES ASSUME Finished
             PROVE  IF isFound
                    THEN /\ Potential(source) = 0
                         /\ Potential(destination) = 4000 * totalTimeMinutes
                         /\ \A u, v \in Places : Joined(u, v) =>
                               Potential(v) <= Potential(u) + 4000 * Minutes(u, v)
                    ELSE \A u \in DOMAIN bestTime, v \in Places :
                            Joined(u, v) => v \in DOMAIN bestTime
    BY DEF Certified
<1>1. SourceInv /\ QueueInv /\ PreviousInv /\ SettledInv /\ EndInv /\ phase = "done"
    BY DEF SearchInv, Finished
<1>2. /\ source \in Places /\ destination \in Places
      /\ \A p \in DOMAIN bestTime : p \in Places /\ bestTime[p] \in Nat
      /\ \A p \in Places : Remaining(p, destination) \in Nat
    BY MinutesBound DEF TypeOK
<1>3. CASE isFound
    <2> DEFINE T == bestTime[destination]
               Bound(p) == 4000 * T - Remaining(p, destination)
    <2>1. Settled(destination) /\ T \in Nat /\ destination \in DOMAIN bestTime
        BY <1>1, <1>2, <1>3 DEF EndInv, isFound
    <2>2. Remaining(destination, destination) = 0
        BY <1>2, EstimateConsistent
    <2>3. \A f \in openSet : 4000 * T <= Estimate(f)
        BY <1>1, <2>1, <2>2 DEF SettledInv, Value
    <2>4. \A p : Potential(p) = IF p \in DOMAIN bestTime
                                THEN Lower(4000 * bestTime[p], Bound(p)) ELSE Bound(p)
        BY DEF Potential, totalTimeMinutes
    <2>5. Potential(source) = 0
        <3>1. Remaining(source, destination) <= 4000 * T
            BY <1>1, <2>1 DEF SettledInv
        <3>2. source \in DOMAIN bestTime /\ bestTime[source] = 0
            BY <1>1 DEF SourceInv
        <3>3. Bound(source) >= 0 /\ Bound(source) \in Int
            BY <1>2, <2>1, <3>1
        <3> QED
            BY <2>4, <3>2, <3>3 DEF Lower
    <2>6. Potential(destination) = 4000 * T
        BY <2>1, <2>2, <2>4 DEF Lower
    <2>7. ASSUME NEW u \in Places, NEW v \in Places, Joined(u, v)
          PROVE  Potential(v) <= Potential(u) + 4000 * Minutes(u, v)
        <3> DEFINE m == Minutes(u, v)
        <3>1. m \in Nat /\ Remaining(u, destination) <= 4000 * m + Remaining(v, destination)
            BY <1>2, MinutesBound, EstimateConsistent
        <3>2. Bound(v) \in Int /\ Bound(u) \in Int /\ Bound(v) <= Bound(u) + 4000 * m
            BY <1>2, <2>1, <3>1
        <3>3. Potential(v) <= Bound(v) /\ Potential(v) \in Int
            BY <1>2, <2>4, <3>2 DEF Lower
        <3>4. CASE Potential(u) = Bound(u)
            BY <3>1, <3>2, <3>3, <3>4
        <3>5. CASE Potential(u) # Bound(u)
            <4>1. u \in DOMAIN bestTime /\ Potential(u) = 4000 * bestTime[u]
                  /\ 4000 * bestTime[u] < Bound(u) /\ bestTime[u] \in Nat
                BY <1>2, <2>4, <3>2, <3>5 DEF Lower
            <4>2. Settled(u)
                <5> SUFFICES ASSUME [at |-> u, time |-> bestTime[u]] \in openSet PROVE FALSE
                    BY <4>1 DEF Settled
                <5>1. 4000 * T <= 4000 * bestTime[u] + Remaining(u, destination)
                    BY <2>3 DEF Estimate
                <5> QED
                    BY <1>2, <2>1, <4>1, <5>1
            <4>3. u # destination
                BY <2>2, <2>1, <4>1
            <4>4. v \in DOMAIN bestTime /\ bestTime[v] <= bestTime[u] + m
                BY <1>1, <2>7, <4>1, <4>2, <4>3 DEF SettledInv
            <4>5. Potential(v) <= 4000 * bestTime[v] /\ bestTime[v] \in Nat
                BY <1>2, <2>4, <3>2, <4>4 DEF Lower
            <4> QED
                BY <3>1, <3>3, <4>1, <4>4, <4>5
        <3> QED
            BY <3>4, <3>5
    <2> QED
        BY <1>3, <2>5, <2>6, <2>7 DEF totalTimeMinutes
<1>4. CASE ~isFound
    <2>1. openSet = {} /\ destination \notin DOMAIN bestTime
        BY <1>1, <1>4 DEF EndInv, isFound
    <2>2. \A u \in DOMAIN bestTime : Settled(u) /\ u # destination
        BY <2>1 DEF Settled
    <2>3. \A u \in DOMAIN bestTime, v \in Places : Joined(u, v) => v \in DOMAIN bestTime
        BY <1>1, <2>2 DEF SettledInv
    <2> QED
        BY <1>4, <2>3
<1> QED
    BY <1>3, <1>4

\* The path is a way, and the potential of the certificate bounds all others.
LEMMA AnswerIsFastest == ASSUME TypeOK, SearchInv, GraphInit PROVE FastestRoute
<1> SUFFICES ASSUME Finished
             PROVE  IF isFound THEN totalTimeMinutes = Within(source, destination)
                    ELSE Within(source, destination) = -1
    BY DEF FastestRoute
<1>1. Certified /\ PathMatchesTotals /\ SourceInv /\ EndInv
    BY AnswerIsCertified, AnswerIsPath DEF SearchInv, Finished
<1>2. /\ source \in Places /\ destination \in Places
      /\ roads \in {AddCampusRoads(calls) : calls \in RoadCalls}
      /\ \A p \in DOMAIN bestTime : p \in Places /\ bestTime[p] \in Nat
    BY DEF TypeOK, GraphInit
<1> DEFINE W == Within(source, destination)
<1>3. \/ /\ W = -1
         /\ ~ \E n, w, t : Way(roads, n, w, t) /\ w[1] = source /\ w[n] = destination
      \/ /\ W \in Nat
         /\ \E n, w, t : Way(roads, n, w, t) /\ w[1] = source /\ w[n] = destination /\ t[n] = W
         /\ \A n, w, t : Way(roads, n, w, t) /\ w[1] = source /\ w[n] = destination => W <= t[n]
    BY <1>2, FastestIsLeast DEF Within
<1> HIDE DEF W
<1>4. CASE isFound
    <2> DEFINE n == Len(path)
               t == [i \in 1 .. n |-> bestTime[path[i]]]
               T == bestTime[destination]
    <2>1. /\ Len(path) > 0 /\ path[Len(path)] = destination /\ path[1] = source
          /\ \A i \in 1 .. Len(path) : path[i] \in DOMAIN bestTime
        BY <1>1, <1>4 DEF EndInv, Finished, isFound
    <2>2. /\ n \in Nat \ {0} /\ path \in [1 .. n -> Places]
          /\ t \in [1 .. n -> Nat] /\ t[1] = 0 /\ t[n] = T /\ T \in Nat
        <3>1. path \in Seq(Places)
            BY DEF TypeOK
        <3>2. n \in Nat \ {0} /\ path \in [1 .. n -> Places] /\ 1 \in 1 .. n /\ n \in 1 .. n
            BY <2>1, <3>1
        <3>3. \A i \in 1 .. n : bestTime[path[i]] \in Nat
            BY <1>2, <2>1
        <3>4. bestTime[path[1]] = 0 /\ bestTime[path[n]] = T
            BY <1>1, <2>1 DEF SourceInv
        <3> HIDE DEF n
        <3> QED
            BY <3>2, <3>3, <3>4
    <2>3. ASSUME NEW i \in 1 .. n - 1
          PROVE  /\ <<path[i], path[i + 1]>> \in roads \/ <<path[i + 1], path[i]>> \in roads
                 /\ t[i + 1] = t[i] + Minutes(path[i], path[i + 1])
        <3>1. i \in 1 .. n /\ i + 1 \in 1 .. n
            BY <2>2
        <3>2. /\ Joined(path[i], path[i + 1])
              /\ bestTime[path[i + 1]] = bestTime[path[i]] + Minutes(path[i], path[i + 1])
            BY <1>1, <1>4 DEF PathMatchesTotals
        <3> QED
            BY <3>1, <3>2 DEF Joined
    <2>4. Way(roads, n, path, t)
        <3> HIDE DEF n, t
        <3> QED
            BY <2>2, <2>3 DEF Way
    <2> HIDE DEF n, t
    <2>5. W \in Nat /\ W <= T
        BY <1>3, <2>1, <2>2, <2>4 DEF n
    <2>6. PICK m, x, s : Way(roads, m, x, s) /\ x[1] = source /\ x[m] = destination /\ s[m] = W
        BY <1>3, <2>5
    <2> DEFINE P == [p \in Places |-> Potential(p)]
    <2>7. P \in [Places -> Int] /\ P[source] = 0 /\ P[destination] = 4000 * T
        <3>1. \A p \in Places : Potential(p) \in Int
            <4>1. \A p \in Places : Remaining(p, destination) \in Nat
                BY <1>2, MinutesBound
            <4> QED
                BY <1>2, <2>2, <4>1 DEF Potential, Lower, totalTimeMinutes
        <3> QED
            BY <1>1, <1>2, <1>4, <3>1 DEF Certified, totalTimeMinutes
    <2>8. \A u, v \in Places : <<u, v>> \in roads \/ <<v, u>> \in roads =>
             P[v] <= P[u] + 4000 * Minutes(u, v)
        BY <1>1, <1>4 DEF Certified, Joined
    <2> HIDE DEF P
    <2>9. P[x[m]] <= 4000 * s[m]
        BY <2>6, <2>7, <2>8, PotentialBounds
    <2>10. T <= W
        BY <2>2, <2>5, <2>6, <2>7, <2>9
    <2> QED
        BY <1>4, <2>2, <2>5, <2>10 DEF W, totalTimeMinutes
<1>5. CASE ~isFound
    <2>1. source \in DOMAIN bestTime /\ destination \notin DOMAIN bestTime
        BY <1>1, <1>5 DEF SourceInv, isFound
    <2>2. \A u \in DOMAIN bestTime, v \in Places :
             <<u, v>> \in roads \/ <<v, u>> \in roads => v \in DOMAIN bestTime
        BY <1>1, <1>5 DEF Certified, Joined
    <2>3. ASSUME NEW n, NEW w, NEW t, Way(roads, n, w, t), w[1] = source, w[n] = destination
          PROVE  FALSE
        BY <2>1, <2>2, <2>3, WayStaysWithin
    <2>4. W = -1
        BY <1>3, <2>3
    <2> QED
        BY <1>5, <2>4 DEF W
<1> QED
    BY <1>4, <1>5
=============================================================================
