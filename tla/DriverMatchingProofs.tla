------------------------ MODULE DriverMatchingProofs ------------------------
(***************************************************************************)
(* Proofs about DriverMatching, for any fleet and any maxDrivers: the heap *)
(* holds the nearest of the drivers looked at, and what is returned are    *)
(* the nearest of all, nearest first.                                      *)
(***************************************************************************)
EXTENDS DriverMatching, FiniteSetTheorems, SequenceTheorems, TLAPS

Looked == {i \in AllEligible : i < next}

TypeInv ==
    /\ fleet \in Seq(Views)
    /\ maxDrivers \in Nat
    /\ next \in 1 .. Len(fleet) + 1
    /\ topK \subseteq AllEligible
    /\ nearest \in Seq(AllEligible)
    /\ phase \in {"scan", "drain", "done"}

ScanInv ==
    phase = "scan" =>
        /\ maxDrivers > 0
        /\ nearest = <<>>
        /\ IsNearest(topK, Looked, EtaAt, maxDrivers)

\* What has left the heap is farther than what is in it, and in order.
DrainInv ==
    phase = "drain" =>
        /\ IsNearest(topK \cup Elements(nearest), AllEligible, EtaAt, maxDrivers)
        /\ topK \cap Elements(nearest) = {}
        /\ Len(nearest) = Cardinality(Elements(nearest))
        /\ \A t \in topK, i \in 1 .. Len(nearest) : EtaAt[t] <= EtaAt[nearest[i]]
        /\ \A i, j \in 1 .. Len(nearest) : i < j => EtaAt[nearest[j]] <= EtaAt[nearest[i]]

IInv == TypeInv /\ ScanInv /\ DrainInv /\ ReturnsNearest

-----------------------------------------------------------------------------
(* The k nearest of a set *)

\* A choice of k nearest that is short of k takes in another candidate.
LEMMA NearestGrows ==
    ASSUME NEW C, IsFiniteSet(C), NEW S, NEW eta, NEW k \in Nat, NEW c, c \notin C,
           IsNearest(S, C, eta, k), Cardinality(S) < k
    PROVE  IsNearest(S \cup {c}, C \cup {c}, eta, k)
<1>1. S \in SUBSET C /\ Cardinality(C) \in Nat
    BY FS_CardinalityType DEF IsNearest
<1>2. Cardinality(S) = Cardinality(C) /\ Cardinality(C) < k
    BY <1>1 DEF IsNearest
<1>3. S = C
    BY <1>1, <1>2, FS_Subset
<1>4. Cardinality(C \cup {c}) = Cardinality(C) + 1
    BY FS_AddElement
<1> QED
    BY <1>1, <1>2, <1>3, <1>4 DEF IsNearest

\* A full choice gives its farthest up for a strictly nearer candidate, and only then.
LEMMA NearestReplaced ==
    ASSUME NEW C, IsFiniteSet(C), NEW S, NEW eta, NEW k \in Nat, NEW c, c \notin C,
           \A x \in C \cup {c} : eta[x] \in Nat,
           IsNearest(S, C, eta, k), Cardinality(S) >= k,
           NEW top \in S, \A s \in S : eta[s] <= eta[top]
    PROVE  IsNearest(IF eta[c] < eta[top] THEN (S \ {top}) \cup {c} ELSE S,
                     C \cup {c}, eta, k)
<1>1. S \subseteq C /\ IsFiniteSet(S) /\ Cardinality(C) \in Nat /\ Cardinality(S) \in Nat
    BY FS_Subset, FS_CardinalityType DEF IsNearest
<1>2. Cardinality(S) = k /\ k <= Cardinality(C)
    BY <1>1 DEF IsNearest
<1>3. Cardinality(C \cup {c}) = Cardinality(C) + 1
    BY FS_AddElement
<1>4. \A s \in S, x \in C \ S : eta[s] <= eta[x]
    BY DEF IsNearest
<1>5. CASE eta[c] < eta[top]
    <2> DEFINE T == (S \ {top}) \cup {c}
    <2>1. T \subseteq C \cup {c}
        BY <1>1
    <2>2. Cardinality(T) = k
        <3>1. IsFiniteSet(S \ {top}) /\ Cardinality(S \ {top}) = k - 1
            BY <1>1, <1>2, FS_RemoveElement
        <3>2. c \notin S \ {top}
            BY <1>1
        <3>3. Cardinality((S \ {top}) \cup {c}) = Cardinality(S \ {top}) + 1
            BY <3>1, <3>2, FS_AddElement
        <3> QED
            BY <3>1, <3>3
    <2>3. ASSUME NEW s \in T, NEW x \in (C \cup {c}) \ T PROVE eta[s] <= eta[x]
        <3>1. x = top \/ x \in C \ S
            BY <2>3
        <3>2. s = c \/ s \in S
            BY <2>3
        <3>3. eta[s] <= eta[top] /\ eta[s] \in Nat /\ eta[x] \in Nat /\ eta[top] \in Nat
            BY <1>1, <1>5, <2>1, <2>3, <3>2
        <3>4. x \in C \ S => eta[top] <= eta[x]
            BY <1>4
        <3> QED
            BY <3>1, <3>3, <3>4
    <2> HIDE DEF T
    <2>4. IsNearest(T, C \cup {c}, eta, k)
        BY <1>1, <1>2, <1>3, <2>1, <2>2, <2>3 DEF IsNearest
    <2> QED
        BY <1>5, <2>4 DEF T
<1>6. CASE ~(eta[c] < eta[top])
    <2>1. ASSUME NEW s \in S, NEW x \in (C \cup {c}) \ S PROVE eta[s] <= eta[x]
        <3>1. CASE x = c
            BY <1>1, <1>6, <3>1
        <3>2. CASE x \in C \ S
            BY <1>4, <3>2
        <3> QED
            BY <2>1, <3>1, <3>2
    <2> QED
        BY <1>1, <1>2, <1>3, <1>6, <2>1 DEF IsNearest
<1> QED
    BY <1>5, <1>6

\* Fewer than k candidates are strictly nearer than one of k nearest.
LEMMA NearestAreNear ==
    ASSUME NEW C, IsFiniteSet(C), NEW S, NEW eta, NEW k \in Nat,
           \A x \in C : eta[x] \in Nat,
           IsNearest(S, C, eta, k)
    PROVE  S \subseteq NearEnough(C, eta, k)
<1> SUFFICES ASSUME NEW s \in S PROVE s \in NearEnough(C, eta, k)
    OBVIOUS
<1> DEFINE nearer == {e \in C : eta[e] < eta[s]}
<1>1. S \subseteq C /\ IsFiniteSet(S) /\ Cardinality(S) \in Nat /\ Cardinality(S) <= k
    BY FS_Subset, FS_CardinalityType DEF IsNearest
<1>2. nearer \subseteq S \ {s}
    BY <1>1 DEF IsNearest
<1>3. IsFiniteSet(S \ {s}) /\ Cardinality(S \ {s}) = Cardinality(S) - 1
    BY <1>1, FS_RemoveElement
<1>4. Cardinality(nearer) <= Cardinality(S) - 1 /\ Cardinality(nearer) \in Nat
    BY <1>2, <1>3, FS_Subset, FS_CardinalityType
<1> QED
    BY <1>1, <1>4 DEF NearEnough

-----------------------------------------------------------------------------
(* The fleet *)

LEMMA Fleet ==
    ASSUME TypeInv
    PROVE  /\ Len(fleet) \in Nat
           /\ IsFiniteSet(AllEligible) /\ AllEligible \subseteq 1 .. Len(fleet)
           /\ \A i \in AllEligible : EtaAt[i] \in Nat
           /\ \A i \in 1 .. Len(fleet) : EtaAt[i] = fleet[i].eta /\ (Eligible(i) <=> i \in AllEligible)
           /\ IsFiniteSet(Looked)
<1>1. Len(fleet) \in Nat /\ AllEligible \subseteq 1 .. Len(fleet)
    BY DEF TypeInv, AllEligible
<1>2. IsFiniteSet(1 .. Len(fleet))
    BY <1>1, FS_Interval
<1>3. IsFiniteSet(AllEligible) /\ IsFiniteSet(Looked)
    BY <1>1, <1>2, FS_Subset DEF Looked
<1>4. \A i \in 1 .. Len(fleet) :
         EtaAt[i] = fleet[i].eta /\ (Eligible(i) <=> i \in AllEligible) /\ fleet[i] \in Views
    BY DEF EtaAt, Eligible, AllEligible, TypeInv
<1>5. \A i \in AllEligible : EtaAt[i] \in Nat
    BY <1>1, <1>4 DEF AllEligible, Views
<1> QED
    BY <1>1, <1>3, <1>4, <1>5

\* The driver that the loop looks at joins those looked at, if he is eligible.
LEMMA LookedNext ==
    ASSUME TypeInv, next' = next + 1, UNCHANGED <<fleet>>, next <= Len(fleet)
    PROVE  /\ next \notin Looked
           /\ Looked' = IF Eligible(next) THEN Looked \cup {next} ELSE Looked
<1>1. AllEligible' = AllEligible
    BY DEF AllEligible
<1>2. next \in 1 .. Len(fleet) /\ \A i \in AllEligible : i \in Nat
    BY Fleet DEF TypeInv
<1>3. Eligible(next) <=> next \in AllEligible
    BY <1>2, Fleet
<1>4. \A i \in AllEligible : i < next + 1 <=> i < next \/ i = next
    BY <1>2 DEF TypeInv
<1> QED
    BY <1>1, <1>2, <1>3, <1>4 DEF Looked

-----------------------------------------------------------------------------
(* The invariant *)

LEMMA InitIInv == ASSUME Limits \subseteq Nat, Init PROVE IInv
<1>1. maxDrivers \in Nat /\ fleet \in Seq(Views) /\ Len(fleet) \in Nat
    BY DEF Init
<1>2. TypeInv
    BY <1>1 DEF Init, TypeInv
<1>3. Looked = {}
    BY <1>2, Fleet DEF Init, Looked
<1>4. Cardinality({}) = 0 /\ IsFiniteSet({})
    BY FS_EmptySet
<1>5. ScanInv
    BY <1>1, <1>3, <1>4 DEF Init, ScanInv, IsNearest
<1>6. DrainInv
    BY DEF Init, DrainInv
<1>7. ReturnsNearest
    <2> SUFFICES ASSUME phase = "done" PROVE ReturnsNearest
        BY DEF ReturnsNearest
    <2>1. maxDrivers = 0 /\ nearest = <<>>
        BY DEF Init
    <2>2. Len(nearest) = 0 /\ Elements(nearest) = {}
        BY <2>1 DEF Elements
    <2>3. Cardinality(AllEligible) \in Nat
        BY <1>2, Fleet, FS_CardinalityType
    <2>4. IsNearest({}, AllEligible, EtaAt, 0)
        BY <1>4, <2>3 DEF IsNearest
    <2> QED
        BY <1>4, <2>1, <2>2, <2>4 DEF ReturnsNearest
<1> QED
    BY <1>2, <1>5, <1>6, <1>7 DEF IInv

LEMMA Unmoved ==
    ASSUME UNCHANGED fleet
    PROVE  AllEligible' = AllEligible /\ EtaAt' = EtaAt
BY DEF AllEligible, EtaAt

LEMMA ScanStepInv ==
    ASSUME IInv, Skip \/ Push \/ Replace
    PROVE  IInv'
<1>1. /\ phase = "scan" /\ next <= Len(fleet) /\ next' = next + 1
      /\ UNCHANGED <<fleet, maxDrivers, nearest, phase>>
    BY DEF Skip, Push, Replace, Scanning, Advance
<1>2. TypeInv /\ IsNearest(topK, Looked, EtaAt, maxDrivers) /\ maxDrivers \in Nat
      /\ next \in 1 .. Len(fleet)
    BY <1>1 DEF IInv, ScanInv, TypeInv
<1>3. AllEligible' = AllEligible /\ EtaAt' = EtaAt
    BY <1>1, Unmoved
<1>4. next \notin Looked /\ Looked' = IF Eligible(next) THEN Looked \cup {next} ELSE Looked
    BY <1>1, <1>2, LookedNext
<1>5. Looked \subseteq AllEligible /\ IsFiniteSet(Looked)
      /\ \A x \in AllEligible : EtaAt[x] \in Nat
    BY <1>2, Fleet DEF Looked
<1>6. Eligible(next) => next \in AllEligible
    BY <1>2, Fleet
<1>7. IsNearest(topK', Looked', EtaAt, maxDrivers)
    <2>1. CASE Skip
        BY <1>2, <1>4, <2>1 DEF Skip
    <2>2. CASE Push
        BY <1>2, <1>4, <1>5, <2>2, NearestGrows DEF Push
    <2>3. CASE Replace
        <3>1. PICK top \in topK :
                 /\ \A j \in topK : fleet[j].eta <= fleet[top].eta
                 /\ topK' = IF Nearer(next, top) THEN (topK \ {top}) \cup {next} ELSE topK
            BY <2>3 DEF Replace, Farthest
        <3>2. \A j \in topK : EtaAt[j] = fleet[j].eta
            BY <1>2, Fleet DEF TypeInv
        <3>3. EtaAt[next] = fleet[next].eta
            BY <1>2, Fleet
        <3>4. topK' = IF EtaAt[next] < EtaAt[top] THEN (topK \ {top}) \cup {next} ELSE topK
            BY <3>1, <3>2, <3>3 DEF Nearer
        <3>5. Eligible(next) /\ Cardinality(topK) >= maxDrivers
            BY <2>3 DEF Replace
        <3>6. \A x \in Looked \cup {next} : EtaAt[x] \in Nat
            BY <1>5, <1>6, <3>5
        <3>7. \A j \in topK : EtaAt[j] <= EtaAt[top]
            BY <3>1, <3>2
        <3> QED
            BY <1>2, <1>4, <1>5, <3>4, <3>5, <3>6, <3>7, NearestReplaced
    <2> QED
        BY <2>1, <2>2, <2>3
<1>8. topK' \subseteq AllEligible
    BY <1>4, <1>5, <1>6, <1>7 DEF IsNearest
<1>9. TypeInv'
    BY <1>1, <1>2, <1>3, <1>8 DEF TypeInv
<1>10. ScanInv'
    BY <1>1, <1>3, <1>7 DEF IInv, ScanInv
<1> QED
    BY <1>1, <1>9, <1>10 DEF IInv, DrainInv, ReturnsNearest

LEMMA ScanEndsInv == ASSUME IInv, ScanEnds PROVE IInv'
<1>1. phase = "scan" /\ next > Len(fleet) /\ phase' = "drain"
      /\ UNCHANGED <<fleet, maxDrivers, next, topK, nearest>>
    BY DEF ScanEnds
<1>2. AllEligible' = AllEligible /\ EtaAt' = EtaAt
    BY <1>1, Unmoved
<1>3. TypeInv /\ nearest = <<>> /\ IsNearest(topK, Looked, EtaAt, maxDrivers)
    BY <1>1 DEF IInv, ScanInv
<1>4. Looked = AllEligible
    <2>1. \A i \in AllEligible : i \in 1 .. Len(fleet) /\ Len(fleet) \in Nat
        BY <1>3, Fleet
    <2> QED
        BY <1>1, <1>3, <2>1 DEF Looked, TypeInv
<1>5. Elements(nearest) = {} /\ Len(nearest) = 0 /\ Cardinality({}) = 0
    BY <1>3, FS_EmptySet DEF Elements
<1>6. DrainInv'
    <2>1. topK' = topK /\ nearest' = nearest /\ maxDrivers' = maxDrivers
        BY <1>1
    <2>2. Elements(nearest') = {} /\ Len(nearest') = 0
        BY <1>5, <2>1
    <2>3. topK \cup {} = topK
        OBVIOUS
    <2>4. IsNearest(topK' \cup Elements(nearest'), AllEligible', EtaAt', maxDrivers')
        BY <1>2, <1>3, <1>4, <2>1, <2>2, <2>3
    <2>5. topK' \cap Elements(nearest') = {}
        BY <2>2
    <2>6. Len(nearest') = Cardinality(Elements(nearest'))
        BY <1>5, <2>2
    <2>7. \A i \in 1 .. Len(nearest') : FALSE
        BY <2>2
    <2> QED
        BY <2>4, <2>5, <2>6, <2>7 DEF DrainInv
<1>7. TypeInv'
    BY <1>1, <1>2, <1>3 DEF TypeInv
<1> QED
    BY <1>1, <1>6, <1>7 DEF IInv, ScanInv, ReturnsNearest

LEMMA DrainStepInv == ASSUME IInv, Drain PROVE IInv'
<1>1. PICK top \in topK :
         /\ \A j \in topK : fleet[j].eta <= fleet[top].eta
         /\ topK' = topK \ {top} /\ nearest' = Append(nearest, top)
    BY DEF Drain, Farthest
<1>2. phase = "drain" /\ UNCHANGED <<fleet, maxDrivers, next, phase>>
    BY DEF Drain
<1>3. AllEligible' = AllEligible /\ EtaAt' = EtaAt
    BY <1>2, Unmoved
<1>4. /\ TypeInv
      /\ IsNearest(topK \cup Elements(nearest), AllEligible, EtaAt, maxDrivers)
      /\ topK \cap Elements(nearest) = {}
      /\ Len(nearest) = Cardinality(Elements(nearest))
      /\ \A t \in topK, i \in 1 .. Len(nearest) : EtaAt[t] <= EtaAt[nearest[i]]
      /\ \A i, j \in 1 .. Len(nearest) : i < j => EtaAt[nearest[j]] <= EtaAt[nearest[i]]
    BY <1>2 DEF IInv, DrainInv
<1>5. topK \subseteq AllEligible /\ nearest \in Seq(AllEligible) /\ top \in AllEligible
      /\ Len(nearest) \in Nat
    BY <1>4 DEF TypeInv
<1>6. /\ nearest' \in Seq(AllEligible) /\ Len(nearest') = Len(nearest) + 1
      /\ nearest'[Len(nearest) + 1] = top
      /\ \A i \in 1 .. Len(nearest) : nearest'[i] = nearest[i]
    BY <1>1, <1>5, AppendProperties
<1>7. Elements(nearest') = Elements(nearest) \cup {top}
    BY <1>5, <1>6 DEF Elements
<1>8. top \notin Elements(nearest) /\ IsFiniteSet(Elements(nearest))
    <2>1. Elements(nearest) \subseteq AllEligible
        BY <1>5 DEF Elements
    <2> QED
        BY <1>4, <2>1, Fleet, FS_Subset
<1>9. Len(nearest') = Cardinality(Elements(nearest'))
    BY <1>4, <1>6, <1>7, <1>8, FS_AddElement
<1>10. topK' \cup Elements(nearest') = topK \cup Elements(nearest)
       /\ topK' \cap Elements(nearest') = {}
    BY <1>1, <1>4, <1>7
<1>11. \A j \in topK : EtaAt[j] <= EtaAt[top]
    BY <1>1, <1>4, <1>5, Fleet
<1>12. \A t \in topK', i \in 1 .. Len(nearest') : EtaAt[t] <= EtaAt[nearest'[i]]
    <2> SUFFICES ASSUME NEW t \in topK', NEW i \in 1 .. Len(nearest')
                 PROVE  EtaAt[t] <= EtaAt[nearest'[i]]
        OBVIOUS
    <2>1. t \in topK
        BY <1>1
    <2>2. i \in 1 .. Len(nearest) \/ i = Len(nearest) + 1
        BY <1>5, <1>6
    <2> QED
        BY <1>4, <1>6, <1>11, <2>1, <2>2
<1>13. \A i, j \in 1 .. Len(nearest') : i < j => EtaAt[nearest'[j]] <= EtaAt[nearest'[i]]
    <2> SUFFICES ASSUME NEW i \in 1 .. Len(nearest'), NEW j \in 1 .. Len(nearest'), i < j
                 PROVE  EtaAt[nearest'[j]] <= EtaAt[nearest'[i]]
        OBVIOUS
    <2>1. i \in 1 .. Len(nearest) /\ (j \in 1 .. Len(nearest) \/ j = Len(nearest) + 1)
        BY <1>5, <1>6
    <2> QED
        BY <1>4, <1>6, <2>1
<1>14. TypeInv'
    BY <1>1, <1>2, <1>3, <1>4, <1>5, <1>6 DEF TypeInv
<1>15. DrainInv'
    BY <1>2, <1>3, <1>4, <1>9, <1>10, <1>12, <1>13 DEF DrainInv
<1> QED
    BY <1>2, <1>14, <1>15 DEF IInv, ScanInv, ReturnsNearest

LEMMA ReturnInv == ASSUME IInv, Return PROVE IInv'
<1>1. /\ phase = "drain" /\ topK = {} /\ nearest' = Reversed(nearest) /\ phase' = "done"
      /\ UNCHANGED <<fleet, maxDrivers, next, topK>>
    BY DEF Return
<1>2. AllEligible' = AllEligible /\ EtaAt' = EtaAt
    BY <1>1, Unmoved
<1>3. /\ TypeInv
      /\ IsNearest(Elements(nearest), AllEligible, EtaAt, maxDrivers)
      /\ Len(nearest) = Cardinality(Elements(nearest))
      /\ \A i, j \in 1 .. Len(nearest) : i < j => EtaAt[nearest[j]] <= EtaAt[nearest[i]]
    BY <1>1 DEF IInv, DrainInv
<1> DEFINE n == Len(nearest)
<1>4. n \in Nat /\ nearest \in Seq(AllEligible) /\ \A i \in 1 .. n : nearest[i] \in AllEligible
    BY <1>3 DEF TypeInv
<1>5. nearest' = [i \in 1 .. n |-> nearest[n + 1 - i]] /\ \A i \in 1 .. n : n + 1 - i \in 1 .. n
    BY <1>1, <1>4 DEF Reversed
<1>6. nearest' \in Seq(AllEligible) /\ Len(nearest') = n
      /\ \A i \in 1 .. n : nearest'[i] = nearest[n + 1 - i]
    <2>1. nearest' \in [1 .. n -> AllEligible]
        BY <1>4, <1>5
    <2> QED
        BY <1>4, <1>5, <2>1
<1>7. Elements(nearest') = Elements(nearest)
    <2>1. Elements(nearest') \subseteq Elements(nearest)
        BY <1>5, <1>6 DEF Elements
    <2>2. ASSUME NEW i \in 1 .. n PROVE nearest[i] \in Elements(nearest')
        <3>1. n + 1 - i \in 1 .. n /\ n + 1 - (n + 1 - i) = i
            BY <1>4
        <3>2. nearest'[n + 1 - i] = nearest[i]
            BY <1>6, <3>1
        <3> QED
            BY <1>6, <3>1, <3>2 DEF Elements
    <2> QED
        BY <2>1, <2>2 DEF Elements
<1>8. \A i, j \in 1 .. n : i < j => EtaAt[nearest'[i]] <= EtaAt[nearest'[j]]
    <2> SUFFICES ASSUME NEW i \in 1 .. n, NEW j \in 1 .. n, i < j
                 PROVE  EtaAt[nearest'[i]] <= EtaAt[nearest'[j]]
        OBVIOUS
    <2>1. n + 1 - i \in 1 .. n /\ n + 1 - j \in 1 .. n /\ n + 1 - j < n + 1 - i
        BY <1>4
    <2> QED
        BY <1>3, <1>6, <2>1
<1>9. TypeInv'
    BY <1>1, <1>2, <1>3, <1>6 DEF TypeInv
<1>10. ReturnsNearest'
    BY <1>1, <1>2, <1>3, <1>6, <1>7, <1>8 DEF ReturnsNearest
<1> QED
    BY <1>1, <1>9, <1>10 DEF IInv, ScanInv, DrainInv

LEMMA NextIInv == IInv /\ [Next]_vars => IInv'
<1> SUFFICES ASSUME IInv, [Next]_vars PROVE IInv'
    OBVIOUS
<1>1. CASE UNCHANGED vars
    BY <1>1, Unmoved DEF vars, IInv, TypeInv, ScanInv, DrainInv, ReturnsNearest, Looked
<1> QED
    BY <1>1, ScanStepInv, ScanEndsInv, DrainStepInv, ReturnInv DEF Next

LEMMA InvBackendView == ASSUME IInv PROVE WithinBackendView
<1> SUFFICES ASSUME phase = "done"
             PROVE  Elements(nearest) \subseteq NearEnough(AllEligible, EtaAt, maxDrivers)
    BY DEF WithinBackendView
<1> QED
    BY Fleet, NearestAreNear DEF IInv, ReturnsNearest, TypeInv

\* The type, the heap during the pass, its order while it drains, and the result.
THEOREM Invariant == ASSUME Limits \subseteq Nat PROVE Spec => []IInv
<1>1. Init => IInv
    BY InitIInv
<1> QED
    BY <1>1, NextIInv, PTL DEF Spec

\* While the loop runs, the heap holds k nearest of the drivers looked at.
THEOREM HeapIsNearest == ASSUME Limits \subseteq Nat PROVE Spec => []HeapHoldsNearest
<1>1. IInv => HeapHoldsNearest
    BY DEF IInv, ScanInv, HeapHoldsNearest, Looked
<1> QED
    BY <1>1, Invariant, PTL

\* What findNearestDrivers returns are k nearest of all drivers, nearest first.
THEOREM NearestReturned == ASSUME Limits \subseteq Nat PROVE Spec => []ReturnsNearest
<1>1. IInv => ReturnsNearest
    BY DEF IInv
<1> QED
    BY <1>1, Invariant, PTL

\* What it returns lies within the set that RideBackend chooses from.
THEOREM BackendViewHolds == ASSUME Limits \subseteq Nat PROVE Spec => []WithinBackendView
<1>1. IInv => WithinBackendView
    BY InvBackendView
<1> QED
    BY <1>1, Invariant, PTL
=============================================================================
