------------------------ MODULE StreamLeases_proofs -------------------------
(***************************************************************************)
(* Proofs about StreamLeases, for any finite set of requests, any          *)
(* collectors and any limits.  Everything rests on one fact: acquiring     *)
(* adds one request to the set of leases that are out, and a release       *)
(* removes it or, the second time, changes nothing.                        *)
(***************************************************************************)
EXTENDS StreamLeases, FiniteSetTheorems, TLAPS

(* The sets of leases are finite, their sizes natural numbers.             *)
LEMMA LeasedFinite ==
    /\ IsFiniteSet(Leased) /\ Cardinality(Leased) \in Nat
    /\ \A c \in Collector :
          IsFiniteSet(LeasedTo(c)) /\ Cardinality(LeasedTo(c)) \in Nat
<1>1. Leased \subseteq Request /\ \A c \in Collector : LeasedTo(c) \subseteq Request
  BY DEF Leased, LeasedTo
<1>2. \A S \in SUBSET Request : IsFiniteSet(S) /\ Cardinality(S) \in Nat
  BY FS_Subset, FS_CardinalityType, LimitsAssumption
<1> QED BY <1>1, <1>2

(* A release by request r, whoever calls it and however often, keeps the   *)
(* counters exact and within the limits.                                   *)
LEMMA ReleaseKeepsCounters ==
    ASSUME IInv, NEW r \in Request, Release(r), UNCHANGED key
    PROVE  CountersExact' /\ LeasesWithinLimits'
<1> USE DEF Typed
<1>1. CASE released[r]
  <2>1. released' = released
    BY <1>1 DEF Release, IInv
  <2>2. total' = total /\ per_collector' = per_collector
    BY <1>1 DEF Release, IInv
  <2> QED
    BY <2>1, <2>2 DEF IInv, CountersExact, LeasesWithinLimits, Leased, LeasedTo
<1>2. CASE ~released[r]
  <2> DEFINE k == key[r]
  <2>1. k \in Collector
    BY DEF IInv
  <2>2. /\ Leased' = Leased \ {r} /\ r \in Leased
        /\ LeasedTo(k)' = LeasedTo(k) \ {r} /\ r \in LeasedTo(k)
        /\ \A c \in Collector \ {k} : LeasedTo(c)' = LeasedTo(c)
    BY <1>2 DEF Release, IInv, Leased, LeasedTo
  <2>3. /\ Cardinality(Leased \ {r}) = Cardinality(Leased) - 1
        /\ Cardinality(LeasedTo(k) \ {r}) = Cardinality(LeasedTo(k)) - 1
    BY <2>1, <2>2, LeasedFinite, FS_RemoveElement
  <2>4. /\ IsFiniteSet(Leased \ {r}) /\ IsFiniteSet(LeasedTo(k) \ {r})
    BY <2>1, <2>2, LeasedFinite, FS_RemoveElement
  <2>5. /\ Cardinality(Leased \ {r}) \in Nat
        /\ Cardinality(LeasedTo(k) \ {r}) \in Nat
    BY <2>4, FS_CardinalityType
  <2>6. total \in Nat /\ total = Cardinality(Leased)
    BY DEF IInv, CountersExact
  <2>7. total' = total - 1 /\ total' = Cardinality(Leased')
    <3>1. total > 0
      BY <2>3, <2>5, <2>6
    <3>2. total' = total - 1
      BY <1>2, <3>1 DEF Release
    <3> QED BY <3>2, <2>2, <2>3, <2>6
  <2>8. per_collector[k] \in Nat /\ per_collector[k] = Cardinality(LeasedTo(k))
    BY <2>1 DEF IInv, CountersExact
  <2>9. per_collector'[k] = per_collector[k] - 1
    <3>1. per_collector[k] >= 1
      BY <2>3, <2>5, <2>8
    <3>2. per_collector'[k] = IF per_collector[k] <= 1 THEN 0 ELSE per_collector[k] - 1
      BY <1>2, <2>1 DEF Release, IInv
    <3> QED BY <3>1, <3>2, <2>8
  <2>10. \A c \in Collector \ {k} : per_collector'[c] = per_collector[c]
    BY <1>2 DEF Release, IInv
  <2>11. \A c \in Collector : per_collector'[c] = Cardinality(LeasedTo(c)')
    <3> TAKE c \in Collector
    <3>1. CASE c = k
      BY <3>1, <2>2, <2>3, <2>8, <2>9
    <3>2. CASE c # k
      BY <3>2, <2>2, <2>10 DEF IInv, CountersExact
    <3> QED BY <3>1, <3>2
  <2>12. CountersExact'
    BY <2>7, <2>11 DEF CountersExact
  <2>13. LeasesWithinLimits'
    <3>1. total' <= MaxConnections
      BY <2>6, <2>7, LimitsAssumption DEF IInv, LeasesWithinLimits
    <3>2. ASSUME NEW c \in Collector
          PROVE  per_collector'[c] <= MaxPerCollector
      <4>1. per_collector[c] <= MaxPerCollector
        BY <3>2 DEF IInv, LeasesWithinLimits
      <4>2. CASE c = k
        BY <4>1, <4>2, <2>8, <2>9, LimitsAssumption
      <4>3. CASE c # k
        BY <4>1, <4>3, <2>10
      <4> QED BY <4>2, <4>3
    <3> QED BY <3>1, <3>2 DEF LeasesWithinLimits
  <2> QED BY <2>12, <2>13
<1> QED BY <1>1, <1>2 DEF IInv

(* Acquiring keeps the counters exact, and within the limits because it is *)
(* refused when one of them is reached.                                    *)
LEMMA AcquireKeepsCounters ==
    ASSUME IInv, NEW r \in Request, NEW k \in Collector, Acquire(r, k)
    PROVE  CountersExact' /\ LeasesWithinLimits'
<1> USE DEF Typed
<1>1. released[r]
  BY DEF IInv, LeaseMatches, Acquire
<1>2. /\ Leased' = Leased \cup {r} /\ r \notin Leased
      /\ LeasedTo(k)' = LeasedTo(k) \cup {r} /\ r \notin LeasedTo(k)
      /\ \A c \in Collector \ {k} : LeasedTo(c)' = LeasedTo(c)
  BY <1>1 DEF Acquire, IInv, Leased, LeasedTo
<1>3. /\ Cardinality(Leased \cup {r}) = Cardinality(Leased) + 1
      /\ Cardinality(LeasedTo(k) \cup {r}) = Cardinality(LeasedTo(k)) + 1
  BY <1>2, LeasedFinite, FS_AddElement
<1>4. /\ total' = total + 1 /\ total < MaxConnections
      /\ per_collector'[k] = per_collector[k] + 1
      /\ per_collector[k] < MaxPerCollector
      /\ \A c \in Collector \ {k} : per_collector'[c] = per_collector[c]
  BY LimitsAssumption DEF Acquire, Full, IInv
<1>5. CountersExact'
  <2>1. total' = Cardinality(Leased')
    BY <1>2, <1>3, <1>4 DEF IInv, CountersExact
  <2>2. ASSUME NEW c \in Collector
        PROVE  per_collector'[c] = Cardinality(LeasedTo(c)')
    <3>1. per_collector[c] = Cardinality(LeasedTo(c))
      BY <2>2 DEF IInv, CountersExact
    <3>2. CASE c = k
      BY <3>1, <3>2, <1>2, <1>3, <1>4
    <3>3. CASE c # k
      BY <3>1, <3>3, <1>2, <1>4
    <3> QED BY <3>2, <3>3
  <2> QED BY <2>1, <2>2 DEF CountersExact
<1>6. LeasesWithinLimits'
  <2>1. total' <= MaxConnections
    BY <1>4, LimitsAssumption DEF IInv
  <2>2. ASSUME NEW c \in Collector
        PROVE  per_collector'[c] <= MaxPerCollector
    <3>1. per_collector[c] \in Nat /\ per_collector[c] <= MaxPerCollector
      BY <2>2 DEF IInv, LeasesWithinLimits
    <3>2. CASE c = k
      BY <3>1, <3>2, <1>4, LimitsAssumption
    <3>3. CASE c # k
      BY <3>1, <3>3, <1>4
    <3> QED BY <3>2, <3>3
  <2> QED BY <2>1, <2>2 DEF LeasesWithinLimits
<1> QED BY <1>5, <1>6

-----------------------------------------------------------------------------

LEMMA InitEstablishes == LeasesInit => IInv
<1> SUFFICES ASSUME LeasesInit PROVE IInv
  OBVIOUS
<1>1. Typed /\ GeneratorShape /\ LeaseMatches
  BY DEF LeasesInit, Typed, GeneratorShape, LeaseMatches, Served
<1>2. Leased = {} /\ \A c \in Collector : LeasedTo(c) = {}
  BY DEF LeasesInit, Leased, LeasedTo
<1>3. Cardinality({}) = 0
  BY FS_EmptySet
<1>4. CountersExact
  BY <1>2, <1>3 DEF LeasesInit, CountersExact
<1>5. LeasesWithinLimits
  BY LimitsAssumption DEF LeasesInit, LeasesWithinLimits
<1> QED BY <1>1, <1>4, <1>5 DEF IInv

LEMMA ReleaseTyped ==
    ASSUME Typed, NEW r \in Request, Release(r)
    PROVE  /\ total' \in Nat
           /\ per_collector' \in [Collector -> Nat]
           /\ released' \in [Request -> BOOLEAN]
           /\ released'[r]
           /\ \A q \in Request \ {r} : released'[q] = released[q]
<1>1. total' \in Nat
  BY DEF Typed, Release
<1>2. per_collector' \in [Collector -> Nat]
  BY DEF Typed, Release
<1>3. released' = [released EXCEPT ![r] = TRUE]
  BY DEF Release
<1> QED BY <1>1, <1>2, <1>3 DEF Typed

(* What acquiring and releasing do to requests is settled per action, what *)
(* they do to the counters by the two lemmas above.                        *)
LEMMA NextPreserves == IInv /\ [LeasesNext]_leaseVars => IInv'
<1> SUFFICES ASSUME IInv, [LeasesNext]_leaseVars PROVE IInv'
  OBVIOUS
<1> DEFINE Shape == Typed /\ GeneratorShape /\ LeaseMatches
           Counters == CountersExact /\ LeasesWithinLimits
<1>a. Typed /\ GeneratorShape /\ LeaseMatches
  BY DEF IInv
<1>1. ASSUME NEW r \in Request, NEW c \in Collector, Acquire(r, c)
      PROVE  Shape' /\ Counters'
  <2>1. Shape'
    BY <1>a, <1>1 DEF Acquire, Typed, GeneratorShape, LeaseMatches, Served
  <2> QED BY <2>1, <1>1, AcquireKeepsCounters
<1>2. ASSUME NEW r \in Request, PreflightFails(r)
      PROVE  Shape' /\ Counters'
  <2>1. Release(r) /\ UNCHANGED key
    BY <1>2 DEF PreflightFails
  <2>2. Shape'
    BY <1>a, <1>2, <2>1, ReleaseTyped
       DEF PreflightFails, Typed, GeneratorShape, LeaseMatches, Served
  <2> QED BY <2>1, <2>2, ReleaseKeepsCounters
<1>3. ASSUME NEW r \in Request, Respond(r)
      PROVE  Shape' /\ Counters'
  BY <1>a, <1>3
     DEF Respond, Typed, GeneratorShape, LeaseMatches, Served, IInv,
         CountersExact, LeasesWithinLimits, Leased, LeasedTo
<1>4. ASSUME NEW r \in Request, StartGenerator(r)
      PROVE  Shape' /\ Counters'
  BY <1>a, <1>4
     DEF StartGenerator, Typed, GeneratorShape, LeaseMatches, Served, IInv,
         CountersExact, LeasesWithinLimits, Leased, LeasedTo
<1>5. ASSUME NEW r \in Request, GeneratorEnds(r)
      PROVE  Shape' /\ Counters'
  <2>1. Release(r) /\ UNCHANGED key
    BY <1>5 DEF GeneratorEnds
  <2>2. Shape'
    BY <1>a, <1>5, <2>1, ReleaseTyped
       DEF GeneratorEnds, Typed, GeneratorShape, LeaseMatches, Served
  <2> QED BY <2>1, <2>2, ReleaseKeepsCounters
<1>6. ASSUME NEW r \in Request, ClientLeaves(r)
      PROVE  Shape' /\ Counters'
  BY <1>a, <1>6
     DEF ClientLeaves, Typed, GeneratorShape, LeaseMatches, Served, IInv,
         CountersExact, LeasesWithinLimits, Leased, LeasedTo
<1>7. ASSUME NEW r \in Request, Background(r)
      PROVE  Shape' /\ Counters'
  <2>1. Release(r) /\ UNCHANGED key
    BY <1>7 DEF Background
  <2>2. Shape'
    BY <1>a, <1>7, <2>1, ReleaseTyped
       DEF Background, Typed, GeneratorShape, LeaseMatches, Served
  <2> QED BY <2>1, <2>2, ReleaseKeepsCounters
<1>8. ASSUME NEW r \in Request, Finalize(r)
      PROVE  Shape' /\ Counters'
  <2>1. CASE generator[r] = "suspended"
    <3>1. Release(r) /\ UNCHANGED key
      BY <1>8, <2>1 DEF Finalize
    <3>2. Shape'
      BY <1>a, <1>8, <3>1, ReleaseTyped
         DEF Finalize, Typed, GeneratorShape, LeaseMatches, Served
    <3> QED BY <3>1, <3>2, ReleaseKeepsCounters
  <2>2. CASE generator[r] # "suspended"
    BY <1>a, <1>8, <2>2
       DEF Finalize, Typed, GeneratorShape, LeaseMatches, Served, IInv,
           CountersExact, LeasesWithinLimits, Leased, LeasedTo
  <2> QED BY <2>1, <2>2
<1>9. CASE UNCHANGED leaseVars
  BY <1>a, <1>9
     DEF leaseVars, Typed, GeneratorShape, LeaseMatches, Served, IInv,
         CountersExact, LeasesWithinLimits, Leased, LeasedTo
<1> QED
  BY <1>1, <1>2, <1>3, <1>4, <1>5, <1>6, <1>7, <1>8, <1>9 DEF LeasesNext, IInv

(* The conjunction of the invariants is inductive.                         *)
THEOREM Invariance == LeasesSpec => []IInv
<1> QED BY InitEstablishes, NextPreserves, PTL DEF LeasesSpec

(* Type correctness of the limiter and its leases.                         *)
THEOREM TypeCorrect == LeasesSpec => []LeasesTypeOK
<1>1. IInv => LeasesTypeOK
  BY DEF IInv, LeasesTypeOK
<1> QED BY <1>1, Invariance, PTL

(* total and per_collector are the numbers of leases that are out.         *)
THEOREM CountersAreExact == LeasesSpec => []CountersExact
<1>1. IInv => CountersExact
  BY DEF IInv
<1> QED BY <1>1, Invariance, PTL

(* A request that is served holds a lease, one that is over holds none.    *)
THEOREM LeasesMatch == LeasesSpec => []LeaseMatches
<1>1. IInv => LeaseMatches
  BY DEF IInv
<1> QED BY <1>1, Invariance, PTL

(* The streams served at once stay within both limits.                     *)
THEOREM StreamsWithinLimits == LeasesSpec => []WithinLimits
<1>1. IInv => WithinLimits
  <2> SUFFICES ASSUME IInv PROVE WithinLimits
    OBVIOUS
  <2> DEFINE S == {r \in Request : Served(r)}
             SC(c) == {r \in Request : Served(r) /\ key[r] = c}
  <2>1. S \subseteq Leased /\ \A c \in Collector : SC(c) \subseteq LeasedTo(c)
    BY DEF IInv, LeaseMatches, Leased, LeasedTo
  <2>2. /\ Cardinality(S) \in Nat /\ Cardinality(S) <= Cardinality(Leased)
        /\ \A c \in Collector :
              /\ Cardinality(SC(c)) \in Nat
              /\ Cardinality(SC(c)) <= Cardinality(LeasedTo(c))
    BY <2>1, LeasedFinite, FS_Subset, FS_CardinalityType
  <2>3. /\ Cardinality(Leased) <= MaxConnections
        /\ \A c \in Collector : Cardinality(LeasedTo(c)) <= MaxPerCollector
    BY DEF IInv, CountersExact, LeasesWithinLimits
  <2>4. Cardinality(S) <= MaxConnections
    BY <2>2, <2>3, LeasedFinite, LimitsAssumption
  <2>5. \A c \in Collector : Cardinality(SC(c)) <= MaxPerCollector
    BY <2>2, <2>3, LeasedFinite, LimitsAssumption
  <2> QED BY <2>4, <2>5 DEF WithinLimits
<1> QED BY <1>1, Invariance, PTL

=============================================================================
