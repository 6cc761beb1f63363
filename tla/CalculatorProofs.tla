-------------------------- MODULE CalculatorProofs --------------------------
(***************************************************************************)
(* The invariants of Calculator, for all pods, metrics and numbers.  All   *)
(* rest on what the checks before a ratio leave over.                      *)
(***************************************************************************)
EXTENDS CalculatorZaohua, SumTheorems

(* An error of a Pods metric answers 0, any other one answers nothing.     *)
LEMMA FailingAnswers ==
    ASSUME Fail
    PROVE  pc' = "failed" \/ (pc' = "answered" /\ answer' = 0)
BY DEF Fail, Answer

(* What passes the checks has something to divide by: no calculation panics*)
(* but for a target, a source or an Object that is not there, or for the   *)
(* selector of a Pods metric that does not parse.                          *)
THEOREM DivisionsAreSafe == Spec => []PanicsOnlyForNil
<1>1. Init => PanicsOnlyForNil
  BY DEF Init, PanicsOnlyForNil
<1>2. PanicsOnlyForNil /\ [Next]_vars => PanicsOnlyForNil'
  <2> SUFFICES ASSUME PanicsOnlyForNil, [Next]_vars, pc' = "crashed"
               PROVE  (metric.target = Nil \/ Sourceless \/ Selectorless)'
    BY DEF PanicsOnlyForNil
  <2>1. ASSUME metric' = metric, metric.target = Nil \/ Sourceless \/ Selectorless
        PROVE  (metric.target = Nil \/ Sourceless \/ Selectorless)'
    BY <2>1 DEF Sourceless, Selectorless, PerPod
  <2>2. CASE UNCHANGED vars
    BY <2>1, <2>2 DEF PanicsOnlyForNil, vars
  <2>3. CASE FetchPanics
    BY <2>1, <2>3 DEF FetchPanics
  <2>4. CASE FetchPodMetrics
    BY <2>1, <2>4 DEF FetchPodMetrics
  <2>5. CASE TargetMissing
    BY <2>1, <2>5 DEF TargetMissing
  <2>6. CASE Compute
    <3>1. Weighed # {}
      <4>1. ~Unweighable
        BY <2>6 DEF Compute
      <4> QED
        BY <4>1 DEF Unweighable
    <3>2. \E n \in Desired : Answer(n)
      BY <2>6, <3>1 DEF Compute
    <3> QED
      BY <3>2 DEF Answer
  <2>7. CASE FetchTotal
    BY <2>1, <2>7 DEF FetchTotal, Answer
  <2>8. CASE FetchTotalOfValue
    <3>1. CASE metric.target = Nil
      BY <2>1, <2>8, <3>1 DEF FetchTotalOfValue
    <3>2. CASE metric.target # Nil
      <4>1. \/ \E n : Answer(n)
            \/ Fail
        BY <2>8, <3>2 DEF FetchTotalOfValue
      <4> QED
        BY <4>1, FailingAnswers DEF Answer
    <3> QED
      BY <3>1, <3>2
  <2>9. CASE FetchFails \/ ListFails \/ ComputeFails
    BY <2>9, FailingAnswers DEF FetchFails, ListFails, ComputeFails
  <2>10. CASE Begin \/ Return \/ List \/ Keep
    BY <2>10 DEF Begin, Return, List, Keep, Answer
  <2> QED
    BY <2>2, <2>3, <2>4, <2>5, <2>6, <2>7, <2>8, <2>9, <2>10 DEF Next
<1> QED
  BY <1>1, <1>2, PTL DEF Spec

-----------------------------------------------------------------------------
(* What a calculation computes depends on the metric and the two snapshots *)
(* alone, so an answer that leaves those alone can be judged by them.      *)
LEMMA SnapshotsDecide ==
    ASSUME UNCHANGED <<metric, info, pods>>
    PROVE  /\ Usage' = Usage
           /\ ReadyPodCount' = ReadyPodCount
           /\ Mean(Rebalanced)' = Mean(Rebalanced)
           /\ Unweighable' <=> Unweighable
           /\ Settled' <=> Settled
<1>1. Counted' = Counted /\ Ignored' = Ignored /\ Missing' = Missing
  BY Zenon DEF Counted, Ignored, Missing
<1>2. Unready' = Unready
  BY <1>1, Zenon DEF Unready
<1>3. Kept' = Kept /\ Entries' = Entries /\ Weighed' = Weighed
  BY <1>1, <1>2, Zenon DEF Kept, Entries, Weighed
<1>4. \A p : Request(p)' = Request(p)
  BY Zenon DEF Request
<1>5. [p \in Kept |-> info[p]]' = [p \in Kept |-> info[p]]
  BY <1>3, Zenon
<1>6. [p \in Entries |-> Request(p)]' = [p \in Entries |-> Request(p)]
  BY <1>3, <1>4, Zenon
<1>7. Usage' = Usage
  BY <1>3, <1>5, <1>6, Zenon DEF Usage, Mean, Percentage, Ratio
<1>8. ReadyPodCount' = ReadyPodCount
  BY <1>1, <1>2, Zenon DEF ReadyPodCount
<1>9. (RebalanceIgnored' <=> RebalanceIgnored) /\ (Settled' <=> Settled)
  BY <1>1, <1>2, <1>7, Zenon DEF RebalanceIgnored, Settled, Above
<1>10. Rebalanced' = Rebalanced
  BY <1>1, <1>2, <1>3, <1>7, <1>9, Zenon DEF Rebalanced, Below
<1>11. Mean(Rebalanced)' = Mean(Rebalanced)
  BY <1>10, Zenon DEF Mean, Ratio
<1>12. Unweighable' <=> Unweighable
  BY <1>3, <1>4, Zenon DEF Unweighable
<1> QED
  BY <1>7, <1>8, <1>9, <1>11, <1>12

-----------------------------------------------------------------------------
(* A snapshot is a function of finitely many pods.                         *)
LEMMA SnapshotShape ==
    ASSUME NEW S, NEW f \in Partial(S)
    PROVE  /\ DOMAIN f \subseteq Pods /\ IsFiniteSet(DOMAIN f)
           /\ \A p \in DOMAIN f : f[p] \in S
<1>1. PICK names \in SUBSET Pods : f \in [names -> S]
  BY DEF Partial
<1>2. IsFiniteSet(names)
  BY PodsAssumption, FS_Subset
<1> QED
  BY <1>1, <1>2

(* The empty snapshot is one.                                              *)
LEMMA NoneIsSnapshot ==
    ASSUME NEW S
    PROVE  None \in Partial(S) /\ DOMAIN None = {}
<1>1. None \in [{} -> S] /\ DOMAIN None = {}
  BY DEF None
<1>2. {} \in SUBSET Pods
  OBVIOUS
<1> QED
  BY <1>1, <1>2 DEF Partial

(* Rounding up a quotient: the least integer that is not below it.         *)
LEMMA CeilDivLeast ==
    ASSUME NEW a \in Int, NEW b \in Nat, b > 0
    PROVE  /\ CeilDiv(a, b) \in Int
           /\ CeilDiv(a, b) * b >= a
           /\ (CeilDiv(a, b) - 1) * b < a
<1> DEFINE q == (a + b - 1) \div b
<1>1. q \in Int /\ b * q <= a + b - 1 /\ a + b - 1 < b * q + b
  OBVIOUS
<1> HIDE DEF q
<1>2. q * b >= a /\ (q - 1) * b < a
  BY <1>1
<1>3. CeilDiv(a, b) = q
  BY DEF CeilDiv, q
<1> QED
  BY <1>1, <1>2, <1>3

(* A mean of some naturals is a natural over the target.                   *)
LEMMA MeanType ==
    ASSUME NEW values, IsFiniteSet(DOMAIN values), DOMAIN values # {},
           \A p \in DOMAIN values : values[p] \in Nat
    PROVE  Mean(values).num \in Nat /\ Mean(values).den = metric.target
<1> DEFINE sum == SumFunctionOnSet(values, DOMAIN values)
           size == Cardinality(DOMAIN values)
<1>1. sum \in Nat
  BY SumType
<1>2. size \in Nat /\ size > 0
  BY FS_CardinalityType, FS_EmptySet
<1>3. Mean(values) = [num |-> sum \div size, den |-> metric.target]
  BY Zenon DEF Mean, SumFunction, Ratio
<1> HIDE DEF sum, size
<1>4. sum \div size \in Nat
  BY <1>1, <1>2
<1> QED
  BY <1>3, <1>4

(* What the count of a weighable metric is computed from: the metrics are  *)
(* those of finitely many pods, and its usage is a natural over the target.*)
LEMMA WeighableTypes ==
    ASSUME TypeOK, PerPod, ~Unweighable
    PROVE  /\ IsFiniteSet(Kept) /\ IsFiniteSet(Counted) /\ Entries \subseteq Kept
           /\ Kept # {}
           /\ \A p \in Kept : info[p] \in Nat
           /\ Usage.num \in Nat /\ Usage.den = metric.target
<1>1. /\ DOMAIN info \subseteq Pods /\ IsFiniteSet(DOMAIN info)
      /\ \A p \in DOMAIN info : info[p] \in Usages
  BY SnapshotShape DEF TypeOK
<1>2. /\ DOMAIN pods \subseteq Pods /\ IsFiniteSet(DOMAIN pods)
      /\ \A p \in DOMAIN pods : pods[p] \in PodKinds
  BY SnapshotShape DEF TypeOK
<1>3. /\ Kept \subseteq DOMAIN info /\ Counted \subseteq DOMAIN pods
      /\ Entries \subseteq Kept /\ Entries \subseteq DOMAIN pods
      /\ Weighed \subseteq Kept
  BY DEF Kept, Counted, Entries, Weighed
<1>4. IsFiniteSet(Kept) /\ IsFiniteSet(Counted) /\ IsFiniteSet(Entries)
  BY <1>1, <1>2, <1>3, FS_Subset
<1>5. Weighed # {}
  BY DEF Unweighable
<1>6. \A p \in Kept : info[p] \in Nat
  BY <1>1, <1>3, UsagesAssumption
<1>7. CASE metric.type = "Pods"
  <2> DEFINE values == [p \in Kept |-> info[p]]
  <2>1. Kept # {}
    BY <1>3, <1>5
  <2>2. DOMAIN values = Kept /\ \A p \in DOMAIN values : values[p] \in Nat
    BY <1>6
  <2>3. Usage = Mean(values)
    BY <1>7, Zenon DEF Usage
  <2>4. Mean(values).num \in Nat /\ Mean(values).den = metric.target
    <3> HIDE DEF values
    <3> QED
      BY <1>4, <2>1, <2>2, MeanType
  <2> QED
    BY <1>3, <1>4, <1>6, <2>1, <2>3, <2>4
<1>8. CASE metric.type # "Pods"
  <2> DEFINE sum == SumFunctionOnSet(info, Entries)
             requests == [p \in Entries |-> Request(p)]
             requested == SumFunctionOnSet(requests, Entries)
  <2>1. sum \in Nat
    BY <1>3, <1>4, <1>6, SumType
  <2>2. \A p \in Entries : requests[p] = Request(p) /\ Request(p) \in Nat
    BY <1>2, <1>3, KindsAssumption DEF Request, Pod
  <2>3. PICK p \in Weighed : Request(p) # 0
    BY <1>8 DEF Unweighable
  <2>4. p \in Entries
    BY <1>8, <2>3 DEF Weighed
  <2>5. requested \in Nat /\ requests[p] <= requested
    <3> HIDE DEF requests
    <3> QED
      BY <1>4, <2>2, <2>4, SumType, SumAtLeast
  <2>6. requested > 0
    <3> HIDE DEF requests, requested
    <3> QED
      BY <2>2, <2>3, <2>4, <2>5
  <2>7. Usage = [num |-> (sum * 100) \div requested, den |-> metric.target]
    BY <1>8, Zenon DEF Usage, Percentage, SumFunction, Ratio
  <2>8. (sum * 100) \div requested \in Nat
    <3> HIDE DEF sum, requested
    <3> QED
      BY <2>1, <2>5, <2>6
  <2>9. Usage.num \in Nat /\ Usage.den = metric.target
    <3> HIDE DEF sum, requested
    <3> QED
      BY <2>7, <2>8
  <2> QED
    BY <1>3, <1>4, <1>6, <2>4, <2>9
<1> QED
  BY <1>7, <1>8

(* Rounding up yields integers, and a usage that is not above its target   *)
(* never more of them than there are pods.                                 *)
LEMMA CeilingsBound ==
    ASSUME NEW r, r.num \in Nat, r.den \in Nat, NEW n \in Nat, NEW c \in Ceilings(r, n)
    PROVE  c \in Int /\ (r.den > 0 /\ ~Above(r) => c <= n)
<1>1. CASE r.den = 0
  BY <1>1, NumbersAssumption DEF Ceilings
<1>2. CASE r.den # 0
  <2> DEFINE a == r.num
             b == r.den
             q == CeilDiv(a * n, b)
  <2>1. a \in Nat /\ b \in Nat /\ b > 0 /\ a * n \in Nat
    BY <1>2
  <2>2. q \in Int /\ q * b >= a * n /\ (q - 1) * b < a * n
    <3> HIDE DEF a, b
    <3> QED
      BY <2>1, CeilDivLeast
  <2>3. c = q \/ (c = q + 1 /\ n > 0 /\ (a * n) % b = 0 /\ a % b # 0)
    <3> HIDE DEF q
    <3>1. Ceilings(r, n) = {q} \cup (IF n > 0 /\ (a * n) % b = 0 /\ a % b # 0
                                     THEN {q + 1} ELSE {})
      BY <1>2, Zenon DEF Ceilings, q
    <3> HIDE DEF a, b
    <3> QED
      BY <3>1
  <2> HIDE DEF a, b, q
  <2>4. ASSUME a <= b PROVE c <= n
    <3>1. a * n <= b * n
      BY <2>1, <2>4
    <3>2. (q - 1) * b < n * b
      BY <2>1, <2>2, <3>1
    <3>3. q - 1 < n
      BY <2>1, <2>2, <3>2
    <3>4. CASE c = q
      BY <2>2, <3>3, <3>4
    <3>5. CASE c = q + 1 /\ n > 0 /\ (a * n) % b = 0 /\ a % b # 0
      <4>1. a # b
        BY <2>1, <3>5
      <4>2. a * n < b * n
        BY <2>1, <2>4, <3>5, <4>1
      <4> DEFINE k == (a * n) \div b
      <4>3. k \in Int /\ a * n = b * k
        BY <2>1, <3>5
      <4> HIDE DEF k
      <4>4. (q - 1) * b < k * b
        BY <2>1, <2>2, <4>3
      <4>5. q - 1 < k
        BY <2>1, <2>2, <4>3, <4>4
      <4>6. k * b < n * b
        BY <2>1, <4>2, <4>3
      <4>7. k < n
        BY <2>1, <4>3, <4>6
      <4>8. q <= k
        BY <2>2, <4>3, <4>5
      <4> QED
        BY <2>2, <3>5, <4>3, <4>7, <4>8
    <3> QED
      BY <2>3, <3>4, <3>5
  <2>5. c \in Int
    BY <2>2, <2>3
  <2>6. ~Above(r) => a <= b
    BY <2>1 DEF Above, a, b
  <2> QED
    BY <2>4, <2>5, <2>6
<1> QED
  BY <1>1, <1>2

(* Dividing among more yields no more.                                     *)
LEMMA QuotientShrinks ==
    ASSUME NEW s \in Nat, NEW k \in Nat, NEW n \in Nat, 0 < k, k <= n
    PROVE  s \div n <= s \div k
<1> DEFINE q == s \div n
           r == s \div k
<1>1. q \in Nat /\ r \in Nat /\ n * q <= s /\ s < k * r + k
  OBVIOUS
<1> HIDE DEF q, r
<1>2. k * q <= n * q
  BY <1>1
<1>3. k * q < k * (r + 1)
  BY <1>1, <1>2
<1>4. q < r + 1
  BY <1>1, <1>3
<1> QED
  BY <1>1, <1>4 DEF q, r

(* The values as evened out have a mean too.  For a Pods metric that is at *)
(* its target or above it, where zeros are filled in, it is not greater.   *)
LEMMA RebalancedMean ==
    ASSUME TypeOK, PerPod, ~Unweighable, metric.target \in Nat
    PROVE  /\ Mean(Rebalanced).num \in Nat /\ Mean(Rebalanced).den = metric.target
           /\ Cardinality(DOMAIN Rebalanced) \in Nat
           /\ metric.type = "Pods" /\ ~Below(Usage) => Mean(Rebalanced).num <= Usage.num
<1> DEFINE all == Kept \cup Missing \cup (IF RebalanceIgnored THEN Unready ELSE {})
           sum == SumFunctionOnSet(Rebalanced, all)
<1>1. /\ IsFiniteSet(Kept) /\ IsFiniteSet(Counted) /\ Kept # {}
      /\ \A p \in Kept : info[p] \in Nat
      /\ Usage.num \in Nat /\ Usage.den = metric.target
  BY WeighableTypes
<1>2. DOMAIN Rebalanced = all
  BY DEF Rebalanced
<1>3. \A p \in all : Rebalanced[p] = IF p \in Kept THEN info[p]
                                    ELSE IF p \in Missing /\ Below(Usage) THEN metric.target ELSE 0
  BY Zenon DEF Rebalanced
<1>4. all \subseteq Kept \cup Counted
  BY DEF Missing, Unready
<1>5. IsFiniteSet(all) /\ all # {} /\ Kept \subseteq all
  <2>1. IsFiniteSet(Kept \cup Counted)
    BY <1>1, FS_Union
  <2> QED
    BY <1>1, <1>4, <2>1, FS_Subset
<1> HIDE DEF all
<1>6. \A p \in all : Rebalanced[p] \in Nat
  BY <1>1, <1>3
<1>7. Mean(Rebalanced).num \in Nat /\ Mean(Rebalanced).den = metric.target
  BY <1>2, <1>5, <1>6, MeanType
<1>8. ASSUME metric.type = "Pods", ~Below(Usage)
      PROVE  Mean(Rebalanced).num <= Usage.num
  <2> DEFINE values == [p \in Kept |-> info[p]]
  <2>1. sum = SumFunctionOnSet(Rebalanced, Kept)
    <3>1. \A p \in all \ Kept : Rebalanced[p] = 0
      BY <1>3, <1>8
    <3> QED
      BY <1>5, <1>6, <3>1, SumWithoutZeros
  <2>2. SumFunctionOnSet(Rebalanced, Kept) = SumFunctionOnSet(values, Kept)
    <3>1. \A p \in Kept : Rebalanced[p] = values[p]
      BY <1>3, <1>5
    <3> HIDE DEF values
    <3> QED
      BY <1>1, <3>1, SumCongruent
  <2>3. Usage = [num |-> sum \div Cardinality(Kept), den |-> metric.target]
    <3>1. DOMAIN values = Kept
      OBVIOUS
    <3>2. Usage = Mean(values)
      BY <1>8, Zenon DEF Usage
    <3> HIDE DEF values, sum
    <3> QED
      BY <2>1, <2>2, <3>1, <3>2, Zenon DEF Mean, Ratio, SumFunction
  <2>4. Mean(Rebalanced) = [num |-> sum \div Cardinality(all), den |-> metric.target]
    BY <1>2, Zenon DEF Mean, Ratio, SumFunction
  <2>5. /\ Cardinality(Kept) \in Nat /\ Cardinality(Kept) > 0
        /\ Cardinality(all) \in Nat /\ Cardinality(Kept) <= Cardinality(all)
    <3>1. Cardinality(Kept) \in Nat /\ Cardinality(all) \in Nat
      BY <1>1, <1>5, FS_CardinalityType
    <3>2. Cardinality(Kept) # 0
      BY <1>1, FS_EmptySet
    <3>3. Cardinality(Kept) <= Cardinality(all)
      BY <1>5, FS_Subset
    <3> QED
      BY <3>1, <3>2, <3>3
  <2>6. sum \in Nat
    BY <1>5, <1>6, SumType
  <2>7. sum \div Cardinality(all) <= sum \div Cardinality(Kept)
    <3> HIDE DEF sum
    <3> QED
      BY <2>5, <2>6, QuotientShrinks
  <2> HIDE DEF sum
  <2> QED
    BY <2>3, <2>4, <2>7
<1>9. Cardinality(DOMAIN Rebalanced) \in Nat
  BY <1>2, <1>5, FS_CardinalityType
<1> QED
  BY <1>7, <1>8, <1>9

-----------------------------------------------------------------------------
(* A ratio of exactly 1 is within every tolerance.                         *)
LEMMA OnTargetIsWithin ==
    ASSUME NEW r, r.num \in Nat, r.num = r.den, r.den > 0
    PROVE  \A w \in Within(r) : w
<1> DEFINE allowed == ScaleTolerance * r.den
<1>1. allowed \in Nat
  BY NumbersAssumption
<1>2. Abs(r.den - r.num) * 100 = 0
  BY DEF Abs
<1>3. ~(Abs(r.den - r.num) * 100 > allowed) /\ ~(Abs(r.den - r.num) * 100 > 0)
  <2> HIDE DEF allowed
  <2> QED
    BY <1>1, <1>2
<1> HIDE DEF allowed
<1>4. Exceeds(r) = {Abs(r.den - r.num) * 100 > allowed}
  <2>1. r.den # 0
    OBVIOUS
  <2> QED
    BY <1>3, <2>1, Zenon DEF Exceeds, allowed
<1>5. \A e \in Exceeds(r) : ~e
  BY <1>3, <1>4, Zenon
<1>6. r.den # 0
  OBVIOUS
<1> QED
  BY <1>5, <1>6, Zenon DEF Within

(* A count computed from the values as evened out is the current one, or   *)
(* goes where they point, which is not away from the usage as measured.    *)
LEMMA EvenedAgrees ==
    ASSUME TypeOK, PerPod, ~Unweighable, metric.target \in Nat, NEW n \in Evened
    PROVE  /\ n \in Int
           /\ n # current /\ metric.target > 0 =>
                \/ Below(Mean(Rebalanced)) /\ ~Above(Usage) /\ n < current
                \/ Above(Mean(Rebalanced)) /\ ~Below(Usage) /\ n > current
<1> DEFINE old == Usage
           new == Mean(Rebalanced)
           counts == Ceilings(new, Cardinality(DOMAIN Rebalanced))
           Contradicts(c) == (Below(new) /\ c > current) \/ (Above(new) /\ c < current)
<1>1. new.num \in Nat /\ new.den = metric.target /\ Cardinality(DOMAIN Rebalanced) \in Nat
  BY RebalancedMean
<1>2. current \in Nat
  BY CountsAssumption DEF TypeOK
<1>3. \A c \in counts : c \in Int
  <2>1. new.den \in Nat
    BY <1>1
  <2> HIDE DEF new
  <2> QED
    BY <1>1, <2>1, CeilingsBound
<1>4. \/ n = current
      \/ /\ ~Turned(old, new)
         /\ \E w \in Within(new) : ~w
         /\ n \in counts /\ ~Contradicts(n)
  <2>1. Evened = IF Turned(old, new) THEN {current}
                 ELSE UNION {IF w THEN {current}
                             ELSE {IF Contradicts(c) THEN current ELSE c : c \in counts} :
                             w \in Within(new)}
    BY DEF Evened
  <2> HIDE DEF old, new, counts, Contradicts
  <2>2. CASE Turned(old, new)
    BY <2>1, <2>2
  <2>3. CASE ~Turned(old, new)
    <3>1. PICK w \in Within(new) :
             n \in IF w THEN {current}
                   ELSE {IF Contradicts(c) THEN current ELSE c : c \in counts}
      BY <2>1, <2>3, Zenon
    <3> QED
      BY <2>3, <3>1, Zenon
  <2> QED
    BY <2>2, <2>3
<1>5. ASSUME n # current, metric.target > 0
      PROVE  \/ Below(new) /\ ~Above(old) /\ n < current
             \/ Above(new) /\ ~Below(old) /\ n > current
  <2>1. ~Turned(old, new) /\ n \in counts /\ ~Contradicts(n)
    <3> HIDE DEF old, new, counts, Contradicts
    <3> QED
      BY <1>4, <1>5
  <2>2. new.num # new.den
    <3>1. \E w \in Within(new) : ~w
      <4> HIDE DEF old, new, counts, Contradicts
      <4> QED
        BY <1>4, <1>5
    <3> HIDE DEF new
    <3> QED
      BY <1>1, <1>5, <3>1, OnTargetIsWithin
  <2>3. n \in Int
    <3> HIDE DEF counts
    <3> QED
      BY <1>3, <2>1
  <2>4. Below(new) \/ Above(new)
    <3> HIDE DEF new
    <3> QED
      BY <1>1, <2>2 DEF Below, Above
  <2>5. (Below(new) => ~(n > current)) /\ (Above(new) => ~(n < current))
    BY <2>1
  <2>6. (Below(new) => ~Above(old)) /\ (Above(new) => ~Below(old))
    BY <2>1 DEF Turned
  <2> HIDE DEF old, new
  <2> QED
    BY <1>2, <1>5, <2>3, <2>4, <2>5, <2>6
<1>6. n \in Int
  <2> HIDE DEF counts, old, new, Contradicts
  <2> QED
    BY <1>2, <1>3, <1>4
<1> QED
  BY <1>5, <1>6

(* What every count of a weighable metric of pods has in common.           *)
LEMMA DesiredAgrees ==
    ASSUME TypeOK, PerPod, ~Unweighable, metric.target # Nil, NEW n \in Desired
    PROVE  /\ n \in Int
           /\ n > current =>
                \/ metric.target = 0 \/ Above(Usage) \/ n <= ReadyPodCount
                \/ /\ metric.type = "Resource"
                   /\ Usage.num = Usage.den /\ Above(Mean(Rebalanced))
           /\ ~Settled /\ metric.target > 0 /\ n # current =>
                (Below(Usage) => n < current) /\ (Above(Usage) => n > current)
<1>1. metric.target \in Nat /\ current \in Nat
  BY MetricsAssumption, CountsAssumption DEF TypeOK, MetricSpec
<1>2. Usage.num \in Nat /\ Usage.den = metric.target /\ IsFiniteSet(Counted)
  BY WeighableTypes
<1>3. ReadyPodCount \in Nat
  <2>1. IsFiniteSet(Counted \ (Missing \cup Unready))
    BY <1>2, FS_Subset
  <2> QED
    BY <2>1, FS_CardinalityType DEF ReadyPodCount
<1>4. metric.type = "Pods" \/ metric.type = "Resource"
  <2>1. CASE metric.type = "ContainerResource"
    <3>1. \A p : Request(p) = 0
      BY <2>1 DEF Request
    <3> QED
      BY <2>1, <3>1 DEF Unweighable
  <2> QED
    BY <2>1 DEF PerPod
<1>5. CASE n \in Evened
  <2>1. /\ n \in Int
        /\ n # current /\ metric.target > 0 =>
             \/ Below(Mean(Rebalanced)) /\ ~Above(Usage) /\ n < current
             \/ Above(Mean(Rebalanced)) /\ ~Below(Usage) /\ n > current
    BY <1>1, <1>5, EvenedAgrees
  <2>2. ASSUME n > current, metric.target # 0, ~Above(Usage)
        PROVE  /\ metric.type = "Resource"
               /\ Usage.num = Usage.den /\ Above(Mean(Rebalanced))
    <3>1. Above(Mean(Rebalanced)) /\ ~Below(Usage)
      BY <1>1, <2>1, <2>2
    <3>2. Usage.num = Usage.den
      BY <1>1, <1>2, <2>2, <3>1 DEF Above, Below
    <3>3. metric.type # "Pods"
      <4>1. Mean(Rebalanced).num \in Nat /\ Mean(Rebalanced).den = metric.target
        BY <1>1, RebalancedMean
      <4>2. metric.type = "Pods" => Mean(Rebalanced).num <= Usage.num
        BY <1>1, <3>1, RebalancedMean
      <4> QED
        BY <1>1, <1>2, <3>1, <3>2, <4>1, <4>2 DEF Above
    <3> QED
      BY <1>4, <3>1, <3>2, <3>3
  <2> QED
    BY <1>1, <2>1, <2>2
<1>6. CASE n = current
  BY <1>1, <1>6
<1>7. CASE n \in Ceilings(Usage, ReadyPodCount) /\ Settled
  <2>1. n \in Int /\ (Usage.den > 0 /\ ~Above(Usage) => n <= ReadyPodCount)
    BY <1>1, <1>2, <1>3, <1>7, CeilingsBound
  <2> QED
    BY <1>1, <1>2, <1>7, <2>1
<1>8. n \in Evened \/ n = current \/ (n \in Ceilings(Usage, ReadyPodCount) /\ Settled)
  <2>1. CASE ~Settled
    BY <2>1 DEF Desired
  <2>2. CASE Settled
    <3>1. PICK w \in Within(Usage) : n \in Direct(w)
      BY <2>2, Zenon DEF Desired
    <3> QED
      BY <2>2, <3>1, Zenon DEF Direct
  <2> QED
    BY <2>1, <2>2
<1> QED
  BY <1>5, <1>6, <1>7, <1>8

-----------------------------------------------------------------------------
(* Whether a ratio exceeds the tolerance is a yes or a no that says where  *)
(* its distance from 1 lies, on which side or exactly on the tolerance.    *)
LEMMA ExceedsMeans ==
    ASSUME NEW r, r.num \in Nat, r.den \in Nat, NEW c \in Exceeds(r)
    PROVE  /\ c \in BOOLEAN
           /\ c => Abs(r.den - r.num) * 100 >= ScaleTolerance * r.den
           /\ ~c => Abs(r.den - r.num) * 100 <= ScaleTolerance * r.den
<1> DEFINE distance == Abs(r.den - r.num) * 100
           allowed == ScaleTolerance * r.den
<1>1. distance \in Nat /\ allowed \in Nat
  BY NumbersAssumption DEF Abs
<1>2. c \in CASE r.den = 0                            -> {r.num > 0}
              [] distance = allowed /\ distance > 0 -> BOOLEAN
              [] OTHER                              -> {distance > allowed}
  BY Zenon DEF Exceeds
<1>3. r.den = 0 => distance = r.num * 100 /\ allowed = 0
  BY NumbersAssumption DEF Abs
<1>4. CASE r.den = 0 /\ ~(distance = allowed /\ distance > 0)
  <2> HIDE DEF distance, allowed
  <2>1. c = (r.num > 0)
    BY <1>2, <1>4, Zenon
  <2>2. /\ r.num > 0 => distance >= allowed
        /\ ~(r.num > 0) => distance <= allowed
    BY <1>3, <1>4
  <2>3. (r.num > 0) \in BOOLEAN
    OBVIOUS
  <2> QED
    BY <2>1, <2>2, <2>3, Zenon DEF distance, allowed
<1>5. CASE r.den # 0 /\ ~(distance = allowed /\ distance > 0)
  <2> HIDE DEF distance, allowed
  <2>1. c = (distance > allowed)
    BY <1>2, <1>5, Zenon
  <2>2. /\ distance > allowed => distance >= allowed
        /\ ~(distance > allowed) => distance <= allowed
        /\ (distance > allowed) \in BOOLEAN
    BY <1>1
  <2> QED
    BY <2>1, <2>2, Zenon DEF distance, allowed
<1>6. CASE distance = allowed /\ distance > 0
  <2> HIDE DEF distance, allowed
  <2>1. r.den # 0
    BY <1>1, <1>3, <1>6
  <2>2. c \in BOOLEAN
    BY <1>2, <1>6, <2>1, Zenon
  <2>3. distance >= allowed /\ distance <= allowed
    BY <1>1, <1>6
  <2> QED
    BY <2>2, <2>3, Zenon DEF distance, allowed
<1> QED
  BY <1>4, <1>5, <1>6

(* An Object's average answers the current count, within the tolerance, or *)
(* the quotient rounded up, beyond it.                                     *)
Average(value, n, answered) ==
    \/ /\ answered = n
       /\ Abs(metric.target * n - value) * 100 <= ScaleTolerance * (metric.target * n)
    \/ /\ answered = CeilDiv(value, metric.target)
       /\ Abs(metric.target * n - value) * 100 >= ScaleTolerance * (metric.target * n)

(* The quotient of an average is rounded up exactly.                       *)
LEMMA CeilingOfOne ==
    ASSUME NEW value \in Nat, NEW t \in Nat, t > 0, NEW n \in Ceilings(Ratio(value, t), 1)
    PROVE  n = CeilDiv(value, t)
<1>1. Ratio(value, t) = [num |-> value, den |-> t]
  BY Zenon DEF Ratio
<1>2. value * 1 = value /\ t # 0
  OBVIOUS
<1>3. Ceilings([num |-> value, den |-> t], 1) =
         {CeilDiv(value * 1, t)} \cup
         (IF 1 > 0 /\ (value * 1) % t = 0 /\ value % t # 0
          THEN {CeilDiv(value * 1, t) + 1} ELSE {})
  BY <1>2 DEF Ceilings
<1> QED
  BY <1>1, <1>2, <1>3

(* The counts for an average of an Object.                                 *)
LEMMA ObjectAverages ==
    ASSUME TypeOK, metric.type = "Object", metric.target \in Nat, metric.target > 0,
           NEW value \in Nat, NEW n \in PerReplica(value)
    PROVE  Average(value, current, n)
<1> DEFINE t == metric.target
           ratio == Ratio(value, t * current)
<1>1. t \in Nat /\ current \in Nat /\ t * current \in Nat
  BY CountsAssumption DEF TypeOK
<1>2. ratio.num = value /\ ratio.den = t * current
  BY DEF Ratio
<1>3. PICK c \in Exceeds(ratio) : n \in IF c THEN Ceilings(Ratio(value, t), 1) ELSE {current}
  BY Zenon DEF PerReplica
<1>4. /\ c \in BOOLEAN
      /\ c => Abs(t * current - value) * 100 >= ScaleTolerance * (t * current)
      /\ ~c => Abs(t * current - value) * 100 <= ScaleTolerance * (t * current)
  <2>1. ratio.num \in Nat /\ ratio.den \in Nat
    BY <1>1, <1>2
  <2> HIDE DEF ratio, t
  <2> QED
    BY <1>2, <1>3, <2>1, ExceedsMeans
<1>5. CASE c
  <2>1. n = CeilDiv(value, t)
    BY <1>3, <1>5, CeilingOfOne
  <2> QED
    BY <1>4, <1>5, <2>1 DEF Average
<1>6. CASE ~c
  BY <1>3, <1>4, <1>6 DEF Average
<1> QED
  BY <1>5, <1>6

(* The counts for an average per replica: integers, and with a target the  *)
(* least count that meets it, or a tolerated current one.                  *)
LEMMA PerReplicaMeets ==
    ASSUME TypeOK, metric.target \in Nat, NEW value \in Nat, NEW n \in PerReplica(value)
    PROVE  /\ n \in Int
           /\ metric.target > 0 =>
                \/ /\ n * metric.target >= value
                   /\ \A k \in 0..(n - 1) : k * metric.target < value
                \/ /\ metric.type = "Object" /\ n = current
                   /\ Abs(metric.target * current - value) * 100
                        <= ScaleTolerance * metric.target * current
<1> DEFINE t == metric.target
           ratio == Ratio(value, t * current)
           changes == IF metric.type = "Object" THEN Exceeds(ratio) ELSE {ratio.num # ratio.den}
<1>1. t \in Nat /\ current \in Nat /\ t * current \in Nat
  BY CountsAssumption DEF TypeOK
<1>2. ratio = [num |-> value, den |-> t * current]
  BY DEF Ratio
<1>3. PICK c \in changes : n \in IF c THEN Ceilings(Ratio(value, t), 1) ELSE {current}
  BY Zenon DEF PerReplica
<1>4. CASE c /\ n \in Ceilings(Ratio(value, t), 1)
  <2>1. Ratio(value, t) = [num |-> value, den |-> t]
    BY Zenon DEF Ratio
  <2>2. n \in Int
    <3> HIDE DEF t
    <3> QED
      BY <1>1, <1>4, <2>1, CeilingsBound
  <2>3. ASSUME t > 0
        PROVE  n * t >= value /\ \A k \in 0..(n - 1) : k * t < value
    <3>1. n = CeilDiv(value, t)
      BY <1>4, <2>3, CeilingOfOne
    <3>2. n * t >= value /\ (n - 1) * t < value
      <4> HIDE DEF t
      <4> QED
        BY <1>1, <2>3, <3>1, CeilDivLeast
    <3>3. ASSUME NEW k \in 0..(n - 1) PROVE k * t < value
      <4>1. k \in Int /\ k <= n - 1
        BY <2>2
      <4>2. k * t <= (n - 1) * t
        BY <1>1, <2>2, <4>1
      <4>3. k * t \in Int /\ (n - 1) * t \in Int
        BY <1>1, <2>2, <4>1
      <4> HIDE DEF t
      <4> QED
        BY <3>2, <4>2, <4>3
    <3> QED
      BY <3>2, <3>3
  <2> QED
    BY <2>2, <2>3
<1>5. CASE ~c /\ n = current
  <2>1. CASE metric.type = "Object"
    <3>1. c \in Exceeds(ratio)
      BY <2>1
    <3>2. Abs(t * current - value) * 100 <= ScaleTolerance * (t * current)
      <4>1. ratio.num \in Nat /\ ratio.den \in Nat
        BY <1>1, <1>2
      <4> HIDE DEF ratio, t
      <4> QED
        BY <1>2, <1>5, <3>1, <4>1, ExceedsMeans
    <3>3. ScaleTolerance * (t * current) = ScaleTolerance * t * current
      BY <1>1, NumbersAssumption
    <3> QED
      BY <1>1, <1>5, <2>1, <3>2, <3>3
  <2>2. CASE metric.type # "Object"
    <3>1. value = t * current
      <4>1. c = (ratio.num # ratio.den)
        BY <2>2, Zenon
      <4>2. ratio.num = ratio.den
        BY <1>5, <4>1, Zenon
      <4> QED
        BY <1>2, <4>2
    <3>2. ASSUME t > 0, NEW k \in 0..(current - 1) PROVE k * t < value
      <4>1. k \in Nat /\ k < current
        BY <1>1
      <4> HIDE DEF t
      <4> QED
        BY <1>1, <3>1, <3>2, <4>1
    <3>3. current * t >= value
      <4> HIDE DEF t
      <4> QED
        BY <1>1, <3>1
    <3> QED
      BY <1>1, <1>5, <3>2, <3>3
  <2> QED
    BY <2>1, <2>2
<1> QED
  BY <1>3, <1>4, <1>5, Zenon

(* And the counts that getUsageRatioReplicas may arrive at are integers.   *)
LEMMA ByUsageRatioType ==
    ASSUME TypeOK, metric.target \in Nat, NEW value \in Nat, NEW ready \in Nat,
           NEW n \in ByUsageRatio(value, ready)
    PROVE  n \in Int
<1> DEFINE ratio == Ratio(value, metric.target)
<1>1. current \in Nat
  BY CountsAssumption DEF TypeOK
<1>2. ratio.num \in Nat /\ ratio.den \in Nat
  BY DEF Ratio
<1>3. \/ n = current
      \/ n \in Ceilings(ratio, 1)
      \/ n \in Ceilings(ratio, ready)
  BY Zenon DEF ByUsageRatio
<1> HIDE DEF ratio
<1> QED
  BY <1>1, <1>2, <1>3, CeilingsBound

-----------------------------------------------------------------------------
(* Until a snapshot has been read it is empty, so an error on the way finds*)
(* nothing to even out; and only a metric of pods that has its source and a*)
(* selector reads the list.                                                *)
Unread ==
    /\ pc \in {"idle", "fetch"} => info = None
    /\ pc \in {"list", "compute"} => PerPod /\ ~Sourceless /\ ~Selectorless
    /\ pc \in {"idle", "fetch", "list"} => pods = None

(* Whatever the two snapshots say, a calculation that answers answers an   *)
(* integer, and it never looks at a snapshot that it has not read.         *)
THEOREM Typing == Spec => [](TypeOK /\ Unread)
<1>1. Init => TypeOK /\ Unread
  BY NoneIsSnapshot DEF Init, TypeOK, Unread, PerPod, Steps, Sourceless, Selectorless
<1>2. TypeOK /\ Unread /\ [Next]_vars => TypeOK' /\ Unread'
  <2> SUFFICES ASSUME TypeOK, Unread, [Next]_vars
               PROVE  TypeOK' /\ Unread'
    OBVIOUS
  <2>1. /\ current \in Nat /\ Usages \subseteq Nat
        /\ metric.target \in Nat \/ metric.target = Nil
    BY CountsAssumption, UsagesAssumption, MetricsAssumption DEF TypeOK, MetricSpec
  <2>2. CASE UNCHANGED vars
    BY <2>2 DEF vars, TypeOK, Unread, PerPod, Sourceless, Selectorless
  <2>3. CASE Begin
    BY <2>3 DEF Begin, TypeOK, Unread, PerPod, Steps, Sourceless, Selectorless
  <2>4. CASE Return
    BY <2>4, NoneIsSnapshot DEF Return, TypeOK, Unread, PerPod, Steps, Sourceless, Selectorless
  <2>5. CASE FetchFails \/ ListFails \/ ComputeFails
    <3>1. /\ \/ pc' = "failed" /\ answer' = answer
             \/ pc' = "answered" /\ answer' = 0
          /\ UNCHANGED <<metric, current, info, total, pods>>
      BY <2>5 DEF FetchFails, ListFails, ComputeFails, Fail, Answer
    <3> QED
      BY <3>1 DEF TypeOK, Unread, PerPod, Steps, Sourceless, Selectorless
  <2>6. CASE FetchPodMetrics
    BY <2>6 DEF FetchPodMetrics, Panic, TypeOK, Unread, PerPod, Steps, Sourceless, Selectorless
  <2>7. CASE List
    BY <2>7 DEF List, TypeOK, Unread, PerPod, Steps, Sourceless, Selectorless
  <2>8. CASE TargetMissing \/ FetchPanics
    BY <2>8 DEF TargetMissing, FetchPanics, Panic, TypeOK, Unread, PerPod, Steps, Sourceless, Selectorless
  <2>9. CASE Compute
    <3>1. /\ \/ pc' = "crashed" /\ answer' = answer
             \/ pc' = "answered" /\ answer' \in Desired
          /\ UNCHANGED <<metric, current, info, total, pods>>
      BY <2>9 DEF Compute, Panic, Answer
    <3>2. pc' = "answered" => answer' \in Int
      <4>1. PerPod
        BY <2>9 DEF Compute, Unread
      <4> QED
        BY <2>9, <3>1, <4>1, DesiredAgrees DEF Compute
    <3> QED
      BY <3>1, <3>2 DEF TypeOK, Unread, PerPod, Steps, Sourceless, Selectorless
  <2>10. CASE Keep
    BY <2>1, <2>10 DEF Keep, Answer, TypeOK, Unread, PerPod, Steps, Sourceless, Selectorless
  <2>11. CASE FetchTotal
    <3>1. /\ \/ pc' = "crashed" /\ answer' = answer
             \/ pc' = "answered" /\ metric.target # Nil /\ answer' \in PerReplica(total')
          /\ total' \in Usages /\ UNCHANGED <<metric, current, info, pods>>
      BY <2>11 DEF FetchTotal, Panic, Answer
    <3>2. pc' = "answered" => answer' \in Int
      BY <2>1, <3>1, PerReplicaMeets
    <3> QED
      BY <3>1, <3>2 DEF TypeOK, Unread, PerPod, Steps, Sourceless, Selectorless
  <2>12. CASE FetchTotalOfValue
    <3>1. /\ \/ pc' = "crashed" /\ answer' = answer
             \/ pc' = "answered" /\ answer' = 0
             \/ pc' = "failed" /\ answer' = answer
             \/ /\ pc' = "answered" /\ metric.target # Nil
                /\ \E ready \in 0..Cardinality(Pods) : answer' \in ByUsageRatio(total', ready)
          /\ total' \in Usages /\ UNCHANGED <<metric, current, info, pods>>
      BY <2>12 DEF FetchTotalOfValue, Panic, Answer, Fail
    <3>2. (\E ready \in 0..Cardinality(Pods) : answer' \in ByUsageRatio(total', ready))
             /\ metric.target # Nil => answer' \in Int
      <4>1. Cardinality(Pods) \in Nat
        BY PodsAssumption, FS_CardinalityType
      <4> QED
        BY <2>1, <3>1, <4>1, ByUsageRatioType
    <3> QED
      BY <3>1, <3>2 DEF TypeOK, Unread, PerPod, Steps, Sourceless, Selectorless
  <2> QED
    BY <2>2, <2>3, <2>4, <2>5, <2>6, <2>7, <2>8, <2>9, <2>10, <2>11, <2>12 DEF Next
<1> QED
  BY <1>1, <1>2, PTL DEF Spec

-----------------------------------------------------------------------------
(* An answer to a metric of pods is a count from the two snapshots, or the *)
(* 0 of a Pods metric that failed: nothing could be weighed, or there was  *)
(* nothing to even out.                                                    *)
LEMMA AnswersOfPods ==
    ASSUME TypeOK, Unread, Next, pc' = "answered", PerPod'
    PROVE  /\ UNCHANGED <<metric, current, info, pods>>
           /\ \/ ~Unweighable /\ metric.target # Nil /\ answer' \in Desired
              \/ answer' = 0 /\ (Unweighable \/ Settled)
<1>1. CASE Compute
  BY <1>1 DEF Compute, Panic, Answer
<1>2. CASE FetchFails \/ ListFails
  <2>1. UNCHANGED <<metric, current, info, pods>> /\ answer' = 0 /\ pods = None
    BY <1>2 DEF FetchFails, ListFails, Fail, Answer, Unread
  <2>2. Counted = {} /\ DOMAIN pods = {}
    BY <2>1, NoneIsSnapshot DEF Counted
  <2>3. Settled
    BY <2>2 DEF Settled, RebalanceIgnored, Missing, Unready
  <2> QED
    BY <2>1, <2>3
<1>3. CASE ComputeFails
  <2>1. UNCHANGED <<metric, current, info, pods>> /\ answer' = 0 /\ metric.type = "Pods"
    BY <1>3 DEF ComputeFails, Fail, Answer
  <2>2. Unweighable
    BY <1>3, <2>1 DEF ComputeFails, RequestsRefused
  <2> QED
    BY <2>1, <2>2
<1>4. CASE Keep \/ FetchTotal \/ FetchTotalOfValue \/ FetchPanics
  BY <1>4 DEF Keep, FetchTotal, FetchTotalOfValue, FetchPanics, AsItIs, PerPod, Panic
<1>5. CASE Begin \/ Return \/ FetchPodMetrics \/ List \/ TargetMissing
  BY <1>5 DEF Begin, Return, FetchPodMetrics, List, TargetMissing, Panic
<1> QED
  BY <1>1, <1>2, <1>3, <1>4, <1>5 DEF Next

(* A usage at or below its target asks for no more than what runs now or   *)
(* is ready, but for a Resource exactly on its target.                     *)
THEOREM QuietUsage == Spec => []QuietNeverGrows
<1>1. Init => QuietNeverGrows
  BY DEF Init, QuietNeverGrows
<1>2. TypeOK /\ Unread /\ QuietNeverGrows /\ [Next]_vars => QuietNeverGrows'
  <2> SUFFICES ASSUME TypeOK, Unread, QuietNeverGrows, [Next]_vars
               PROVE  QuietNeverGrows'
    OBVIOUS
  <2>1. CASE UNCHANGED vars
    <3>1. UNCHANGED <<metric, info, pods, pc, current, answer>>
      BY <2>1 DEF vars
    <3> QED
      BY <3>1, SnapshotsDecide DEF QuietNeverGrows, PerPod, Above
  <2>2. CASE Next
    <3> SUFFICES ASSUME pc' = "answered", PerPod', answer' > current'
                 PROVE  (\/ metric.target = 0 \/ Above(Usage) \/ answer <= ReadyPodCount
                         \/ /\ metric.type = "Resource"
                            /\ Usage.num = Usage.den /\ Above(Mean(Rebalanced)))'
      BY Zenon DEF QuietNeverGrows
    <3>1. /\ UNCHANGED <<metric, current, info, pods>>
          /\ \/ ~Unweighable /\ metric.target # Nil /\ answer' \in Desired
             \/ answer' = 0 /\ (Unweighable \/ Settled)
      BY <2>2, AnswersOfPods
    <3>2. current \in Nat
      BY CountsAssumption DEF TypeOK
    <3>3. ~Unweighable /\ metric.target # Nil /\ answer' \in Desired
      BY <3>1, <3>2
    <3>4. PerPod /\ answer' > current
      BY <3>1 DEF PerPod
    <3>5. \/ metric.target = 0 \/ Above(Usage) \/ answer' <= ReadyPodCount
          \/ /\ metric.type = "Resource"
             /\ Usage.num = Usage.den /\ Above(Mean(Rebalanced))
      BY <3>3, <3>4, DesiredAgrees
    <3>6. /\ Usage' = Usage /\ ReadyPodCount' = ReadyPodCount
          /\ Mean(Rebalanced)' = Mean(Rebalanced)
      BY <3>1, SnapshotsDecide
    <3> QED
      BY <3>1, <3>5, <3>6 DEF Above
  <2> QED
    BY <2>1, <2>2
<1> QED
  BY <1>1, <1>2, Typing, PTL DEF Spec

(* Values that were filled in never turn the decision round.               *)
THEOREM NotAgainstUsage == Spec => []NeverAgainstUsage
<1>1. Init => NeverAgainstUsage
  BY DEF Init, NeverAgainstUsage
<1>2. TypeOK /\ Unread /\ NeverAgainstUsage /\ [Next]_vars => NeverAgainstUsage'
  <2> SUFFICES ASSUME TypeOK, Unread, NeverAgainstUsage, [Next]_vars
               PROVE  NeverAgainstUsage'
    OBVIOUS
  <2>1. CASE UNCHANGED vars
    <3>1. UNCHANGED <<metric, info, pods, pc, current, answer>>
      BY <2>1 DEF vars
    <3> QED
      BY <3>1, SnapshotsDecide DEF NeverAgainstUsage, PerPod, Above, Below
  <2>2. CASE Next
    <3> SUFFICES ASSUME pc' = "answered", PerPod', ~Unweighable', ~Settled',
                        (metric.target > 0)', (answer # current)'
                 PROVE  (/\ Below(Usage) => answer < current
                         /\ Above(Usage) => answer > current)'
      BY Zenon DEF NeverAgainstUsage
    <3>1. /\ UNCHANGED <<metric, current, info, pods>>
          /\ \/ ~Unweighable /\ metric.target # Nil /\ answer' \in Desired
             \/ answer' = 0 /\ (Unweighable \/ Settled)
      BY <2>2, AnswersOfPods
    <3>2. Usage' = Usage /\ (Unweighable' <=> Unweighable) /\ (Settled' <=> Settled)
      BY <3>1, SnapshotsDecide
    <3>3. ~Unweighable /\ ~Settled /\ metric.target # Nil /\ answer' \in Desired
      BY <3>1, <3>2
    <3>4. PerPod /\ answer' # current /\ metric.target > 0
      BY <3>1 DEF PerPod
    <3>5. (Below(Usage) => answer' < current) /\ (Above(Usage) => answer' > current)
      BY <3>3, <3>4, DesiredAgrees
    <3> QED
      BY <3>1, <3>2, <3>5 DEF Above, Below
  <2> QED
    BY <2>1, <2>2
<1> QED
  BY <1>1, <1>2, Typing, PTL DEF Spec

(* An average per replica is met by the least count that meets it, or its  *)
(* Object is within the tolerance and keeps the current count.             *)
THEOREM AveragesAreMet == Spec => []AverageMet
<1>1. Init => AverageMet
  BY DEF Init, AverageMet
<1>2. TypeOK /\ Unread /\ AverageMet /\ [Next]_vars => AverageMet'
  <2> SUFFICES ASSUME TypeOK, Unread, AverageMet, [Next]_vars,
                      pc' = "answered", ~PerPod', (metric.by = "AverageValue")',
                      (metric.target > 0)'
               PROVE  (\/ Least(answer)
                       \/ /\ metric.type = "Object" /\ answer = current
                          /\ Abs(metric.target * current - total) * 100
                               <= ScaleTolerance * metric.target * current)'
    BY Zenon DEF AverageMet
  <2>1. CASE UNCHANGED vars
    BY <2>1 DEF vars, AverageMet, PerPod, Least
  <2>2. CASE FetchTotal
    <3>1. /\ metric.target # Nil /\ answer' \in PerReplica(total') /\ total' \in Usages
          /\ UNCHANGED <<metric, current>>
      BY <2>2 DEF FetchTotal, Panic, Answer
    <3>2. metric.target \in Nat /\ total' \in Nat
      BY <3>1, MetricsAssumption, UsagesAssumption DEF TypeOK, MetricSpec
    <3>3. \/ /\ answer' * metric.target >= total'
             /\ \A k \in 0..(answer' - 1) : k * metric.target < total'
          \/ /\ metric.type = "Object" /\ answer' = current
             /\ Abs(metric.target * current - total') * 100
                  <= ScaleTolerance * metric.target * current
      BY <3>1, <3>2, PerReplicaMeets
    <3> QED
      BY <3>1, <3>3 DEF Least
  <2>3. CASE FetchTotalOfValue \/ Keep \/ FetchPanics
    BY <2>3 DEF FetchTotalOfValue, Keep, FetchPanics, AsItIs, Panic, Answer, Fail
  <2>4. CASE FetchFails \/ ListFails \/ ComputeFails
    <3>1. metric' = metric /\ metric.type # "Pods"
      BY <2>4 DEF FetchFails, ListFails, ComputeFails, PerPod
    <3> QED
      BY <2>4, <3>1 DEF FetchFails, ListFails, ComputeFails, Fail
  <2>5. CASE Compute
    BY <2>5 DEF Compute, PerPod, Unread
  <2>6. CASE Begin \/ Return \/ FetchPodMetrics \/ List \/ TargetMissing
    BY <2>6 DEF Begin, Return, FetchPodMetrics, List, TargetMissing, Panic
  <2> QED
    BY <2>1, <2>2, <2>3, <2>4, <2>5, <2>6 DEF Next
<1> QED
  BY <1>1, <1>2, Typing, PTL DEF Spec

-----------------------------------------------------------------------------
(* How a calculation ends, said without the round.                         *)
PlainAnswer ==
    \/ MetricType \in Unrelated
    \/ MetricType = "ObjectAverage" /\ metric.target > 0 /\ Average(total, current, answer)
    \/ MetricType \in {"ObjectValue", "PodsFaulty"} /\ answer = 0
    \/ MetricType = "ObjectUtilization" /\ answer = current
PlainFailure ==
    MetricType \in {"ContainerResource", "ObjectAverage", "ObjectValue", "ObjectRefused",
                    "ObjectUntargeted", "ObjectZero", "Resource", "ResourceUtilization",
                    "ExternalOfObject"}
PlainPanic ==
    MetricType \in {"External", "ExternalOfObject", "ObjectUntargeted", "PodsFaulty",
                    "ResourceUtilization", "Sourceless"}
Plain ==
    /\ pc = "answered" => PlainAnswer
    /\ pc = "failed" => PlainFailure
    /\ pc = "crashed" => PlainPanic

(* The round asks this metric.                                             *)
LEMMA RoundAsks == Round!Metric = MetricType
BY DEF Round!Metric, Round!Config

(* And it allows for what ends so.                                         *)
LEMMA PlainIsCovered ==
    ASSUME TypeOK, Plain
    PROVE  Covered
<1>1. PlainFailure => MetricType \in Round!Failing
  BY DEF PlainFailure, Round!Failing
<1>2. PlainPanic => MetricType \in Round!Panicking
  BY DEF PlainPanic, Round!Panicking
<1>3. ASSUME PlainAnswer, MetricType = "ObjectAverage"
      PROVE  answer \in Round!CountsPerPod(total, metric.target, current)
  <2>1. Average(total, current, answer)
    BY <1>3 DEF PlainAnswer, Unrelated
  <2>2. /\ Round!Distance(total, metric.target, current) =
              Abs(metric.target * current - total) * 100
        /\ Round!Allowed(metric.target, current) = ScaleTolerance * (metric.target * current)
        /\ Round!Needed(total, metric.target) = CeilDiv(total, metric.target)
    BY Zenon DEF Round!Distance, Round!Allowed, Round!Needed, Round!Abs, Abs, CeilDiv
  <2> QED
    BY <2>1, <2>2, Zenon DEF Average, Round!CountsPerPod
<1>4. ASSUME PlainAnswer, MetricType \notin Unrelated \cup {"ObjectAverage"}
      PROVE  answer \in Round!Answers
  <2>1. CASE MetricType \in {"ObjectValue", "PodsFaulty"} /\ answer = 0
    BY <2>1, RoundAsks DEF Round!Answers, Round!ObjectValue
  <2>2. CASE MetricType = "ObjectUtilization" /\ answer = current
    BY <2>2, RoundAsks DEF Round!Answers
  <2> QED
    BY <1>4, <2>1, <2>2 DEF PlainAnswer
<1> QED
  BY <1>1, <1>2, <1>3, <1>4 DEF Plain, Covered

(* Each type of metric has its names.                                      *)
LEMMA NamesOfMetrics ==
    ASSUME TypeOK
    PROVE  /\ metric.target \in Nat \cup {Nil}
           /\ metric.type \in {"Resource", "ContainerResource", "Pods", "Object", "External"}
           /\ metric.type = "External" =>
                MetricType = IF metric.by = Nil THEN "External" ELSE "ExternalOfObject"
           /\ metric.type # "External" /\ Sourceless => MetricType = "Sourceless"
           /\ metric.type = "Pods" /\ ~Sourceless =>
                MetricType = IF Faulty THEN "PodsFaulty" ELSE "Pods"
           /\ metric.type \in {"Resource", "ContainerResource"} /\ ~Sourceless =>
                MetricType = IF metric.target = Nil THEN "ResourceUtilization" ELSE metric.type
           /\ metric.type = "Object" /\ ~Sourceless => MetricType = ObjectType
<1>1. metric \in MetricSpec
  BY MetricsAssumption DEF TypeOK
<1> QED
  BY <1>1 DEF MetricSpec, MetricType

(* Every metric is answered, fails or panics only as the round of Zaohua,  *)
(* which sees it as one step, allows for.                                  *)
THEOREM RoundsAllowForCalculations == Spec => []Covered
<1>1. Init => Plain
  BY DEF Init, Plain
<1>2. TypeOK /\ Unread /\ Plain /\ [Next]_vars => Plain'
  <2> SUFFICES ASSUME TypeOK, Unread, Plain, [Next]_vars
               PROVE  (/\ pc = "answered" => PlainAnswer
                       /\ pc = "failed" => PlainFailure
                       /\ pc = "crashed" => PlainPanic)'
    BY Zenon DEF Plain
  <2>1. CASE UNCHANGED vars
    <3>1. MetricType' = MetricType
      BY <2>1 DEF vars, MetricType, ObjectType, Faulty, Sourceless, PerPod
    <3> QED
      BY <2>1, <3>1 DEF vars, Plain, PlainAnswer, PlainFailure, PlainPanic, Average
  <2>2. CASE Begin \/ Return \/ List
    BY <2>2 DEF Begin, Return, List
  <2>3. ASSUME UNCHANGED <<metric, current>>
        PROVE  /\ MetricType' = MetricType
               /\ (PlainFailure' <=> PlainFailure) /\ (PlainPanic' <=> PlainPanic)
    <3>1. MetricType' = MetricType
      BY <2>3 DEF MetricType, ObjectType, Faulty, Sourceless, PerPod
    <3> QED
      BY <3>1 DEF PlainFailure, PlainPanic
  <2>4. CASE FetchFails \/ ListFails \/ ComputeFails
    <3>1. UNCHANGED <<metric, current>> /\ Fail /\ ~Sourceless /\ ~AsItIs
      <4>1. CASE FetchFails
        BY <4>1 DEF FetchFails
      <4>2. CASE ListFails
        BY <4>2 DEF ListFails, Unread, AsItIs
      <4>3. CASE ComputeFails
        <5>1. PerPod /\ ~Sourceless
          BY <4>3 DEF ComputeFails, Unread
        <5> QED
          BY <4>3, <5>1 DEF ComputeFails, AsItIs
      <4> QED
        BY <2>4, <4>1, <4>2, <4>3
    <3>2. CASE metric.type = "Pods"
      <4>1. pc' = "answered" /\ answer' = 0
        BY <3>1, <3>2 DEF Fail, Answer
      <4>2. MetricType \in {"PodsFaulty", "Pods"}
        BY <3>1, <3>2, NamesOfMetrics
      <4> QED
        BY <2>3, <3>1, <4>1, <4>2 DEF PlainAnswer, Unrelated
    <3>3. CASE metric.type # "Pods"
      <4>1. pc' = "failed"
        BY <3>1, <3>3 DEF Fail
      <4>2. PlainFailure
        BY <3>1, <3>3, NamesOfMetrics DEF PlainFailure, Sourceless, AsItIs, PerPod, ObjectType
      <4> QED
        BY <2>3, <3>1, <4>1, <4>2
    <3> QED
      BY <3>2, <3>3
  <2>5. CASE FetchPodMetrics
    <3>1. /\ UNCHANGED <<metric, current>> /\ ~Sourceless
          /\ \/ pc' = "list"
             \/ pc' = "crashed" /\ metric.type = "Pods" /\ metric.target = Nil
      BY <2>5 DEF FetchPodMetrics, Panic
    <3> QED
      BY <2>3, <3>1, NamesOfMetrics DEF PlainPanic, Faulty
  <2>6. CASE TargetMissing
    <3>1. UNCHANGED <<metric, current>> /\ pc' = "crashed" /\ metric.target = Nil
          /\ PerPod /\ ~Sourceless
      BY <2>6 DEF TargetMissing, Panic, Unread
    <3> QED
      BY <2>3, <3>1, NamesOfMetrics DEF PlainPanic, Faulty, PerPod
  <2>7. CASE Compute
    <3>1. UNCHANGED <<metric, current>> /\ metric.target # Nil /\ ~Unweighable
          /\ PerPod /\ ~Sourceless /\ ~Selectorless
      BY <2>7 DEF Compute, Unread
    <3>2. metric.type # "ContainerResource"
      <4>1. metric.type = "ContainerResource" => \A p : Request(p) = 0
        BY DEF Request
      <4> QED
        BY <3>1, <4>1 DEF Unweighable
    <3>3. MetricType \in Unrelated
      BY <3>1, <3>2, NamesOfMetrics DEF PerPod, Faulty, Selectorless, Unrelated
    <3>4. pc' = "answered"
      <4>1. Weighed # {}
        BY <3>1 DEF Unweighable
      <4> QED
        BY <2>7, <4>1 DEF Compute, Answer
    <3> QED
      BY <2>3, <3>1, <3>3, <3>4 DEF PlainAnswer
  <2>8. CASE Keep
    <3>1. UNCHANGED <<metric, current>> /\ pc' = "answered" /\ answer' = current /\ AsItIs
      BY <2>8 DEF Keep, Answer
    <3>2. MetricType \in {"ObjectUtilization", "ExternalOfObject"}
      BY <3>1, NamesOfMetrics, NilAssumption DEF AsItIs, PerPod, Sourceless, ObjectType
    <3> QED
      BY <2>3, <3>1, <3>2 DEF PlainAnswer, Unrelated
  <2>9. ASSUME ~PerPod, ~Sourceless, metric.selects, metric.by \in {"Value", "AverageValue"}
        PROVE  \/ metric.type = "External" /\ MetricType = "ExternalOfObject"
               \/ metric.type = "Object" /\ MetricType = ObjectType
    BY <2>9, NamesOfMetrics, NilAssumption DEF PerPod
  <2>10. CASE FetchTotal
    <3>1. /\ UNCHANGED <<metric, current>> /\ ~PerPod /\ ~Sourceless /\ metric.selects
          /\ metric.by = "AverageValue" /\ total' \in Nat
      BY <2>10, UsagesAssumption DEF FetchTotal
    <3>2. CASE metric.type = "External"
      <4>1. MetricType = "ExternalOfObject"
        BY <2>9, <3>1, <3>2
      <4>2. pc' = "crashed" \/ pc' = "answered"
        BY <2>10 DEF FetchTotal, Panic, Answer
      <4> QED
        BY <2>3, <3>1, <4>1, <4>2 DEF PlainAnswer, PlainPanic, Unrelated
    <3>3. CASE metric.type = "Object" /\ metric.target = Nil
      <4>1. MetricType = "ObjectUntargeted"
        BY <2>9, <3>1, <3>3 DEF ObjectType
      <4>2. pc' = "crashed"
        BY <2>10, <3>3 DEF FetchTotal, Panic
      <4> QED
        BY <2>3, <3>1, <4>1, <4>2 DEF PlainPanic
    <3>4. CASE metric.type = "Object" /\ metric.target = 0
      <4>1. MetricType = "ObjectZero"
        BY <2>9, <3>1, <3>4, NilAssumption DEF ObjectType
      <4>2. pc' = "answered"
        BY <2>10, <3>4, NilAssumption DEF FetchTotal, Answer
      <4> QED
        BY <2>3, <3>1, <4>1, <4>2 DEF PlainAnswer, Unrelated
    <3>5. CASE metric.type = "Object" /\ metric.target \in Nat /\ metric.target > 0
      <4>1. MetricType = "ObjectAverage"
        BY <2>9, <3>1, <3>5, NilAssumption DEF ObjectType
      <4>2. pc' = "answered" /\ answer' \in PerReplica(total')
        BY <2>10, <3>5, NilAssumption DEF FetchTotal, Answer
      <4>3. Average(total', current, answer')
        BY <3>1, <3>5, <4>2, ObjectAverages
      <4>4. Average(total, current, answer)'
        BY <3>1, <4>3 DEF Average
      <4> QED
        BY <2>3, <3>1, <3>5, <4>1, <4>2, <4>4 DEF PlainAnswer
    <3> QED
      BY <2>9, <3>1, <3>2, <3>3, <3>4, <3>5, NamesOfMetrics
  <2>11. CASE FetchTotalOfValue
    <3>1. /\ UNCHANGED <<metric, current>> /\ ~PerPod /\ ~Sourceless /\ metric.selects
          /\ metric.by = "Value"
      BY <2>11 DEF FetchTotalOfValue
    <3>2. CASE metric.type = "External"
      <4>1. MetricType = "ExternalOfObject"
        BY <2>9, <3>1, <3>2
      <4>2. pc' \in {"crashed", "answered", "failed"}
        BY <2>11 DEF FetchTotalOfValue, Panic, Answer, Fail
      <4> QED
        BY <2>3, <3>1, <4>1, <4>2 DEF PlainAnswer, PlainFailure, PlainPanic, Unrelated
    <3>3. CASE metric.type = "Object" /\ metric.target = Nil
      <4>1. MetricType = "ObjectUntargeted"
        BY <2>9, <3>1, <3>3 DEF ObjectType
      <4>2. pc' = "crashed"
        BY <2>11, <3>3 DEF FetchTotalOfValue, Panic
      <4> QED
        BY <2>3, <3>1, <4>1, <4>2 DEF PlainPanic
    <3>4. CASE metric.type = "Object" /\ metric.target # Nil
      <4>1. MetricType = "ObjectValue"
        BY <2>9, <3>1, <3>4 DEF ObjectType
      <4>2. pc' = "answered" /\ answer' = 0
        BY <2>11, <3>4 DEF FetchTotalOfValue, Answer
      <4> QED
        BY <2>3, <3>1, <4>1, <4>2 DEF PlainAnswer
    <3> QED
      BY <2>9, <3>1, <3>2, <3>3, <3>4
  <2>12. CASE FetchPanics
    <3>1. UNCHANGED <<metric, current>> /\ pc' = "crashed" /\ (Sourceless \/ Selectorless)
      BY <2>12 DEF FetchPanics, Panic
    <3>2. PlainPanic
      BY <3>1, NamesOfMetrics DEF PlainPanic, Sourceless, Selectorless, Faulty, PerPod
    <3> QED
      BY <2>3, <3>1, <3>2
  <2> QED
    BY <2>1, <2>2, <2>4, <2>5, <2>6, <2>7, <2>8, <2>10, <2>11, <2>12 DEF Next
<1>3. TypeOK /\ Plain => Covered
  BY PlainIsCovered
<1> QED
  BY <1>1, <1>2, <1>3, Typing, PTL DEF Spec
=============================================================================
