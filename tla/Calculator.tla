----------------------------- MODULE Calculator -----------------------------
(***************************************************************************)
(* CalculateHandle: one metric of a Houmao turned into a replica count.    *)
(* A calculation makes up to two remote reads, of the metrics API and of   *)
(* the pod list in the client's cache.  Nothing ties the two snapshots     *)
(* together: a pod with a metric may be unlisted, a listed one without     *)
(* metric, and either may have changed since.  So each read returns any    *)
(* snapshot at all.                                                        *)
(*                                                                         *)
(* Ratios are kept as a numerator over a denominator.  A denominator of 0  *)
(* stands for the float64 values NaN (0/0) and +Inf; where rounding of a   *)
(* float64 decides (a ratio exactly on the tolerance, a product that is    *)
(* exactly integral), both outcomes are allowed.                           *)
(***************************************************************************)
EXTENDS Integers, FiniteSets, Functions

CONSTANTS
    Nil,            \* no pointer
    Pods,           \* names of pods
    PodKinds,       \* the pods there may be
    Usages,         \* values of metrics, in thousandths
    Metrics,        \* the MetricSpecs of users
    Counts,         \* replica counts
    ScaleTolerance, \* in percent
    Garbage         \* int32(NaN) and int32(+Inf): up to the platform

(* cold: the PodReady condition, the start and the metric's timestamp give *)
(* "unready" for cpu; request: of the metric's resource, all containers;   *)
(* sidecar: it has a container that the metric does not name.              *)
Pod == [phase : {"Pending", "Running", "Ready", "Failed"}, deleting : BOOLEAN,
        cold : BOOLEAN, request : Nat, sidecar : BOOLEAN]

(* target: the quantity that the type of the target calls for; Nil for a   *)
(* Utilization target of the first three types, which is another field.    *)
(* by: metric.Object.Target.Type, Nil without an Object.                   *)
MetricSpec == [type    : {"Resource", "ContainerResource", "Pods", "Object", "External"},
               source  : BOOLEAN,   \* is the source there that the type names (Object: see by)
               target  : Nat \cup {Nil},
               by      : {"Value", "AverageValue", "Utilization", "Unsupported", Nil},
               selects : BOOLEAN,   \* does the selector of the metric parse
               cpu     : BOOLEAN,   \* Resource: is it the cpu
               named   : BOOLEAN]   \* ContainerResource: is Container non-empty

ASSUME PodsAssumption    == IsFiniteSet(Pods)
ASSUME KindsAssumption   == PodKinds \subseteq Pod
ASSUME UsagesAssumption  == Usages \subseteq Nat
ASSUME MetricsAssumption == Metrics \subseteq MetricSpec
ASSUME CountsAssumption  == Counts \subseteq Nat
ASSUME NumbersAssumption == ScaleTolerance \in Nat /\ Garbage \subseteq Int
ASSUME NilAssumption     == Nil \notin Nat \cup {"Value", "AverageValue", "Utilization", "Unsupported"}

VARIABLES
    pc,       \* where the calculation is
    metric,   \* its MetricSpec
    current,  \* currentReplicas
    info,     \* PodMetricsInfo as fetched: a function of some pods
    total,    \* the value of an object or external metric
    pods,     \* the pod list: a function of the names of the listed pods
    answer    \* the count returned

vars == <<pc, metric, current, info, total, pods, answer>>

Steps  == {"idle", "fetch", "list", "compute", "answered", "failed", "crashed"}
PerPod == metric.type \in {"Resource", "ContainerResource", "Pods"}
Partial(S) == UNION {[names -> S] : names \in SUBSET Pods}
None   == [p \in {} |-> Nil]

TypeOK ==
    /\ pc \in Steps
    /\ metric \in Metrics
    /\ current \in Counts
    /\ info \in Partial(Usages)
    /\ total \in Usages \cup {0}
    /\ pods \in Partial(PodKinds)
    /\ answer \in Int

Init ==
    /\ pc = "idle"
    /\ metric \in Metrics
    /\ current \in Counts
    /\ info = None
    /\ total = 0
    /\ pods = None
    /\ answer = 0

Answer(n) == pc' = "answered" /\ answer' = n
Panic     == pc' = "crashed" /\ UNCHANGED answer

(* Every error is returned, but for those of a Pods metric: they turn into *)
(* the count 0.                                                            *)
Fail == IF metric.type = "Pods" THEN Answer(0) ELSE pc' = "failed" /\ UNCHANGED answer

-----------------------------------------------------------------------------
(* Ratios.                                                                 *)
Abs(n)       == IF n < 0 THEN -n ELSE n
Ratio(a, b)  == [num |-> a, den |-> b]
Above(r)     == r.num > r.den
Below(r)     == r.num < r.den

(* math.Abs(1.0-ratio) > ScaleTolerance.                                   *)
Exceeds(r) ==
    LET distance == Abs(r.den - r.num) * 100
        allowed  == ScaleTolerance * r.den
    IN  CASE r.den = 0                             -> {r.num > 0}
          [] distance = allowed /\ distance > 0    -> BOOLEAN
          [] OTHER                                 -> {distance > allowed}

(* math.Abs(1.0-ratio) <= ScaleTolerance, which NaN is not.                *)
Within(r) == IF r.den = 0 THEN {FALSE} ELSE {~e : e \in Exceeds(r)}

CeilDiv(a, b) == (a + b - 1) \div b

(* int32(math.Ceil(ratio * n)).                                            *)
Ceilings(r, n) ==
    IF r.den = 0 THEN Garbage
    ELSE {CeilDiv(r.num * n, r.den)} \cup
         (IF n > 0 /\ (r.num * n) % r.den = 0 /\ r.num % r.den # 0
          THEN {CeilDiv(r.num * n, r.den) + 1} ELSE {})

-----------------------------------------------------------------------------
(* The Mutant operators are faulty variants of the definition they come    *)
(* before; each breaks one of the properties at the end of the module.     *)
(* groupPods.  Whatever is not Failed is ignored, so the test for Pending  *)
(* behind it is never true.                                                *)
Counted == {p \in DOMAIN pods : ~pods[p].deleting /\ pods[p].phase = "Failed"}
Ignored  == DOMAIN pods \ Counted
Missing  == Counted \ DOMAIN info
Unready  == {p \in Counted \cap DOMAIN info :
                metric.type = "Resource" /\ metric.cpu /\ pods[p].cold}
ReadyPodCount == Cardinality(Counted \ (Missing \cup Unready))

(* The metrics left when those of unready and ignored pods are deleted;    *)
(* those of unlisted pods stay.                                            *)
Kept == DOMAIN info \ (Ignored \cup Unready)

(* calculatePodRequests: a ContainerResource asks for the resource "".     *)
Request(p) == IF metric.type = "Resource" THEN pods[p].request ELSE 0
RequestsRefused ==
    /\ metric.type = "ContainerResource" /\ metric.named
    /\ \E p \in DOMAIN pods : pods[p].sidecar

(* GetMetricUtilizationRatio, the truncated mean over the target, and      *)
(* GetResourceUtilizationRatio, a truncated percentage over the same       *)
(* target, of the metrics whose pods are listed.                           *)
Mean(metrics) ==
    Ratio(SumFunction(metrics) \div Cardinality(DOMAIN metrics), metric.target)
Entries == Kept \cap DOMAIN pods
Percentage ==
    Ratio((SumFunctionOnSet(info, Entries) * 100)
              \div SumFunction([p \in Entries |-> Request(p)]),
          metric.target)
Weighed == IF metric.type = "Pods" THEN Kept ELSE Entries
Usage   == IF metric.type = "Pods" THEN Mean([p \in Kept |-> info[p]]) ELSE Percentage

(* Trusting the check made before metrics were taken out.                  *)
UnweighableMutant == metric.type # "Pods" /\ \A p \in Weighed : Request(p) = 0

(* No metrics left; no requests among them (their sum is 0).               *)
Unweighable ==
    IF metric.type = "Pods" THEN Weighed = {} ELSE \A p \in Weighed : Request(p) = 0

(* The metrics are evened out: a missing one counts as the target when the *)
(* usage is low and as 0 otherwise, an unready one as 0 when it is high.   *)
RebalanceIgnored == Unready # {} /\ Above(Usage)
Settled == ~RebalanceIgnored /\ Missing = {}
Rebalanced ==
    [p \in Kept \cup Missing \cup (IF RebalanceIgnored THEN Unready ELSE {}) |->
        IF p \in Kept THEN info[p]
        ELSE IF p \in Missing /\ Below(Usage) THEN metric.target ELSE 0]

Turned(old, new) == (Above(old) /\ Below(new)) \/ (Below(old) /\ Above(new))

(* Without the second comparison.                                          *)
EvenedMutant ==
    LET old == Usage
        new == Mean(Rebalanced)
        counts == Ceilings(new, Cardinality(DOMAIN Rebalanced))
    IN  IF Turned(old, new) THEN {current}
        ELSE UNION {IF w THEN {current} ELSE counts : w \in Within(new)}

(* After that a count that contradicts the usage is not taken.             *)
Evened ==
    LET old == Usage
        new == Mean(Rebalanced)
        counts == Ceilings(new, Cardinality(DOMAIN Rebalanced))
        Contradicts(n) == (Below(new) /\ n > current) \/ (Above(new) /\ n < current)
    IN  IF Turned(old, new) THEN {current}
        ELSE UNION {IF w THEN {current}
                         ELSE {IF Contradicts(n) THEN current ELSE n : n \in counts} :
                    w \in Within(new)}

(* Scaling all listed pods.                                                *)
DirectMutant(within) ==
    IF metric.type = "Pods"
    THEN IF within THEN Ceilings(Usage, ReadyPodCount) ELSE Evened
    ELSE IF within THEN {current} ELSE Ceilings(Usage, Cardinality(DOMAIN pods))

(* Without anything to even out, Resource keeps the current count within   *)
(* the tolerance and scales the ready pods beyond it; Pods scales them     *)
(* within the tolerance.                                                   *)
Direct(within) ==
    IF metric.type = "Pods"
    THEN IF within THEN Ceilings(Usage, ReadyPodCount) ELSE Evened
    ELSE IF within THEN {current} ELSE Ceilings(Usage, ReadyPodCount)

Desired == IF Settled THEN UNION {Direct(w) : w \in Within(Usage)} ELSE Evened

-----------------------------------------------------------------------------
(* The steps of a calculation.                                             *)
Begin ==
    /\ pc = "idle"
    /\ metric' \in Metrics
    /\ current' \in Counts
    /\ pc' = "fetch"
    /\ UNCHANGED <<info, total, pods, answer>>

(* A pointer that is read before anything is asked: the source of a metric *)
(* of pods; the Object, in whose target External looks for its type as     *)
(* well; and then the source of an External metric.                        *)
Sourceless ==
    \/ PerPod /\ ~metric.source
    \/ ~PerPod /\ metric.by = Nil
    \/ metric.type = "External" /\ ~metric.source /\ metric.by \in {"Value", "AverageValue"}

(* A Pods metric drops the error of a selector that does not parse.        *)
Selectorless == metric.type = "Pods" /\ ~metric.selects

AsItIs == ~PerPod /\ metric.by = "Utilization"

FetchFails ==
    /\ pc = "fetch"
    /\ ~Sourceless /\ ~AsItIs
    /\ Fail
    /\ UNCHANGED <<metric, current, info, total, pods>>

(* The nil pointer, or the nil selector that the metrics client writes into*)
(* its request.                                                            *)
FetchPanics ==
    /\ pc = "fetch"
    /\ Sourceless \/ Selectorless
    /\ Panic
    /\ UNCHANGED <<metric, current, info, total, pods>>

(* The answer names some pods; Resource and ContainerResource leave those  *)
(* out that lack the resource, and may be left with none: they give up.    *)
FetchPodMetrics ==
    /\ pc = "fetch"
    /\ PerPod /\ ~Sourceless /\ ~Selectorless
    /\ info' \in Partial(Usages) \ {None}
    /\ IF metric.type = "Pods" /\ metric.target = Nil THEN Panic
       ELSE pc' = "list" /\ UNCHANGED answer
    /\ UNCHANGED <<metric, current, total, pods>>

ListFails ==
    /\ pc = "list"
    /\ Fail
    /\ UNCHANGED <<metric, current, info, total, pods>>

List ==
    /\ pc = "list"
    /\ pods' \in Partial(PodKinds) \ {None}
    /\ pc' = "compute"
    /\ UNCHANGED <<metric, current, info, total, answer>>

ComputeFails ==
    /\ pc = "compute"
    /\ RequestsRefused \/ (metric.target # Nil /\ Unweighable)
    /\ Fail
    /\ UNCHANGED <<metric, current, info, total, pods>>

TargetMissing ==
    /\ pc = "compute"
    /\ ~RequestsRefused /\ metric.target = Nil
    /\ Panic
    /\ UNCHANGED <<metric, current, info, total, pods>>

(* Both ratios divide by the number of metrics.                            *)
Compute ==
    /\ pc = "compute"
    /\ ~RequestsRefused /\ metric.target # Nil /\ ~Unweighable
    /\ IF Weighed = {} THEN Panic ELSE \E n \in Desired : Answer(n)
    /\ UNCHANGED <<metric, current, info, total, pods>>

-----------------------------------------------------------------------------
(* Object and External, by the type of the Object's target.                *)

(* Dividing by the current count as well.                                  *)
PerReplicaMutant(value) ==
    LET ratio == Ratio(value, metric.target * current)
    IN  UNION {IF c THEN Ceilings(ratio, 1) ELSE {current} : c \in Exceeds(ratio)}

(* ceil(value / target), unless the value is within the tolerance of       *)
(* target * current, which External has none of.                           *)
PerReplica(value) ==
    LET ratio == Ratio(value, metric.target * current)
        changes == IF metric.type = "Object" THEN Exceeds(ratio) ELSE {ratio.num # ratio.den}
    IN  UNION {IF c THEN Ceilings(Ratio(value, metric.target), 1) ELSE {current} : c \in changes}

(* getUsageRatioReplicas; ready: the pods getReadyPodsCount may find.      *)
ByUsageRatio(value, ready) ==
    LET ratio == Ratio(value, metric.target)
    IN  IF current = 0 THEN Ceilings(ratio, 1)
        ELSE UNION {IF w THEN {current} ELSE Ceilings(ratio, ready) : w \in Within(ratio)}

(* Answering the target.                                                   *)
KeepMutant ==
    /\ pc = "fetch"
    /\ AsItIs
    /\ Answer(metric.target)
    /\ UNCHANGED <<metric, current, info, total, pods>>

Keep ==
    /\ pc = "fetch"
    /\ AsItIs
    /\ Answer(current)
    /\ UNCHANGED <<metric, current, info, total, pods>>

FetchTotal ==
    /\ pc = "fetch"
    /\ ~PerPod /\ ~Sourceless /\ metric.selects /\ metric.by = "AverageValue"
    /\ total' \in Usages
    /\ IF metric.target = Nil THEN Panic ELSE \E n \in PerReplica(total') : Answer(n)
    /\ UNCHANGED <<metric, current, info, pods>>

(* A Value target of Object: the count is computed and thrown away.        *)
FetchTotalOfValue ==
    /\ pc = "fetch"
    /\ ~PerPod /\ ~Sourceless /\ metric.selects /\ metric.by = "Value"
    /\ total' \in Usages
    /\ IF metric.target = Nil THEN Panic
       ELSE IF metric.type = "Object" THEN Answer(0)
       ELSE \/ \E ready \in 0..Cardinality(Pods) :
                   \E n \in ByUsageRatio(total', ready) : Answer(n)
            \/ /\ current # 0    \* the pods cannot be listed
               /\ FALSE \in Within(Ratio(total', metric.target))
               /\ Fail
    /\ UNCHANGED <<metric, current, info, pods>>

(* calculate goes on to the next metric; a panic starts the process again. *)
Return ==
    /\ pc \in {"answered", "failed", "crashed"}
    /\ pc' = "idle"
    /\ info' = None /\ total' = 0 /\ pods' = None /\ answer' = 0
    /\ UNCHANGED <<metric, current>>

Next == \/ Begin \/ Return
        \/ FetchFails \/ FetchPanics \/ FetchPodMetrics \/ ListFails \/ List
        \/ ComputeFails \/ TargetMissing \/ Compute
        \/ Keep \/ FetchTotal \/ FetchTotalOfValue

Spec == Init /\ [][Next]_vars

-----------------------------------------------------------------------------
(* Properties.                                                             *)

(* Whatever is left of the metrics when unready, ignored and unlisted pods *)
(* are taken out, no ratio divides an integer by zero: a calculation panics*)
(* only where the spec lacks a target, a source or an Object, or where a   *)
(* Pods metric has a selector that does not parse.                         *)
PanicsOnlyForNil == pc = "crashed" => metric.target = Nil \/ Sourceless \/ Selectorless

(* A usage at or below its target never asks for more than what runs now   *)
(* and what is counted as ready, however metrics are filled in for pods    *)
(* without one.  A target of 0 has no usage.  The exception is a Resource  *)
(* exactly on its target, which neither comparison with 1.0 holds back:    *)
(* its percentage is on the target and the mean of its values, which is    *)
(* not a percentage and takes unlisted pods in, may be beyond it.          *)
QuietNeverGrows ==
    pc = "answered" /\ PerPod /\ answer > current =>
        \/ metric.target = 0 \/ Above(Usage) \/ answer <= ReadyPodCount
        \/ /\ metric.type = "Resource"
           /\ Usage.num = Usage.den /\ Above(Mean(Rebalanced))

(* Filling in metrics for missing and unready pods never turns the         *)
(* decision round: a count that differs from the current one goes where    *)
(* the usage as measured points.                                           *)
NeverAgainstUsage ==
    pc = "answered" /\ PerPod /\ ~Unweighable /\ ~Settled /\ metric.target > 0
        /\ answer # current =>
            /\ Below(Usage) => answer < current
            /\ Above(Usage) => answer > current

(* An average per replica is met exactly: the count is the least one that  *)
(* brings the average to the target (also from 0 replicas), or an Object's *)
(* value is within the tolerance and the count stays.                      *)
Least(n) == n * metric.target >= total /\ \A k \in 0..(n - 1) : k * metric.target < total
AverageMet ==
    pc = "answered" /\ ~PerPod /\ metric.by = "AverageValue" /\ metric.target > 0 =>
        \/ Least(answer)
        \/ /\ metric.type = "Object" /\ answer = current
           /\ Abs(metric.target * current - total) * 100 <= ScaleTolerance * metric.target * current

(* A usage over its target asks for more replicas: pods that are all up    *)
(* and ready, each using more than twice its target, call for more of them.*)
OverloadAsksForMore ==
    /\ pc = "answered" /\ metric.type = "Pods" /\ metric.target > 0
    /\ DOMAIN pods # {} /\ DOMAIN info = DOMAIN pods /\ current = Cardinality(DOMAIN pods)
    /\ \A p \in DOMAIN pods : pods[p].phase = "Ready" /\ ~pods[p].deleting
                              /\ info[p] > 2 * metric.target
    => answer > current
=============================================================================
