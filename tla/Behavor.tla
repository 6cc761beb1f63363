------------------------------ MODULE Behavor ------------------------------
(***************************************************************************)
(* The behaviour processor of the autoscaler and the two memories it       *)
(* reads: the recommendations of past rounds (stabilisation) and the scale *)
(* events of past writes (rate limits).  Pure operators; the caller passes *)
(* the clock as now.  A rules record stands for one *HPAScalingRules:      *)
(* window is StabilizationWindowSeconds, select is SelectPolicy, both may  *)
(* be the nil pointer Nil; policies is the set of its Policies.  Dereferen-*)
(* cing Nil, or calling the selection function nobody assigned, panics.    *)
(***************************************************************************)
EXTENDS Integers, Sequences, SequencesExt

CONSTANT Nil    \* a nil pointer

MaxInt32 == 2147483647
MinInt32 == -MaxInt32 - 1

Rules == [window   : Nat \cup {Nil},
          select   : {"Disabled", "Min", "Max", Nil},
          policies : SUBSET [type : {"Pods", "Percent"}, value : Nat, period : Nat]]

Recommendation == [DesiredReplicas : Nat, Timestamp : Nat]
ScaleEvent     == [ReplicaChange : Nat, TimeStamp : Nat, OutDated : BOOLEAN]

Before(time, cutoff) == time < cutoff
After(time, cutoff)  == time > cutoff

(* Both helpers of the code return the smaller argument.                   *)
max(a, b) == IF a <= b THEN a ELSE b
min(a, b) == IF a <= b THEN a ELSE b

-----------------------------------------------------------------------------
(* Stabilisation.  recommendationAction is min when the round wants at     *)
(* least the current count and max otherwise, and either folds to the      *)
(* smallest of the wish and the records younger than the chosen window.    *)
DelaySeconds(desired, current, up, down) ==
    IF desired >= current THEN up.window ELSE down.window

Stabilized(desired, current, up, down, records, now) ==
    LET cutoff == now - DelaySeconds(desired, current, up, down)
        recent == {rec \in ToSet(records) : After(rec.Timestamp, cutoff)}
    IN  Min({desired} \cup {rec.DesiredReplicas : rec \in recent})

(* Every older record obsolete, whatever the windows.                      *)
RecordedMutant(recommendation, up, down, records, now) ==
    LET slot == SelectLastInSeq(records, LAMBDA rec : Before(rec.Timestamp, now))
        new  == [DesiredReplicas |-> recommendation, Timestamp |-> now]
    IN  IF slot > 0 THEN [records EXCEPT ![slot] = new] ELSE Append(records, new)

(* The recommendation takes the slot of the last obsolete record, if any.  *)
Recorded(recommendation, up, down, records, now) ==
    LET obsoleteCutoff == now - max(up.window, down.window)
        slot == SelectLastInSeq(records, LAMBDA rec : Before(rec.Timestamp, obsoleteCutoff))
        new  == [DesiredReplicas |-> recommendation, Timestamp |-> now]
    IN  IF slot > 0 THEN [records EXCEPT ![slot] = new] ELSE Append(records, new)

-----------------------------------------------------------------------------
(* Rate limits.                                                            *)
ReplicasChange(period, events, now) ==
    SumFunction([i \in DOMAIN events |->
        IF After(events[i].TimeStamp, now - period) THEN events[i].ReplicaChange ELSE 0])

Proposed(policy, current, events, now) ==
    LET start == current - ReplicasChange(policy.period, events, now)
    IN  IF policy.type = "Pods"
        THEN start + policy.value
        ELSE -((-(start * (100 + policy.value))) \div 100)      \* math.Ceil

(* The lower bound of a scale-down.  The code passes it the scale-UP rules.*)
ScaleDownLimit(current, events, rules, now) ==
    IF rules.select = "Disabled" THEN current
    ELSE LET first == IF rules.select = "Min" THEN MaxInt32 ELSE MinInt32
             least == Min({first} \cup {Proposed(p, current, events, now) : p \in rules.policies})
         IN  IF least > current THEN current ELSE least

(* No selection function for Min either.                                   *)
LimitPanicsMutant(rules) ==
    \/ rules.select = Nil
    \/ rules.select # "Disabled" /\ rules.policies # {}

(* SelectPolicy is dereferenced, and with any policy but Min the selection *)
(* function is nil when the first policy calls it.                         *)
LimitPanics(rules) ==
    \/ rules.select = Nil
    \/ rules.select = "Max" /\ rules.policies # {}

(* The scale-up branch compares DesiredReplicas with itself, so it is never*)
(* taken, and a wish of at least the current count yields the zero value.  *)
Converted(desired, current, up, events, now) ==
    IF desired < current
    THEN LET limit == ScaleDownLimit(current, events, up, now)
         IN  IF desired < limit THEN limit ELSE desired
    ELSE 0

-----------------------------------------------------------------------------
(* ReviseWithBehavor: whether it panics, what it returns, what it records. *)
RevisePanics(desired, current, up, down, records, now) ==
    \/ down.window = Nil        \* the default is written through the nil pointer
    \/ up.window = Nil
    \/ /\ up.window # Nil /\ down.window # Nil
       /\ Stabilized(desired, current, up, down, records, now) < current
       /\ LimitPanics(up)

Revised(desired, current, up, down, records, events, now) ==
    Converted(Stabilized(desired, current, up, down, records, now), current, up, events, now)

RevisedRecords(desired, current, up, down, records, now) ==
    Recorded(Stabilized(desired, current, up, down, records, now), up, down, records, now)

-----------------------------------------------------------------------------
(* storageScaleEvent: mark what no policy can need, reuse the last marked  *)
(* slot, else append.                                                      *)
LongestPolicyPeriod(rules) == Max({0} \cup {p.period : p \in rules.policies})

(* The comparison turned round: young events are marked.                   *)
MarkedOutdatedMutant(events, period, now) ==
    [i \in DOMAIN events |->
        [ReplicaChange |-> events[i].ReplicaChange,
         TimeStamp     |-> events[i].TimeStamp,
         OutDated      |-> events[i].OutDated \/ After(events[i].TimeStamp, now - period)]]

MarkedOutdated(events, period, now) ==
    [i \in DOMAIN events |->
        [ReplicaChange |-> events[i].ReplicaChange,
         TimeStamp     |-> events[i].TimeStamp,
         OutDated      |-> events[i].OutDated \/ Before(events[i].TimeStamp, now - period)]]

EventStored(events, rules, change, now) ==
    LET marked == MarkedOutdated(events, LongestPolicyPeriod(rules), now)
        slot   == SelectLastInSeq(marked, LAMBDA event : event.OutDated)
        new    == [ReplicaChange |-> change, TimeStamp |-> now, OutDated |-> FALSE]
    IN  IF slot > 0 THEN [marked EXCEPT ![slot] = new] ELSE Append(marked, new)
=============================================================================
