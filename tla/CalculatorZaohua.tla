-------------------------- MODULE CalculatorZaohua --------------------------
(***************************************************************************)
(* Zaohua asks a metric in one step, by the name it has for the metric; its*)
(* answer is a member of a set of counts.  Calculator computes the answer  *)
(* from the fields of the metric.  Here the one is laid over the other:    *)
(* what a calculation ends with is something the round allows for.         *)
(***************************************************************************)
EXTENDS Calculator

(* The name that Zaohua has for a metric.                                  *)
Faulty == metric.target = Nil \/ ~metric.selects
ObjectType ==
    IF metric.by = "Utilization" THEN "ObjectUtilization"
    ELSE IF metric.by = "Unsupported" \/ ~metric.selects THEN "ObjectRefused"
    ELSE IF metric.target = Nil THEN "ObjectUntargeted"
    ELSE IF metric.by = "Value" THEN "ObjectValue"
    ELSE IF metric.target = 0 THEN "ObjectZero" ELSE "ObjectAverage"
MetricType ==
    IF metric.type = "External" THEN IF metric.by = Nil THEN "External" ELSE "ExternalOfObject"
    ELSE IF Sourceless THEN "Sourceless"
    ELSE IF metric.type = "Object" THEN ObjectType
    ELSE IF metric.type = "Pods" THEN IF Faulty THEN "PodsFaulty" ELSE "Pods"
    ELSE IF metric.target = Nil THEN "ResourceUtilization" ELSE metric.type

(* The round that asks this metric, and only this one, while current runs. *)
Round == INSTANCE Zaohua WITH
    Specs <- {}, Loads <- Usages, AverageValue <- 1, Leads <- FALSE,
    MaxTime <- 0, MaxMoves <- 0, MaxRecords <- 0, MaxEdits <- 0,
    target <- [spec |-> current, status |-> current],
    cache  <- [spec |-> current, status |-> current, fresh |-> TRUE],
    scale  <- [spec |-> current, status |-> current, fresh |-> TRUE],
    object <- [spec |-> [metrics |-> <<MetricType>>], named |-> TRUE],
    calc   <- [index |-> 1, desired |-> current, by |-> 0],
    load   <- total,
    pc <- "calculate", houmao <- Nil, now <- 0, edits <- 0, ObjectSpec <- Nil, sending <- FALSE,
    report <- Nil, RecommendationRecords <- <<>>, ScaleUpEvents <- <<>>, ScaleDownEvents <- <<>>,
    moves <- <<>>

(* Kinds whose answer the round takes for any count.                       *)
Unrelated == {"Resource", "Pods", "ExternalOfObject", "ObjectZero"}

(* However a calculation ends, the round of Zaohua allows for it.  An      *)
(* average over an Object answers what the round computes from the same    *)
(* value and target, except that a target of 0 is one of the kinds that    *)
(* may answer any count; the other kinds answer what the round has for     *)
(* them, or nothing where it has nothing; and only the kinds fail or panic *)
(* of which the round knows it.                                            *)
Covered ==
    /\ pc = "answered" /\ MetricType \notin Unrelated =>
           IF MetricType = "ObjectAverage"
           THEN answer \in Round!CountsPerPod(total, metric.target, current)
           ELSE answer \in Round!Answers
    /\ pc = "failed" => MetricType \in Round!Failing
    /\ pc = "crashed" => MetricType \in Round!Panicking
=============================================================================
