---------------------------- MODULE MCCalculator ----------------------------
(***************************************************************************)
(* Calculator for TLC: the pods and metrics that the runs choose from.     *)
(***************************************************************************)
EXTENDS CalculatorZaohua, TLC

Symmetric == Permutations(Pods)

Up     == [phase |-> "Ready", deleting |-> FALSE, cold |-> FALSE, request |-> 1, sidecar |-> FALSE]
Down   == [Up EXCEPT !.phase = "Failed"]
MCKinds == {Up, [Up EXCEPT !.phase = "Pending"],
            Down, [Down EXCEPT !.cold = TRUE], [Down EXCEPT !.request = 0],
            [Down EXCEPT !.request = 250],
            [Down EXCEPT !.deleting = TRUE], [Down EXCEPT !.sidecar = TRUE]}

MetricOf(type, target, by) ==
    [type |-> type, source |-> TRUE, target |-> target, by |-> by, selects |-> TRUE,
     cpu |-> TRUE, named |-> TRUE]
Types == {"Value", "AverageValue", "Utilization", "Unsupported", Nil}
WithSource == {MetricOf("Resource", t, Nil) : t \in {Nil, 0, 2, 200}}
              \cup {MetricOf("ContainerResource", t, Nil) : t \in {Nil, 2}}
              \cup {MetricOf("Pods", t, Nil) : t \in {Nil, 0, 2}}
              \cup {MetricOf("Object", t, by) : t \in {Nil, 0, 2}, by \in Types}
              \cup {MetricOf("External", t, by) : t \in {Nil, 0, 2}, by \in Types}
Sources == {MetricOf("Resource", 2, Nil), MetricOf("ContainerResource", 2, Nil),
            MetricOf("Pods", 2, Nil)} \cup {MetricOf("External", 2, by) : by \in Types}
Selectors == {MetricOf("Pods", 2, Nil), MetricOf("Object", 2, "Value"),
              MetricOf("Object", 2, "AverageValue"), MetricOf("External", 2, "AverageValue")}
MCMetrics ==
    WithSource \cup {[m EXCEPT !.source = FALSE] : m \in Sources}
               \cup {[m EXCEPT !.selects = FALSE] : m \in Selectors}
               \cup {[MetricOf("Resource", 200, Nil) EXCEPT !.cpu = FALSE],
                     [MetricOf("ContainerResource", 2, Nil) EXCEPT !.named = FALSE]}

(* Stand-ins for the least, the zero and the greatest int32.               *)
MCGarbage == {-99, 0, 99}

(* All pods up, to compare with what a comment promises.                   *)
UpKinds     == {Up}
PodsMetrics == {MetricOf("Pods", 2, Nil)}
=============================================================================
