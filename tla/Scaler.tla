------------------------------- MODULE Scaler -------------------------------
(***************************************************************************)
(* What a scaler promises to a workload, whatever happens between its read *)
(* and its write: as if it read, decided and wrote in one step.  A step of *)
(* its own takes the count to another one within the bounds it works with, *)
(* lowers it only to no less than what runs or to the maximum, remembers   *)
(* the step, and claims nothing but the step just made.                    *)
(***************************************************************************)
EXTENDS Naturals

CONSTANTS
    Nil,        \* no bound; no step
    Bounds      \* the bounds users write

VARIABLES
    count,      \* replicas wanted
    running,    \* replicas running
    bounds,     \* the bounds the scaler works with
    last,       \* the step it made last in this life, Nil before
    claim       \* the step it reports, Nil when it reports none

vars == <<count, running, bounds, last, claim>>

Init ==
    /\ count \in Nat
    /\ running = count
    /\ bounds \in Bounds
    /\ last = Nil
    /\ claim = Nil

InRange(n) ==
    bounds.min = Nil \/ bounds.min <= bounds.max =>
        n <= bounds.max /\ (bounds.min = Nil \/ n >= bounds.min)

Adjust ==
    /\ count' \in Nat \ {count}
    /\ InRange(count')
    /\ count' < count => count' >= running \/ count' = bounds.max
    /\ last' = [from |-> count, to |-> count']
    /\ claim' \in {Nil, last'}
    /\ UNCHANGED <<running, bounds>>

(* The claim is made known, or dropped, and new bounds may come with it.   *)
Publish ==
    /\ claim' = Nil
    /\ bounds' \in Bounds
    /\ UNCHANGED <<count, running, last>>

(* A new life, with whatever bounds there are now.                         *)
Restart ==
    /\ last' = Nil
    /\ claim' = Nil
    /\ bounds' \in Bounds
    /\ UNCHANGED <<count, running>>

(* Users set the count; pods come and go.                                  *)
SetCount ==
    /\ count' \in Nat
    /\ UNCHANGED <<running, bounds, last, claim>>

Progress ==
    /\ running # count
    /\ running' = IF running < count THEN running + 1 ELSE running - 1
    /\ UNCHANGED <<count, bounds, last, claim>>

Next == Adjust \/ Publish \/ Restart \/ SetCount \/ Progress

Spec == Init /\ [][Next]_vars
=============================================================================
