---------------------------- MODULE ZaohuaScaler ----------------------------
(***************************************************************************)
(* Zaohua implements Scaler: the round, with its stale reads, refused      *)
(* writes and lost answers, looks like one step.                           *)
(***************************************************************************)
EXTENDS Zaohua

BoundsOf(spec) == [min |-> spec.min, max |-> spec.max]

LastMove ==
    IF moves = <<>> THEN Nil
    ELSE [from |-> moves[Len(moves)].from, to |-> moves[Len(moves)].to]

(* A record with the count 0 claims nothing.                               *)
Claim ==
    IF report = Nil \/ report.DesiredReplicas = 0 THEN Nil
    ELSE [from |-> report.CurrentReplicas, to |-> report.DesiredReplicas]

Abstract == INSTANCE Scaler WITH
    Bounds  <- {BoundsOf(s) : s \in Specs},
    count   <- target.spec,
    running <- target.status,
    bounds  <- BoundsOf(Config),
    last    <- LastMove,
    claim   <- Claim

(* A round, from the read of a cache that may lag to the record of a write *)
(* whose answer may be lost, is one step of the abstract scaler.           *)
ImplementsScaler == Abstract!Spec
=============================================================================
