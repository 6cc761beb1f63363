---------------------------- MODULE ZaohuaProofs ----------------------------
(***************************************************************************)
(* Proofs about Zaohua for every set of specs, every count and every bound.*)
(* The argument: TypeOK is inductive on its own; RoundInv is inductive     *)
(* relative to it; the action properties are read off RoundInv at the only *)
(* steps that extend moves; EventsInv, which speaks of every cutoff and of *)
(* the marks, is inductive relative to TypeOK and gives EventsAddUp.       *)
(***************************************************************************)
EXTENDS Zaohua, BehavorProofs

(* What every spec the loop may hold looks like.                           *)
LEMMA ConfigType ==
    ASSUME TypeOK
    PROVE  /\ Config \in Specs
           /\ Config.min \in Nat \cup {Nil}
           /\ Config.max \in Nat
           /\ Config.metrics \in Seq(MetricSourceTypes)
           /\ Config.up \in Rules \cup {Nil}
           /\ Config.down \in Rules \cup {Nil}
<1>1. Config \in Specs
  BY DEF TypeOK, Config
<1>2. Config \in HoumaoSpec
  BY <1>1, SpecsAssumption
<1> QED
  BY <1>1, <1>2 DEF HoumaoSpec

(* A metric that is asked has a positive position.                         *)
LEMMA MetricPosition ==
    ASSUME TypeOK, calc.index \in DOMAIN Config.metrics
    PROVE  calc.index \in Nat /\ calc.index > 0
<1>1. Config.metrics \in Seq(MetricSourceTypes)
  BY ConfigType
<1> QED
  BY <1>1, LenProperties

(* So many replicas bring a value to the target per replica.               *)
LEMMA NeededIsCount ==
    ASSUME NEW value \in Nat
    PROVE  Needed(value, AverageValue) \in Nat
BY LoadsAssumption DEF Needed

(* What a metric answers is a count.                                       *)
LEMMA AnswersAreCounts ==
    ASSUME TypeOK
    PROVE  Answers \subseteq Nat
<1>1. load \in Nat /\ scale.status \in Nat
  BY LoadsAssumption DEF TypeOK, Copy
<1>2. Needed(load, AverageValue) \in Nat
  BY <1>1, NeededIsCount
<1>3. ForPerPod \subseteq Nat /\ ObjectValue \in Nat /\ Unrelated \subseteq Nat
  BY <1>1, <1>2, CountsAssumption DEF ForPerPod, CountsPerPod, ObjectValue, Unrelated
<1> QED
  BY <1>1, <1>3 DEF Answers

(* With a minimum or above the maximum the clamp yields a count.           *)
LEMMA ClampedIsCount ==
    ASSUME TypeOK, calc.desired > Config.max \/ Config.min # Nil
    PROVE  Clamped \in Nat
<1>1. Config.min \in Nat \cup {Nil} /\ Config.max \in Nat
  BY ConfigType
<1>2. calc.desired \in Nat
  BY DEF TypeOK, Locals
<1> QED
  BY <1>1, <1>2 DEF Clamped

(* The locals of a round that has ended have their types.                  *)
LEMMA EndRoundType ==
    ASSUME TypeOK, EndRound, UNCHANGED <<cluster, handoff, memory>>,
           object' \in [spec : Specs, named : BOOLEAN]
    PROVE  TypeOK'
BY DEF TypeOK, EndRound, NoScale, NoCalc, Steps, Copy, Locals, cluster, handoff, memory

-----------------------------------------------------------------------------
(* Every step keeps every variable in its type.                            *)
LEMMA TypeStep ==
    ASSUME TypeOK, [Next]_vars
    PROVE  TypeOK'
<1> USE DEF Panic, cluster, handoff, local, memory
<1>1. CASE GetScale
  BY <1>1 DEF TypeOK, GetScale, Steps, Scale, Copy, Locals
<1>2. CASE GetScaleFails
  BY <1>2, EndRoundType DEF TypeOK, GetScaleFails
<1>3. CASE MetricAnswers
  <2>1. PICK n \in Answers :
            calc' = IF n > calc.desired
                    THEN [index |-> calc.index + 1, desired |-> n, by |-> calc.index]
                    ELSE [calc EXCEPT !.index = @ + 1]
    BY <1>3 DEF MetricAnswers
  <2>2. n \in Nat
    BY AnswersAreCounts
  <2>3. calc' \in Locals
    <3>1. calc \in Locals
      BY DEF TypeOK
    <3> QED
      BY <2>1, <2>2, <3>1 DEF Locals
  <2> QED
    BY <1>3, <2>3 DEF TypeOK, MetricAnswers
<1>4. CASE MetricFails
  <2>1. calc' \in Locals
    <3>1. calc \in Locals /\ calc' = [calc EXCEPT !.index = @ + 1]
      BY <1>4 DEF TypeOK, MetricFails
    <3> QED
      BY <3>1 DEF Locals
  <2> QED
    BY <1>4, <2>1 DEF TypeOK, MetricFails
<1>5. CASE MetricPanics
  BY <1>5 DEF TypeOK, MetricPanics, Steps
<1>6. CASE MetricUnsupported
  BY <1>6, EndRoundType DEF TypeOK, MetricUnsupported
<1>7. CASE Decide
  <2>1. Clamped \in Nat
    BY <1>7, ClampedIsCount DEF Decide
  <2>2. calc \in Locals
    BY DEF TypeOK
  <2>3. [calc EXCEPT !.desired = Clamped] \in Locals
    BY <2>1, <2>2 DEF Locals
  <2>4. CASE Clamped = scale.spec
    <3>1. EndRound /\ UNCHANGED <<cluster, object, handoff, memory>>
      BY <1>7, <2>4 DEF Decide
    <3> QED
      BY <3>1, EndRoundType DEF TypeOK
  <2>5. CASE Clamped # scale.spec
    BY <1>7, <2>3, <2>5 DEF TypeOK, Decide, Steps
  <2> QED
    BY <2>4, <2>5
<1>8. CASE DecidePanics
  BY <1>8 DEF TypeOK, DecidePanics, Steps
<1>9. CASE Exec
  <2>1. CASE Both
    <3>1. RecommendationRecords' =
            Recorded(Stabilized(calc.desired, scale.spec, Config.up, Config.down,
                                RecommendationRecords, now),
                     Config.up, Config.down, RecommendationRecords, now)
      BY <1>9, <2>1 DEF Exec, RevisedRecords
    <3>2. calc.desired \in Nat /\ RecommendationRecords \in Seq(Recommendation) /\ now \in Nat
      BY DEF TypeOK, Locals
    <3>3. RecommendationRecords' \in Seq(Recommendation)
      BY <3>1, <3>2, StabilizedAtMostDesired, RecordedIsSequence, Zenon
    <3> QED
      BY <1>9, <3>3 DEF TypeOK, Exec, Steps
  <2>2. CASE ~Both
    BY <1>9, <2>2 DEF TypeOK, Exec, Steps
  <2> QED
    BY <2>1, <2>2
<1>10. CASE ExecPanics
  BY <1>10 DEF TypeOK, ExecPanics, Steps
<1>11. ASSUME NEW known \in BOOLEAN, Write(known)
       PROVE  target' \in Scale /\ cache' \in Copy /\ moves' \in Seq(Move)
  <2>1. target \in Scale /\ cache \in Copy /\ scale.spec \in Nat /\ calc.desired \in Nat
        /\ now \in Nat /\ moves \in Seq(Move)
    BY DEF TypeOK, Copy, Locals
  <2>2. target' \in Scale
    BY <1>11, <2>1 DEF Write, Scale
  <2>3. cache' \in Copy
    BY <1>11, <2>1 DEF Write, Copy
  <2>4. [from |-> scale.spec, to |-> calc.desired, at |-> now, known |-> known] \in Move
    BY <2>1 DEF Move
  <2>5. moves' \in Seq(Move)
    BY <1>11, <2>1, <2>4 DEF Write
  <2> QED
    BY <2>2, <2>3, <2>5
<1>12. \A n \in Nat : Result(n) \in Record
  BY DEF Result, Record, TypeOK, Copy, Locals
<1>13. CASE UpdateAccepted
  <2>1. scale.spec \in Nat /\ calc.desired \in Nat /\ now \in Nat
        /\ ScaleUpEvents \in Seq(ScaleEvent) /\ ScaleDownEvents \in Seq(ScaleEvent)
    BY DEF TypeOK, Copy, Locals
  <2>2. target' \in Scale /\ cache' \in Copy /\ moves' \in Seq(Move)
    BY <1>11, <1>13 DEF UpdateAccepted
  <2>3. ScaleUpEvents' \in Seq(ScaleEvent) /\ ScaleDownEvents' \in Seq(ScaleEvent)
    <3>1. CASE StoreUp
      BY <2>1, <3>1, EventStoredIsSequence DEF StoreUp
    <3>2. CASE StoreDown
      BY <2>1, <3>2, EventStoredIsSequence DEF StoreDown
    <3> QED
      BY <1>13, <3>1, <3>2 DEF UpdateAccepted
  <2>4. report' \in Record
    BY <1>12, <1>13, <2>1 DEF UpdateAccepted
  <2> QED
    BY <1>13, <2>2, <2>3, <2>4 DEF TypeOK, UpdateAccepted, Steps
<1>14. CASE UpdateAcceptedPanics
  <2>1. target' \in Scale /\ cache' \in Copy /\ moves' \in Seq(Move)
    BY <1>11, <1>14 DEF UpdateAcceptedPanics
  <2> QED
    BY <1>14, <2>1 DEF TypeOK, UpdateAcceptedPanics, Steps
<1>15. CASE UpdateAnswerLost
  <2>1. target' \in Scale /\ cache' \in Copy /\ moves' \in Seq(Move)
    BY <1>11, <1>15 DEF UpdateAnswerLost
  <2>2. report' \in Record
    BY <1>12, <1>15 DEF UpdateAnswerLost
  <2> QED
    BY <1>15, <2>1, <2>2 DEF TypeOK, UpdateAnswerLost, Steps
<1>16. CASE UpdateRefused
  <2>1. report' \in Record
    BY <1>12, <1>16 DEF UpdateRefused
  <2> QED
    BY <1>16, <2>1 DEF TypeOK, UpdateRefused, Steps
<1>17. CASE StatusPatched
  <2>1. object' \in [spec : Specs, named : BOOLEAN]
    <3>1. object \in [spec : Specs, named : BOOLEAN] /\ houmao \in Specs
      BY DEF TypeOK
    <3> QED
      BY <1>17, <3>1 DEF StatusPatched
  <2> QED
    BY <1>17, <2>1, EndRoundType DEF StatusPatched
<1>18. CASE StatusRefused
  BY <1>18, EndRoundType DEF TypeOK, StatusRefused
<1>19. CASE NextRound
  BY <1>19 DEF TypeOK, NextRound, Steps
<1>20. CASE Reload
  BY <1>20 DEF TypeOK, Reload, Steps
<1>31. CASE Reconcile
  BY <1>31 DEF TypeOK, Reconcile
<1>21. CASE Kill
  BY <1>21 DEF TypeOK, Kill, Edit, Steps
<1>22. CASE Restart
  <2>1. cache' \in Copy
    BY <1>22 DEF TypeOK, Restart, Scale, Copy
  <2>2. scale' \in Copy /\ calc' \in Locals
    BY <1>22 DEF Restart, NoScale, NoCalc, Copy, Locals
  <2> QED
    BY <1>22, <2>1, <2>2, EmptySeq DEF TypeOK, Restart, Steps
<1>23. CASE EditHoumao
  BY <1>23 DEF TypeOK, EditHoumao, Edit
<1>24. ASSUME Overtaken PROVE cache' \in Copy /\ scale' \in Copy
  <2>1. cache \in Copy /\ scale \in Copy
    BY DEF TypeOK
  <2> QED
    BY <1>24, <2>1 DEF Overtaken, Copy
<1>25. CASE ScaleByHand
  <2>1. target' \in Scale
    <3>1. target \in Scale /\ Counts \subseteq Nat
      BY CountsAssumption DEF TypeOK
    <3> QED
      BY <1>25, <3>1 DEF ScaleByHand, Scale
  <2> QED
    BY <1>24, <1>25, <2>1 DEF TypeOK, ScaleByHand, Edit
<1>26. CASE LoadChanges
  BY <1>26 DEF TypeOK, LoadChanges, Edit
<1>27. CASE TargetProgress
  <2>1. target' \in Scale
    <3>1. target \in Scale
      BY DEF TypeOK
    <3> QED
      BY <1>27, <3>1 DEF TargetProgress, Scale
  <2> QED
    BY <1>24, <1>27, <2>1 DEF TypeOK, TargetProgress
<1>28. CASE CacheSync
  <2>1. cache' \in Copy
    BY <1>28 DEF TypeOK, CacheSync, Scale, Copy
  <2> QED
    BY <1>28, <2>1 DEF TypeOK, CacheSync
<1>29. CASE Tick
  BY <1>29 DEF TypeOK, Tick
<1>30. CASE UNCHANGED vars
  BY <1>30 DEF TypeOK, vars
<1> QED
  BY <1>1, <1>2, <1>3, <1>4, <1>5, <1>6, <1>7, <1>8, <1>9, <1>10, <1>13, <1>14, <1>15,
     <1>16, <1>17, <1>18, <1>19, <1>20, <1>21, <1>22, <1>23, <1>25, <1>26, <1>27, <1>28,
     <1>29, <1>30, <1>31
     DEF Next, Loop, Environment, Calculate, Update

(* The process starts with every variable in its type.                     *)
LEMMA TypeInit == Init => TypeOK
<1> SUFFICES ASSUME Init PROVE TypeOK
  OBVIOUS
<1>1. PICK n \in Counts : /\ target = [spec |-> n, status |-> n]
                          /\ cache = [spec |-> n, status |-> n, fresh |-> TRUE]
  BY DEF Init
<1>2. n \in Nat /\ load \in Loads
  BY CountsAssumption DEF Init
<1>3. target \in Scale /\ cache \in Copy
  BY <1>1, <1>2 DEF Scale, Copy
<1>4. scale \in Copy /\ calc \in Locals
  BY DEF Init, NoScale, NoCalc, Copy, Locals
<1> QED
  BY <1>2, <1>3, <1>4, EmptySeq DEF Init, TypeOK, Steps

(* Type correctness of the loop, for every set of specs and every bound.   *)
THEOREM TypeCorrect == Spec => []TypeOK
BY TypeInit, TypeStep, PTL DEF Spec

-----------------------------------------------------------------------------
(* The clamp keeps a count that a round may write: within the bounds, not  *)
(* below what runs unless MaxReplicas says so, and raised above it only by *)
(* a metric or MinReplicas.                                                *)
LEMMA ClampRespectsRound ==
    ASSUME TypeOK, calc.desired > Config.max \/ Config.min # Nil,
           calc.desired >= scale.status, calc.by = 0 => calc.desired = scale.status
    PROVE  /\ InRange(Clamped)
           /\ Clamped >= scale.status \/ Clamped = Config.max
           /\ calc.by > 0 \/ Clamped <= scale.status \/ Clamped = Config.min
<1>1. Config.min \in Nat \cup {Nil} /\ Config.max \in Nat
  BY ConfigType
<1>2. calc.desired \in Nat /\ scale.status \in Nat /\ calc.by \in Nat
  BY DEF TypeOK, Locals, Copy
<1> QED
  BY <1>1, <1>2 DEF Clamped, InRange

(* Every step keeps RoundInv: the steps of the loop by the round's own     *)
(* guards, a write because it takes fresh from the cache and leaves the    *)
(* round, and the steps of others because whoever changes the target takes *)
(* fresh from every copy.                                                  *)
LEMMA RoundStep ==
    ASSUME TypeOK, RoundInv, [Next]_vars
    PROVE  RoundInv'
<1> USE DEF Panic, cluster, handoff, local, memory
<1>0. target \in Scale /\ cache \in Copy /\ scale \in Copy /\ calc \in Locals
  BY DEF TypeOK
<1>1. CASE GetScale
  <2>1. /\ scale' = cache /\ pc' = "calculate" /\ target' = target /\ cache' = cache
        /\ calc'.desired = scale'.status
    BY <1>1 DEF GetScale
  <2>2. scale'.status \in Nat
    BY <1>0, <2>1 DEF Copy
  <2> QED
    BY <2>1, <2>2 DEF RoundInv
<1>2. CASE GetScaleFails
  BY <1>2 DEF RoundInv, GetScaleFails, EndRound
<1>3. CASE MetricAnswers
  <2>1. PICK n \in Answers :
            calc' = IF n > calc.desired
                    THEN [index |-> calc.index + 1, desired |-> n, by |-> calc.index]
                    ELSE [calc EXCEPT !.index = @ + 1]
    BY <1>3 DEF MetricAnswers
  <2>2. n \in Nat
    BY AnswersAreCounts
  <2>3. calc.index \in Nat /\ calc.index > 0
    BY <1>3, MetricPosition DEF MetricAnswers, Asking
  <2>4. calc.desired >= scale.status /\ (calc.by = 0 => calc.desired = scale.status)
        /\ scale.status \in Nat /\ calc.desired \in Nat
    BY <1>0, <1>3 DEF MetricAnswers, Asking, RoundInv, Copy, Locals
  <2>5. calc'.desired >= scale.status /\ (calc'.by = 0 => calc'.desired = scale.status)
    <3>1. CASE n > calc.desired
      <4>1. calc'.desired = n /\ calc'.by = calc.index
        BY <2>1, <3>1
      <4> QED
        BY <2>2, <2>3, <2>4, <3>1, <4>1
    <3>2. CASE ~(n > calc.desired)
      <4>1. calc'.desired = calc.desired /\ calc'.by = calc.by
        BY <1>0, <2>1, <3>2 DEF Locals
      <4> QED
        BY <2>4, <4>1
    <3> QED
      BY <3>1, <3>2
  <2>6. pc' = "calculate" /\ pc = "calculate" /\ UNCHANGED <<target, cache, scale>>
    BY <1>3 DEF MetricAnswers, Asking
  <2> QED
    BY <2>5, <2>6 DEF RoundInv
<1>4. CASE MetricFails
  <2>1. pc' = "calculate" /\ pc = "calculate" /\ UNCHANGED <<target, cache, scale>>
        /\ calc'.desired = calc.desired /\ calc'.by = calc.by
    BY <1>0, <1>4 DEF MetricFails, Asking, Locals
  <2> QED
    BY <2>1 DEF RoundInv
<1>5. CASE MetricPanics
  BY <1>5 DEF RoundInv, MetricPanics
<1>6. CASE MetricUnsupported
  BY <1>6 DEF RoundInv, MetricUnsupported, EndRound
<1>7. CASE Decide
  <2>1. /\ UNCHANGED <<target, cache, object>> /\ pc = "calculate"
        /\ calc.desired > Config.max \/ Config.min # Nil
    BY <1>7 DEF Decide, Calculated
  <2>2. CASE Clamped = scale.spec
    BY <1>7, <2>1, <2>2 DEF RoundInv, Decide, EndRound
  <2>3. CASE Clamped # scale.spec
    <3>1. pc' = "exec" /\ scale' = scale /\ calc'.desired = Clamped /\ calc'.by = calc.by
      BY <1>0, <1>7, <2>3 DEF Decide, Locals
    <3>2. /\ InRange(Clamped)
          /\ Clamped >= scale.status \/ Clamped = Config.max
          /\ calc.by > 0 \/ Clamped <= scale.status \/ Clamped = Config.min
      BY <2>1, ClampRespectsRound DEF RoundInv
    <3> QED
      BY <2>1, <2>3, <3>1, <3>2 DEF RoundInv, InRange, Config
  <2> QED
    BY <2>2, <2>3
<1>8. CASE DecidePanics
  BY <1>8 DEF RoundInv, DecidePanics
<1>9. CASE Exec
  <2>1. pc = "exec" /\ pc' = "update" /\ UNCHANGED <<target, cache, scale, calc, object>>
    BY <1>9 DEF Exec
  <2> QED
    BY <2>1 DEF RoundInv, InRange, Config
<1>10. CASE ExecPanics
  BY <1>10 DEF RoundInv, ExecPanics
<1>11. ASSUME NEW known, Write(known) PROVE cache'.fresh = FALSE
  BY <1>0, <1>11 DEF Write, Copy
<1>12. CASE UpdateAccepted
  BY <1>11, <1>12 DEF RoundInv, UpdateAccepted
<1>13. CASE UpdateAcceptedPanics
  BY <1>11, <1>13 DEF RoundInv, UpdateAcceptedPanics
<1>14. CASE UpdateAnswerLost
  BY <1>11, <1>14 DEF RoundInv, UpdateAnswerLost
<1>15. CASE UpdateRefused
  BY <1>15 DEF RoundInv, UpdateRefused
<1>16. CASE StatusPatched
  BY <1>16 DEF RoundInv, StatusPatched, EndRound
<1>17. CASE StatusRefused
  BY <1>17 DEF RoundInv, StatusRefused, EndRound
<1>18. CASE NextRound
  BY <1>18 DEF RoundInv, NextRound
<1>19. CASE Reload
  BY <1>19 DEF RoundInv, Reload
<1>30. CASE Reconcile
  BY <1>30 DEF RoundInv, Reconcile, InRange, Config
<1>20. CASE Kill
  BY <1>20 DEF RoundInv, Kill
<1>21. CASE Restart
  BY <1>21 DEF RoundInv, Restart
<1>22. CASE EditHoumao
  BY <1>22 DEF RoundInv, EditHoumao, InRange, Config
<1>23. ASSUME Overtaken
       PROVE  /\ cache'.fresh = FALSE /\ scale'.fresh = FALSE
              /\ scale'.spec = scale.spec /\ scale'.status = scale.status
  BY <1>0, <1>23 DEF Overtaken, Copy
<1>24. CASE ScaleByHand
  BY <1>23, <1>24 DEF RoundInv, ScaleByHand, InRange, Config
<1>25. CASE LoadChanges
  BY <1>25 DEF RoundInv, LoadChanges, InRange, Config
<1>26. CASE TargetProgress
  BY <1>23, <1>26 DEF RoundInv, TargetProgress, InRange, Config
<1>27. CASE CacheSync
  BY <1>27 DEF RoundInv, CacheSync, InRange, Config
<1>28. CASE Tick
  BY <1>28 DEF RoundInv, Tick, InRange, Config
<1>29. CASE UNCHANGED vars
  BY <1>29 DEF RoundInv, vars, InRange, Config
<1> QED
  BY <1>1, <1>2, <1>3, <1>4, <1>5, <1>6, <1>7, <1>8, <1>9, <1>10, <1>12, <1>13, <1>14,
     <1>15, <1>16, <1>17, <1>18, <1>19, <1>20, <1>21, <1>22, <1>24, <1>25, <1>26, <1>27,
     <1>28, <1>29, <1>30
     DEF Next, Loop, Environment, Calculate, Update

(* Before the first round there is no copy to be wrong.                    *)
LEMMA RoundInit == Init => RoundInv
BY DEF Init, RoundInv, NoScale

(* What a round holds on to between its read and its write.                *)
THEOREM RoundCorrect == Spec => []RoundInv
<1>1. TypeOK /\ RoundInv /\ [Next]_vars => (TypeOK /\ RoundInv)'
  BY TypeStep, RoundStep
<1> QED
  BY <1>1, TypeInit, RoundInit, PTL DEF Spec

-----------------------------------------------------------------------------
(* Action properties.  The server takes a write only in the three steps    *)
(* that contain Write; every other step keeps moves or empties it.         *)
LEMMA AcceptsIsWrite ==
    ASSUME TypeOK, [Next]_vars, Accepts
    PROVE  /\ pc = "update" /\ scale.fresh
           /\ NewMove.from = scale.spec
           /\ NewMove.to = calc.desired
<1> USE DEF cluster, handoff, local, memory
<1>1. ASSUME NEW known, Write(known)
      PROVE  /\ pc = "update" /\ scale.fresh
             /\ NewMove.from = scale.spec
             /\ NewMove.to = calc.desired
  <2>1. moves \in Seq(Move)
    BY DEF TypeOK
  <2> DEFINE new == [from |-> scale.spec, to |-> calc.desired, at |-> now, known |-> known]
  <2>2. moves' = Append(moves, new)
    BY <1>1 DEF Write
  <2>3. Len(moves') = Len(moves) + 1 /\ moves'[Len(moves) + 1] = new
    BY <2>1, <2>2
  <2>4. NewMove = new
    BY <2>3 DEF NewMove
  <2> QED
    BY <1>1, <2>4 DEF Write
<1>2. CASE UpdateAccepted \/ UpdateAcceptedPanics \/ UpdateAnswerLost
  BY <1>1, <1>2, Zenon DEF UpdateAccepted, UpdateAcceptedPanics, UpdateAnswerLost
<1>3. ASSUME moves' = moves \/ moves' = <<>> PROVE FALSE
  <2>1. moves \in Seq(Move)
    BY DEF TypeOK
  <2>2. Len(moves) \in Nat
    BY <2>1
  <2> QED
    BY <1>3, <2>2 DEF Accepts
<1>4. CASE ~(UpdateAccepted \/ UpdateAcceptedPanics \/ UpdateAnswerLost)
  <2>1. moves' = moves \/ moves' = <<>>
    BY <1>4 DEF Next, Loop, Environment, Calculate, Update, vars, GetScale, GetScaleFails,
       MetricAnswers, MetricFails, MetricPanics, MetricUnsupported, Decide, DecidePanics,
       Exec, ExecPanics, UpdateRefused, StatusPatched, StatusRefused, NextRound, Reload, Reconcile,
       Kill, Restart, EditHoumao, ScaleByHand, LoadChanges, TargetProgress, CacheSync, Tick
  <2> QED
    BY <1>3, <2>1
<1> QED
  BY <1>2, <1>4

(* The write is within the bounds of the spec the loop holds.              *)
THEOREM WritesStayInRange == Spec => WritesInRange
<1>1. ASSUME TypeOK, RoundInv, [Next]_vars PROVE [Accepts => InRange(NewMove.to)]_vars
  BY <1>1, AcceptsIsWrite DEF RoundInv
<1> QED
  BY <1>1, TypeCorrect, RoundCorrect, PTL DEF Spec, WritesInRange

(* The write replaces the count the round has read.                        *)
THEOREM UpdatesAreNotLost == Spec => NoLostUpdate
<1>1. ASSUME TypeOK, RoundInv, [Next]_vars
      PROVE  [Accepts => NewMove.from = target.spec /\ NewMove.to # target.spec]_vars
  BY <1>1, AcceptsIsWrite DEF RoundInv
<1> QED
  BY <1>1, TypeCorrect, RoundCorrect, PTL DEF Spec, NoLostUpdate

(* The write lowers the target only for a lagging status or the maximum.   *)
THEOREM ShrinksExplained == Spec => ShrinksOnlyForLagOrMax
<1>1. ASSUME TypeOK, RoundInv, [Next]_vars
      PROVE  [Accepts /\ NewMove.to < NewMove.from =>
                  NewMove.to >= target.status \/ NewMove.to = Config.max]_vars
  BY <1>1, AcceptsIsWrite DEF RoundInv
<1> QED
  BY <1>1, TypeCorrect, RoundCorrect, PTL DEF Spec, ShrinksOnlyForLagOrMax

(* The write raises the target only for one of its three causes.           *)
THEOREM GrowthExplained == Spec => GrowsOnlyForCause
<1>1. ASSUME TypeOK, RoundInv, [Next]_vars
      PROVE  [Accepts /\ NewMove.to > NewMove.from =>
                  calc.by > 0 \/ NewMove.to = Config.min \/ target.status > NewMove.from]_vars
  <2>1. CASE Accepts
    <3>1. calc.desired \in Nat /\ scale.status \in Nat /\ scale.spec \in Nat
      BY <1>1 DEF TypeOK, Locals, Copy
    <3>2. NewMove.to > NewMove.from => calc.by > 0 \/ NewMove.to = Config.min
                                         \/ target.status > NewMove.from
      BY <1>1, <2>1, <3>1, AcceptsIsWrite DEF RoundInv
    <3> QED
      BY <3>2
  <2> QED
    BY <2>1
<1> QED
  BY <1>1, TypeCorrect, RoundCorrect, PTL DEF Spec, GrowsOnlyForCause

-----------------------------------------------------------------------------
(* What the processor panics on is excluded by a sound spec.               *)
LEMMA SoundDoesNotRevisePanic ==
    ASSUME Sound(Config), NEW desired, NEW current, NEW records, NEW time
    PROVE  ~RevisePanics(desired, current, Config.up, Config.down, records, time)
BY DEF Sound, RevisePanics, LimitPanics

(* Only an unsound spec, or a kill, ends the process.                      *)
THEOREM PanicsExplained == Spec => PanicsOnlyUnsound
<1>1. ASSUME TypeOK, [Next]_vars
      PROVE  [pc' = "crashed" /\ edits' = edits => pc = "crashed" \/ ~Sound(Config)]_vars
  <2> SUFFICES ASSUME pc' = "crashed", edits' = edits, pc # "crashed", Sound(Config)
               PROVE  FALSE
    OBVIOUS
  <2> USE DEF cluster, handoff, local, memory
  <2>1. CASE MetricPanics
    <3>1. Config.metrics[calc.index] \notin Panicking \cup {"Pods"}
      BY <2>1 DEF MetricPanics, Asking, Sound
    <3> QED
      BY <2>1, <3>1 DEF MetricPanics, Metric
  <2>2. CASE DecidePanics
    BY <2>2 DEF DecidePanics, Sound
  <2>3. CASE ExecPanics
    BY <2>3, SoundDoesNotRevisePanic DEF ExecPanics
  <2>4. CASE UpdateAcceptedPanics
    BY <2>4 DEF UpdateAcceptedPanics, Sound
  <2>5. CASE Kill \/ EditHoumao \/ ScaleByHand \/ LoadChanges
    <3>1. edits \in Nat /\ edits' = edits + 1
      BY <1>1, <2>5 DEF TypeOK, Kill, EditHoumao, ScaleByHand, LoadChanges, Edit
    <3> QED
      BY <3>1
  <2>6. CASE ~(\/ MetricPanics \/ DecidePanics \/ ExecPanics \/ UpdateAcceptedPanics
               \/ Kill \/ EditHoumao \/ ScaleByHand \/ LoadChanges)
    BY <1>1, <2>6 DEF Next, Loop, Environment, Calculate, Update, vars, GetScale, GetScaleFails,
       MetricAnswers, MetricFails, MetricUnsupported, Decide, EndRound, Asking, Calculated,
       Exec, UpdateAccepted, UpdateAnswerLost, UpdateRefused, StatusPatched, StatusRefused,
       NextRound, Reload, Reconcile, Restart, TargetProgress, CacheSync, Tick
  <2> QED
    BY <2>1, <2>2, <2>3, <2>4, <2>5, <2>6
<1> QED
  BY <1>1, TypeCorrect, PTL DEF Spec, PanicsOnlyUnsound

-----------------------------------------------------------------------------
(* A count is reported only right after the write that made it so.         *)
LEMMA ReportStep ==
    ASSUME TypeOK, ReportTruthful, [Next]_vars
    PROVE  ReportTruthful'
<1> USE DEF cluster, handoff, local, memory
<1>1. CASE UpdateAccepted
  <2> DEFINE new == [from |-> scale.spec, to |-> calc.desired, at |-> now, known |-> TRUE]
  <2>1. moves \in Seq(Move) /\ moves' = Append(moves, new)
    BY <1>1 DEF TypeOK, UpdateAccepted, Write
  <2>2. moves' # <<>> /\ Last(moves') = new
    BY <2>1 DEF Last
  <2>3. /\ report'.DesiredReplicas = calc.desired /\ report'.CurrentReplicas = scale.spec
        /\ report'.ScaledReplicas = calc.desired - scale.spec
    BY <1>1 DEF UpdateAccepted, Result
  <2> QED
    BY <2>2, <2>3 DEF ReportTruthful
<1>2. CASE UpdateAnswerLost \/ UpdateRefused
  <2>1. report' = Result(0)
    BY <1>2 DEF UpdateAnswerLost, UpdateRefused
  <2>2. report'.DesiredReplicas = 0
    BY <2>1 DEF Result
  <2> QED
    BY <2>2 DEF ReportTruthful
<1>3. CASE ~(UpdateAccepted \/ UpdateAnswerLost \/ UpdateRefused)
  <2>1. pc' # "report" \/ (pc = "report" /\ UNCHANGED <<report, moves>>)
    BY <1>3 DEF Next, Loop, Environment, Calculate, Update, vars, GetScale, GetScaleFails,
       MetricAnswers, MetricFails, MetricPanics, MetricUnsupported, Asking, Calculated, Decide,
       DecidePanics, Exec, ExecPanics, UpdateAcceptedPanics, StatusPatched, StatusRefused,
       EndRound, Panic, NextRound, Reload, Reconcile, Kill, Restart, EditHoumao, ScaleByHand,
       LoadChanges, TargetProgress, CacheSync, Tick
  <2> QED
    BY <2>1 DEF ReportTruthful
<1> QED
  BY <1>1, <1>2, <1>3

(* The ZaohuaRecord of a round never claims a write that did not happen.   *)
THEOREM ReportsAreTruthful == Spec => []ReportTruthful
<1>1. Init => ReportTruthful
  BY DEF Init, ReportTruthful
<1>2. TypeOK /\ ReportTruthful /\ [Next]_vars => ReportTruthful'
  BY ReportStep
<1> QED
  BY <1>1, <1>2, TypeCorrect, PTL DEF Spec

-----------------------------------------------------------------------------
(* The shortest window of any spec is no longer than those of the rules    *)
(* that a round revises with.                                              *)
LEMMA ShortestWindow ==
    ASSUME TypeOK, Both, Config.up.window # Nil, Config.down.window # Nil
    PROVE  /\ Config.up.window \in Nat /\ Config.down.window \in Nat
           /\ Min(Windows) \in Nat
           /\ Min(Windows) <= Config.up.window /\ Min(Windows) <= Config.down.window
<1>1. Windows \subseteq Nat
  <2>1. \A s \in Specs : s.up \in Rules \cup {Nil} /\ s.down \in Rules \cup {Nil}
    BY SpecsAssumption DEF HoumaoSpec
  <2>2. \A r \in Rules : r.window \in Nat \cup {Nil}
    BY DEF Rules
  <2>3. \A r \in WindowRules : r \in Rules
    BY <2>1 DEF WindowRules
  <2> QED
    BY <2>2, <2>3 DEF Windows
<1>2. Config \in Specs /\ Config.up # Nil /\ Config.down # Nil
  BY ConfigType DEF Both
<1>3. Config.up.window \in Windows /\ Config.down.window \in Windows
  <2>1. Config.up \in WindowRules /\ Config.down \in WindowRules
    BY <1>2 DEF WindowRules
  <2> QED
    BY <2>1 DEF Windows
<1>4. Min(Windows) \in Windows /\ \A n \in Windows : Min(Windows) <= n
  BY <1>1, <1>3, LeastOfNaturals
<1> QED
  BY <1>1, <1>3, <1>4

(* No recommendation that a window may still ask for is overwritten.       *)
THEOREM RecordsAreKept == Spec => RecordsKept
<1>1. ASSUME TypeOK, [Next]_vars
      PROVE  [pc # "crashed" /\ Windows # {} =>
                \A rec \in ToSet(RecommendationRecords) :
                    ~Before(rec.Timestamp, now - Min(Windows)) =>
                        rec \in ToSet(RecommendationRecords')]_vars
  <2> SUFFICES ASSUME pc # "crashed", NEW rec \in ToSet(RecommendationRecords),
                      ~Before(rec.Timestamp, now - Min(Windows))
               PROVE  rec \in ToSet(RecommendationRecords')
    OBVIOUS
  <2>0. RecommendationRecords \in Seq(Recommendation) /\ now \in Nat
    BY <1>1 DEF TypeOK
  <2> USE DEF cluster, handoff, local, memory
  <2>1. CASE Exec
    <3>1. CASE Both
      <4> DEFINE stable == Stabilized(calc.desired, scale.spec, Config.up, Config.down,
                                      RecommendationRecords, now)
      <4>1. /\ ~RevisePanics(calc.desired, scale.spec, Config.up, Config.down,
                             RecommendationRecords, now)
            /\ RecommendationRecords' =
                   Recorded(stable, Config.up, Config.down, RecommendationRecords, now)
        BY <2>1, <3>1 DEF Exec, RevisedRecords
      <4>2. Config.up.window # Nil /\ Config.down.window # Nil
        BY <4>1 DEF RevisePanics
      <4>3. /\ Config.up.window \in Nat /\ Config.down.window \in Nat /\ Min(Windows) \in Nat
            /\ Min(Windows) <= Config.up.window /\ Min(Windows) <= Config.down.window
        BY <1>1, <3>1, <4>2, ShortestWindow
      <4> HIDE DEF stable
      <4>4. rec \in ToSet(Recorded(stable, Config.up, Config.down, RecommendationRecords, now))
        BY <2>0, <4>3, RecordedKeepsYoung
      <4> QED
        BY <4>1, <4>4
    <3>2. CASE ~Both
      BY <2>1, <3>2 DEF Exec
    <3> QED
      BY <3>1, <3>2
  <2>2. CASE ~Exec
    <3>1. UNCHANGED RecommendationRecords
      BY <1>1, <2>2 DEF Next, Loop, Environment, Calculate, Update, vars, GetScale, GetScaleFails,
         MetricAnswers, MetricFails, MetricPanics, MetricUnsupported, Decide, DecidePanics,
         ExecPanics, UpdateAccepted, UpdateAcceptedPanics, UpdateAnswerLost, UpdateRefused,
         StatusPatched, StatusRefused, NextRound, Reload, Reconcile, Kill, Restart, EditHoumao,
         ScaleByHand, LoadChanges, TargetProgress, CacheSync, Tick
    <3> QED
      BY <3>1
  <2> QED
    BY <2>1, <2>2
<1> QED
  BY <1>1, TypeCorrect, PTL DEF Spec, RecordsKept

-----------------------------------------------------------------------------
(* What the writes of one direction, up or down, add up to after a cutoff. *)
Went(m, up) == IF up THEN Up(m) ELSE Down(m)
Size(m) == Abs(m.to - m.from)
Sizes(ms, up, cutoff) ==
    [i \in DOMAIN ms |->
        IF ms[i].known /\ Went(ms[i], up) /\ After(ms[i].at, cutoff) THEN Size(ms[i]) ELSE 0]
Gone(ms, up, cutoff) == SumFunctionOnSet(Sizes(ms, up, cutoff), DOMAIN ms)

(* Written is such a sum.                                                  *)
LEMMA WrittenIsSum ==
    ASSUME NEW period
    PROVE  /\ Written(period, Up) = Gone(moves, TRUE, now - period)
           /\ Written(period, Down) = Gone(moves, FALSE, now - period)
<1>1. \A up : DOMAIN Sizes(moves, up, now - period) = DOMAIN moves
  BY DEF Sizes
<1>2. Written(period, Up) = Gone(moves, TRUE, now - period)
  BY <1>1, Zenon DEF Written, Gone, Sizes, Went, Size, SumFunction
<1>3. Written(period, Down) = Gone(moves, FALSE, now - period)
  BY <1>1, Zenon DEF Written, Gone, Sizes, Went, Size, SumFunction
<1> QED
  BY <1>2, <1>3

(* A write adds its size, if it went that way and is after the cutoff.     *)
LEMMA MoveIsAdded ==
    ASSUME NEW ms \in Seq(Move), NEW m \in Move, NEW up \in BOOLEAN, NEW c \in Int
    PROVE  /\ Gone(ms, up, c) \in Nat
           /\ Gone(Append(ms, m), up, c)
                = Gone(ms, up, c) + (IF m.known /\ Went(m, up) /\ After(m.at, c)
                                     THEN Size(m) ELSE 0)
<1> DEFINE n == Len(ms)
           more == Append(ms, m)
           old == Sizes(ms, up, c)
           neu == Sizes(more, up, c)
           Step(x) == IF x.known /\ Went(x, up) /\ After(x.at, c) THEN Size(x) ELSE 0
<1>1. n \in Nat /\ DOMAIN ms = 1..n
  BY LenProperties
<1>2. DOMAIN more = 1..(n + 1) /\ more[n + 1] = m /\ \A i \in 1..n : more[i] = ms[i]
  <2>1. /\ more \in Seq(Move) /\ Len(more) = n + 1 /\ more[n + 1] = m
        /\ \A i \in 1..n : more[i] = ms[i]
    BY AppendProperties
  <2> HIDE DEF more
  <2> QED
    BY <2>1, LenProperties
<1>3. \A x \in Move : Step(x) \in Nat
  <2>1. \A x \in Move : Size(x) \in Nat
    BY DEF Move, Size, Abs
  <2> QED
    BY <2>1
<1> HIDE DEF more, n
<1>4. (\A i \in 1..n : old[i] = Step(ms[i])) /\ (\A i \in 1..(n + 1) : neu[i] = Step(more[i]))
  BY <1>1, <1>2, Zenon DEF Sizes
<1> HIDE DEF old, neu, Step
<1>5. \A i \in 1..n : ms[i] \in Move /\ i \in 1..(n + 1)
  BY <1>1, ElementOfSeq DEF n
<1>6. \A i \in 1..n : old[i] \in Nat /\ neu[i] = old[i]
  BY <1>2, <1>3, <1>4, <1>5
<1>7. neu[n + 1] = Step(m) /\ Step(m) \in Nat
  <2>1. n + 1 \in 1..(n + 1)
    BY <1>1
  <2> QED
    BY <1>2, <1>3, <1>4, <2>1
<1>8. SumFunctionOnSet(old, 1..n) \in Nat
  <2>1. IsFiniteSet(1..n)
    BY <1>1, FS_Interval
  <2> QED
    BY <1>6, <2>1, SumType
<1>9. SumFunctionOnSet(neu, 1..(n + 1)) = SumFunctionOnSet(old, 1..n) + neu[n + 1]
  <2>1. \A i \in 1..n : old[i] \in Int /\ neu[i] = old[i]
    BY <1>6
  <2>2. neu[n + 1] \in Int
    BY <1>7
  <2> QED
    BY <1>1, <2>1, <2>2, SumOfAppend
<1>10. Gone(ms, up, c) = SumFunctionOnSet(old, 1..n)
       /\ Gone(more, up, c) = SumFunctionOnSet(neu, 1..(n + 1))
  BY <1>1, <1>2 DEF Gone, old, neu
<1> QED
  BY <1>7, <1>8, <1>9, <1>10 DEF Step, more

(* The events remember the writes of one direction: marked events are too  *)
(* old to matter, and after every cutoff a period can set, also those that *)
(* the clock has yet to reach, the events add up to the writes.            *)
Remembered(events, ms, up, least) ==
    /\ KeptSince(events, least)
    /\ \A c \in Int : c >= least => EventSum(events, c) = Gone(ms, up, c)

(* Nothing is remembered of nothing.                                       *)
LEMMA RememberedEmpty ==
    ASSUME NEW up, NEW least
    PROVE  Remembered(<<>>, <<>>, up, least)
<1>1. DOMAIN <<>> = {}
  OBVIOUS
<1>2. \A c : EventSum(<<>>, c) = 0 /\ Gone(<<>>, up, c) = 0
  BY <1>1, FS_EmptySet, SumOfChosen DEF EventSum, Gone
<1> QED
  BY <1>1, <1>2 DEF Remembered, KeptSince

(* The clock only moves the cutoffs.                                       *)
LEMMA RememberedLater ==
    ASSUME NEW events \in Seq(ScaleEvent), NEW ms, NEW up, NEW least \in Int,
           Remembered(events, ms, up, least)
    PROVE  Remembered(events, ms, up, least + 1)
<1>1. \A i \in DOMAIN events : events[i].TimeStamp \in Nat
  <2>1. \A i \in DOMAIN events : events[i] \in ScaleEvent
    BY ElementOfSeq, LenProperties
  <2> QED
    BY <2>1 DEF ScaleEvent
<1>2. KeptSince(events, least + 1)
  BY <1>1 DEF Remembered, KeptSince, After
<1>3. \A c \in Int : c >= least + 1 => c >= least
  OBVIOUS
<1> QED
  BY <1>2, <1>3 DEF Remembered

(* A write whose answer arrived, stored as an event of its direction under *)
(* rules whose longest period is not shorter than the least.               *)
LEMMA RememberedStored ==
    ASSUME NEW events \in Seq(ScaleEvent), NEW ms \in Seq(Move), NEW up \in BOOLEAN,
           NEW rules, NEW m \in Move, m.known, Went(m, up) \/ m.to = m.from,
           NEW least \in Nat, LongestPolicyPeriod(rules) \in Nat,
           least <= LongestPolicyPeriod(rules),
           Remembered(events, ms, up, m.at - least)
    PROVE  Remembered(EventStored(events, rules, Size(m), m.at), Append(ms, m), up, m.at - least)
<1> DEFINE stored == EventStored(events, rules, Size(m), m.at)
<1>1. m.at \in Nat /\ Size(m) \in Nat /\ m.at - least \in Int
  BY DEF Move, Size, Abs
<1>2. KeptSince(events, m.at - least)
  BY DEF Remembered
<1>3. /\ KeptSince(stored, m.at - least)
      /\ \A c \in Int : c >= m.at - least =>
            EventSum(stored, c) = EventSum(events, c) + (IF After(m.at, c) THEN Size(m) ELSE 0)
  BY <1>1, <1>2, StoredEventIsAdded
<1> HIDE DEF stored
<1>4. ~Went(m, up) => Size(m) = 0
  BY DEF Move, Size, Abs
<1>5. ASSUME NEW c \in Int, c >= m.at - least
      PROVE  EventSum(stored, c) = Gone(Append(ms, m), up, c)
  <2>1. EventSum(stored, c) = Gone(ms, up, c) + (IF After(m.at, c) THEN Size(m) ELSE 0)
    BY <1>3, <1>5 DEF Remembered
  <2>2. Gone(Append(ms, m), up, c)
          = Gone(ms, up, c) + (IF m.known /\ Went(m, up) /\ After(m.at, c) THEN Size(m) ELSE 0)
    BY MoveIsAdded
  <2> QED
    BY <1>4, <2>1, <2>2
<1> QED
  BY <1>3, <1>5 DEF Remembered, stored

(* A write of the other direction, or whose answer was lost.               *)
LEMMA RememberedOther ==
    ASSUME NEW events, NEW ms \in Seq(Move), NEW up \in BOOLEAN, NEW least,
           NEW m \in Move, ~(m.known /\ Went(m, up)),
           Remembered(events, ms, up, least)
    PROVE  Remembered(events, Append(ms, m), up, least)
<1>1. \A c \in Int : Gone(Append(ms, m), up, c) = Gone(ms, up, c)
  BY MoveIsAdded
<1> QED
  BY <1>1 DEF Remembered

(* The least longest period of all specs is not above that of the rules    *)
(* the loop stores an event with.                                          *)
LEMMA ShortestPeriod ==
    ASSUME TypeOK
    PROVE  /\ UpPeriods # {} => Min(UpPeriods) \in Nat
           /\ DownPeriods # {} => Min(DownPeriods) \in Nat
           /\ Config.up # Nil => /\ UpPeriods # {}
                                 /\ LongestPolicyPeriod(Config.up) \in Nat
                                 /\ Min(UpPeriods) <= LongestPolicyPeriod(Config.up)
           /\ Config.down # Nil => /\ DownPeriods # {}
                                   /\ LongestPolicyPeriod(Config.down) \in Nat
                                   /\ Min(DownPeriods) <= LongestPolicyPeriod(Config.down)
<1>1. \A s \in Specs : /\ s.up # Nil => LongestPolicyPeriod(s.up) \in Nat
                       /\ s.down # Nil => LongestPolicyPeriod(s.down) \in Nat
  <2> SUFFICES ASSUME NEW s \in Specs
               PROVE  /\ s.up # Nil => LongestPolicyPeriod(s.up) \in Nat
                      /\ s.down # Nil => LongestPolicyPeriod(s.down) \in Nat
    OBVIOUS
  <2>1. s.up \in Rules \cup {Nil} /\ s.down \in Rules \cup {Nil}
    BY SpecsAssumption DEF HoumaoSpec
  <2>2. /\ s.up # Nil => IsFiniteSet(s.up.policies)
        /\ s.down # Nil => IsFiniteSet(s.down.policies)
    BY PoliciesAssumption
  <2> QED
    BY <2>1, <2>2, LongestPeriodIsNatural
<1>2. UpPeriods \subseteq Nat /\ DownPeriods \subseteq Nat
  BY <1>1 DEF UpPeriods, DownPeriods, Periods
<1>3. Config \in Specs
  BY ConfigType
<1>4. /\ Config.up # Nil => LongestPolicyPeriod(Config.up) \in UpPeriods
      /\ Config.down # Nil => LongestPolicyPeriod(Config.down) \in DownPeriods
  BY <1>3 DEF UpPeriods, DownPeriods, Periods
<1>5. /\ UpPeriods # {} => Min(UpPeriods) \in UpPeriods /\ \A n \in UpPeriods : Min(UpPeriods) <= n
      /\ DownPeriods # {} =>
            Min(DownPeriods) \in DownPeriods /\ \A n \in DownPeriods : Min(DownPeriods) <= n
  BY <1>2, LeastOfNaturals
<1> QED
  BY <1>2, <1>4, <1>5

(* What a living process remembers of both directions.                     *)
EventsInv ==
    pc # "crashed" =>
        /\ UpPeriods # {} =>
               Remembered(ScaleUpEvents, moves, TRUE, now - Min(UpPeriods))
        /\ DownPeriods # {} =>
               Remembered(ScaleDownEvents, moves, FALSE, now - Min(DownPeriods))

(* Every write that ends a round, and every step of the clock, keeps it.   *)
LEMMA EventsStep ==
    ASSUME TypeOK, EventsInv, [Next]_vars
    PROVE  EventsInv'
<1> USE DEF cluster, handoff, local, memory
<1>1. /\ ScaleUpEvents \in Seq(ScaleEvent) /\ ScaleDownEvents \in Seq(ScaleEvent)
      /\ moves \in Seq(Move) /\ now \in Nat /\ scale.spec \in Nat /\ calc.desired \in Nat
  BY DEF TypeOK, Copy, Locals
<1>2. ASSUME NEW known \in BOOLEAN, Write(known)
      PROVE  \E m \in Move : /\ moves' = Append(moves, m)
                             /\ m.from = scale.spec /\ m.to = calc.desired
                             /\ m.at = now /\ m.known = known
  <2> DEFINE m == [from |-> scale.spec, to |-> calc.desired, at |-> now, known |-> known]
  <2>1. m \in Move
    BY <1>1 DEF Move
  <2>2. moves' = Append(moves, m)
    BY <1>2 DEF Write
  <2> QED
    BY <2>1, <2>2
<1>3. CASE pc' = "crashed"
  BY <1>3 DEF EventsInv
<1>4. CASE UpdateAccepted /\ StoreUp
  <2>1. pc # "crashed" /\ UNCHANGED <<now, ScaleDownEvents>>
    BY <1>4 DEF UpdateAccepted, Write, StoreUp
  <2>2. PICK m \in Move : /\ moves' = Append(moves, m)
                          /\ m.from = scale.spec /\ m.to = calc.desired
                          /\ m.at = now /\ m.known = TRUE
    BY <1>2, <1>4 DEF UpdateAccepted
  <2>3. calc.desired > scale.spec /\ Config.up # Nil
        /\ ScaleUpEvents' = EventStored(ScaleUpEvents, Config.up, calc.desired - scale.spec, now)
    BY <1>4 DEF StoreUp
  <2>4. Went(m, TRUE) /\ ~Went(m, FALSE) /\ Size(m) = calc.desired - scale.spec
    BY <1>1, <2>2, <2>3 DEF Went, Up, Down, Size, Abs
  <2>5. UpPeriods # {} => Remembered(ScaleUpEvents', moves', TRUE, now - Min(UpPeriods))
    <3> SUFFICES ASSUME UpPeriods # {}
                 PROVE  Remembered(ScaleUpEvents', moves', TRUE, now - Min(UpPeriods))
      OBVIOUS
    <3>1. Min(UpPeriods) \in Nat /\ LongestPolicyPeriod(Config.up) \in Nat
          /\ Min(UpPeriods) <= LongestPolicyPeriod(Config.up)
      BY <2>3, ShortestPeriod
    <3>2. Remembered(ScaleUpEvents, moves, TRUE, m.at - Min(UpPeriods))
      BY <2>1, <2>2 DEF EventsInv
    <3> QED
      BY <1>1, <2>2, <2>3, <2>4, <3>1, <3>2, RememberedStored
  <2>6. DownPeriods # {} => Remembered(ScaleDownEvents', moves', FALSE, now - Min(DownPeriods))
    BY <1>1, <2>1, <2>2, <2>4, RememberedOther DEF EventsInv
  <2> QED
    BY <2>1, <2>5, <2>6 DEF EventsInv
<1>5. CASE UpdateAccepted /\ StoreDown
  <2>1. pc # "crashed" /\ UNCHANGED <<now, ScaleUpEvents>>
    BY <1>5 DEF UpdateAccepted, Write, StoreDown
  <2>2. PICK m \in Move : /\ moves' = Append(moves, m)
                          /\ m.from = scale.spec /\ m.to = calc.desired
                          /\ m.at = now /\ m.known = TRUE
    BY <1>2, <1>5 DEF UpdateAccepted
  <2>3. calc.desired <= scale.spec /\ Config.down # Nil
        /\ ScaleDownEvents' =
             EventStored(ScaleDownEvents, Config.down, scale.spec - calc.desired, now)
    BY <1>5 DEF StoreDown
  <2>4. Went(m, FALSE) \/ m.to = m.from
    BY <1>1, <2>2, <2>3 DEF Went, Down
  <2>5. ~Went(m, TRUE) /\ Size(m) = scale.spec - calc.desired
    BY <1>1, <2>2, <2>3 DEF Went, Up, Size, Abs
  <2>6. DownPeriods # {} => Remembered(ScaleDownEvents', moves', FALSE, now - Min(DownPeriods))
    <3> SUFFICES ASSUME DownPeriods # {}
                 PROVE  Remembered(ScaleDownEvents', moves', FALSE, now - Min(DownPeriods))
      OBVIOUS
    <3>1. Min(DownPeriods) \in Nat /\ LongestPolicyPeriod(Config.down) \in Nat
          /\ Min(DownPeriods) <= LongestPolicyPeriod(Config.down)
      BY <2>3, ShortestPeriod
    <3>2. Remembered(ScaleDownEvents, moves, FALSE, m.at - Min(DownPeriods))
      BY <2>1, <2>2 DEF EventsInv
    <3> QED
      BY <1>1, <2>2, <2>3, <2>4, <2>5, <3>1, <3>2, RememberedStored
  <2>7. UpPeriods # {} => Remembered(ScaleUpEvents', moves', TRUE, now - Min(UpPeriods))
    BY <1>1, <2>1, <2>2, <2>5, RememberedOther DEF EventsInv
  <2> QED
    BY <2>1, <2>6, <2>7 DEF EventsInv
<1>6. CASE UpdateAnswerLost
  <2>1. pc # "crashed" /\ UNCHANGED <<now, ScaleUpEvents, ScaleDownEvents>>
    BY <1>6 DEF UpdateAnswerLost, Write
  <2>2. PICK m \in Move : moves' = Append(moves, m) /\ m.known = FALSE
    BY <1>2, <1>6 DEF UpdateAnswerLost
  <2> QED
    BY <1>1, <2>1, <2>2, RememberedOther DEF EventsInv
<1>7. CASE Restart
  <2>1. ScaleUpEvents' = <<>> /\ ScaleDownEvents' = <<>> /\ moves' = <<>>
    BY <1>7 DEF Restart
  <2> QED
    BY <2>1, RememberedEmpty DEF EventsInv
<1>8. CASE Tick
  <2>1. UNCHANGED <<pc, ScaleUpEvents, ScaleDownEvents, moves>> /\ now' = now + 1
    BY <1>8 DEF Tick
  <2>2. ASSUME UpPeriods # {}, pc # "crashed"
        PROVE  Remembered(ScaleUpEvents, moves, TRUE, now' - Min(UpPeriods))
    <3>1. Min(UpPeriods) \in Nat
      BY <2>2, ShortestPeriod
    <3>2. now' - Min(UpPeriods) = (now - Min(UpPeriods)) + 1 /\ now - Min(UpPeriods) \in Int
      BY <1>1, <2>1, <3>1
    <3>3. Remembered(ScaleUpEvents, moves, TRUE, now - Min(UpPeriods))
      BY <2>2 DEF EventsInv
    <3> QED
      BY <1>1, <3>2, <3>3, RememberedLater
  <2>3. ASSUME DownPeriods # {}, pc # "crashed"
        PROVE  Remembered(ScaleDownEvents, moves, FALSE, now' - Min(DownPeriods))
    <3>1. Min(DownPeriods) \in Nat
      BY <2>3, ShortestPeriod
    <3>2. now' - Min(DownPeriods) = (now - Min(DownPeriods)) + 1 /\ now - Min(DownPeriods) \in Int
      BY <1>1, <2>1, <3>1
    <3>3. Remembered(ScaleDownEvents, moves, FALSE, now - Min(DownPeriods))
      BY <2>3 DEF EventsInv
    <3> QED
      BY <1>1, <3>2, <3>3, RememberedLater
  <2> QED
    BY <2>1, <2>2, <2>3 DEF EventsInv
<1>9. CASE /\ ~UpdateAccepted /\ ~UpdateAnswerLost /\ ~Restart /\ ~Tick
           /\ pc' # "crashed"
  <2>1. UNCHANGED <<now, ScaleUpEvents, ScaleDownEvents, moves>>
    <3>1. ~UpdateAcceptedPanics
      BY <1>9 DEF UpdateAcceptedPanics, Panic
    <3> QED
      BY <1>9, <3>1 DEF Next, Loop, Environment, Calculate, Update, vars, GetScale, GetScaleFails,
         MetricAnswers, MetricFails, MetricPanics, MetricUnsupported, Decide, DecidePanics,
         Exec, ExecPanics, UpdateRefused, StatusPatched, StatusRefused, NextRound, Reload,
         Reconcile, Kill, EditHoumao, ScaleByHand, LoadChanges, TargetProgress, CacheSync
  <2>2. pc # "crashed"
    <3>1. Loop => pc # "crashed"
      BY DEF Loop, Calculate, Update, GetScale, GetScaleFails, MetricAnswers, MetricFails,
         MetricPanics, MetricUnsupported, Asking, Decide, DecidePanics, Calculated, Exec,
         ExecPanics, UpdateAccepted, UpdateAcceptedPanics, UpdateAnswerLost, Write,
         UpdateRefused, StatusPatched, StatusRefused, NextRound, Reload
    <3>2. Environment => pc # "crashed" \/ UNCHANGED pc
      BY <1>9 DEF Environment, Reconcile, Kill, EditHoumao, ScaleByHand, LoadChanges,
         TargetProgress, CacheSync
    <3> QED
      BY <1>9, <3>1, <3>2 DEF Next, vars
  <2> QED
    BY <2>1, <2>2 DEF EventsInv
<1> QED
  BY <1>3, <1>4, <1>5, <1>6, <1>7, <1>8, <1>9 DEF UpdateAccepted

(* The process remembers all it was told of for as long as it may matter.  *)
THEOREM EventsAreRemembered == Spec => []EventsAddUp
<1>1. Init => EventsInv
  <2> SUFFICES ASSUME Init PROVE EventsInv
    OBVIOUS
  <2> QED
    BY RememberedEmpty DEF Init, EventsInv
<1>2. TypeOK /\ EventsInv /\ [Next]_vars => EventsInv'
  BY EventsStep
<1>3. TypeOK /\ EventsInv => EventsAddUp
  <2> SUFFICES ASSUME TypeOK, EventsInv, pc # "crashed" PROVE EventsAddUp
    BY DEF EventsAddUp
  <2>1. now \in Nat
    BY DEF TypeOK
  <2>2. ASSUME UpPeriods # {}, NEW p \in 1..Min(UpPeriods)
        PROVE  ReplicasChange(p, ScaleUpEvents, now) = Written(p, Up)
    <3>1. Min(UpPeriods) \in Nat
      BY <2>2, ShortestPeriod
    <3>2. now - p \in Int /\ now - p >= now - Min(UpPeriods)
      BY <2>1, <3>1
    <3>3. EventSum(ScaleUpEvents, now - p) = Gone(moves, TRUE, now - p)
      BY <2>2, <3>2 DEF EventsInv, Remembered
    <3> QED
      BY <3>3, ReplicasChangeIsSum, WrittenIsSum
  <2>3. ASSUME DownPeriods # {}, NEW p \in 1..Min(DownPeriods)
        PROVE  ReplicasChange(p, ScaleDownEvents, now) = Written(p, Down)
    <3>1. Min(DownPeriods) \in Nat
      BY <2>3, ShortestPeriod
    <3>2. now - p \in Int /\ now - p >= now - Min(DownPeriods)
      BY <2>1, <3>1
    <3>3. EventSum(ScaleDownEvents, now - p) = Gone(moves, FALSE, now - p)
      BY <2>3, <3>2 DEF EventsInv, Remembered
    <3> QED
      BY <3>3, ReplicasChangeIsSum, WrittenIsSum
  <2> QED
    BY <2>2, <2>3, Zenon DEF EventsAddUp
<1> QED
  BY <1>1, <1>2, <1>3, TypeCorrect, PTL DEF Spec
=============================================================================
