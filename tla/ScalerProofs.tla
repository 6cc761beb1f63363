---------------------------- MODULE ScalerProofs ----------------------------
(***************************************************************************)
(* The refinement of ZaohuaScaler, for all specs, counts and bounds.       *)
(***************************************************************************)
EXTENDS ZaohuaScaler, ZaohuaProofs

(* Only a round that is about to patch the status has something to report. *)
NothingToReport == pc \notin {"report", "crashed"} => report = Nil

LEMMA ReportEnds ==
    ASSUME NothingToReport, [Next]_vars
    PROVE  NothingToReport'
BY DEF NothingToReport, Next, Loop, Environment, Calculate, Update, vars, cluster, handoff, local,
   memory, GetScale, GetScaleFails, MetricAnswers, MetricFails, MetricPanics, MetricUnsupported,
   Asking, Calculated, Decide, DecidePanics, Exec, ExecPanics, UpdateAccepted,
   UpdateAcceptedPanics, UpdateAnswerLost, UpdateRefused, Write, StatusPatched, StatusRefused,
   EndRound, Panic, NextRound, Reload, Reconcile, Kill, Restart, EditHoumao, ScaleByHand,
   LoadChanges, TargetProgress, CacheSync, Tick

LEMMA ReportBegins == Init => NothingToReport
BY DEF Init, NothingToReport

-----------------------------------------------------------------------------
(* What a step does to the variables that the mapping reads.               *)
Hidden == UNCHANGED <<target, object, moves, report>>

(* A step that ends a round: the claim goes, the spec may be a new one.    *)
Ends == /\ report' = Nil
        /\ object'.spec \in Specs
        /\ UNCHANGED <<target, moves>>

LEMMA BoundsMapped ==
    ASSUME object'.spec \in Specs
    PROVE  BoundsOf(Config)' \in {BoundsOf(s) : s \in Specs}
BY DEF Config, BoundsOf

LEMMA HiddenStutters ==
    ASSUME Hidden
    PROVE  UNCHANGED Abstract!vars
BY DEF Hidden, Abstract!vars, Config, BoundsOf, LastMove, Claim

LEMMA EndsPublishes ==
    ASSUME Ends
    PROVE  Abstract!Publish
<1>1. Claim' = Nil
  BY DEF Ends, Claim
<1>2. LastMove' = LastMove
  BY DEF Ends, LastMove
<1>3. UNCHANGED <<target.spec, target.status>>
  BY DEF Ends
<1> QED
  BY <1>1, <1>2, <1>3, BoundsMapped DEF Ends, Abstract!Publish

(* The write of a round is a step of the scaler: RoundInv says that the    *)
(* copy it decided on is still what the server has.                        *)
LEMMA WriteAdjusts ==
    ASSUME TypeOK, RoundInv, NEW known, Write(known), UNCHANGED object,
           report' = Nil \/ report' = Result(0) \/ report' = Result(calc.desired)
    PROVE  Abstract!Adjust
<1>1. /\ pc = "update" /\ scale.fresh /\ target \in Scale /\ scale \in Copy /\ calc \in Locals
      /\ moves \in Seq(Move)
  BY DEF Write, TypeOK
<1>2. scale.spec = target.spec /\ scale.status = target.status
  BY <1>1 DEF RoundInv
<1>3. target'.spec = calc.desired /\ target'.status = target.status
  BY <1>1 DEF Write, Scale
<1>4. calc.desired \in Nat /\ calc.desired # target.spec /\ InRange(calc.desired)
      /\ (calc.desired >= target.status \/ calc.desired = Config.max)
  BY <1>1, <1>2 DEF RoundInv, Locals
<1>5. LastMove' = [from |-> target.spec, to |-> calc.desired]
  <2> DEFINE new == [from |-> scale.spec, to |-> calc.desired, at |-> now, known |-> known]
  <2>1. moves' = Append(moves, new)
    BY DEF Write
  <2>2. Len(moves') = Len(moves) + 1 /\ moves'[Len(moves')] = new /\ moves' # <<>>
    BY <1>1, <2>1
  <2> QED
    BY <1>2, <2>2 DEF LastMove
<1>6. Claim' \in {Nil, [from |-> target.spec, to |-> calc.desired]}
  <2>1. CASE report' = Nil
    BY <2>1 DEF Claim
  <2>2. CASE report' = Result(0)
    BY <2>2 DEF Claim, Result
  <2>3. CASE report' = Result(calc.desired)
    <3>1. report'.DesiredReplicas = calc.desired /\ report'.CurrentReplicas = target.spec
      BY <1>2, <2>3 DEF Result
    <3> QED
      BY <3>1 DEF Claim
  <2> QED
    BY <2>1, <2>2, <2>3
<1>7. BoundsOf(Config)' = BoundsOf(Config)
  BY DEF Config, BoundsOf
<1>8. BoundsOf(Config).min = Config.min /\ BoundsOf(Config).max = Config.max
  BY DEF BoundsOf
<1>9. Abstract!InRange(target'.spec)
  BY <1>3, <1>4, <1>8 DEF Abstract!InRange, InRange
<1> QED
  BY <1>3, <1>4, <1>5, <1>6, <1>7, <1>8, <1>9 DEF Abstract!Adjust

-----------------------------------------------------------------------------
(* Every step of the loop and around it is a step of the scaler, or none.  *)
LEMMA StepRefines ==
    ASSUME TypeOK, RoundInv, NothingToReport, [Next]_vars
    PROVE  Abstract!Next \/ UNCHANGED Abstract!vars
<1> USE DEF cluster, handoff, local, memory
<1>0. /\ target \in Scale /\ object.spec \in Specs /\ houmao \in Specs
      /\ sending => ObjectSpec \in Specs
  BY DEF TypeOK
<1>1. CASE GetScaleFails \/ MetricUnsupported \/ StatusPatched \/ StatusRefused
  <2>1. Ends
    <3>1. object' = object \/ object' = [object EXCEPT !.spec = houmao]
      BY <1>1 DEF GetScaleFails, MetricUnsupported, StatusPatched, StatusRefused
    <3>2. object \in [spec : Specs, named : BOOLEAN]
      BY DEF TypeOK
    <3>3. object'.spec \in Specs
      BY <1>0, <3>1, <3>2
    <3> QED
      BY <1>1, <3>3 DEF Ends, GetScaleFails, MetricUnsupported, StatusPatched, StatusRefused,
         EndRound
  <2> QED
    BY <2>1, EndsPublishes DEF Abstract!Next
<1>2. CASE Decide
  <2>1. Ends \/ Hidden
    BY <1>0, <1>2 DEF Ends, Hidden, Decide, EndRound
  <2> QED
    BY <2>1, EndsPublishes, HiddenStutters DEF Abstract!Next
<1>3. CASE Reload
  <2>1. object'.spec \in Specs /\ report' = Nil /\ UNCHANGED <<target, moves>>
    BY <1>0, <1>3 DEF Reload, NothingToReport
  <2> QED
    BY <2>1, EndsPublishes DEF Ends, Abstract!Next
<1>4. CASE UpdateAccepted \/ UpdateAcceptedPanics \/ UpdateAnswerLost
  <2>1. PICK known : Write(known)
    BY <1>4 DEF UpdateAccepted, UpdateAcceptedPanics, UpdateAnswerLost
  <2>2. UNCHANGED object
    BY <1>4 DEF UpdateAccepted, UpdateAcceptedPanics, UpdateAnswerLost
  <2>3. report' = Nil \/ report' = Result(0) \/ report' = Result(calc.desired)
    <3>1. pc = "update"
      BY <2>1 DEF Write
    <3> QED
      BY <1>4, <3>1 DEF UpdateAccepted, UpdateAcceptedPanics, UpdateAnswerLost, NothingToReport
  <2> QED
    BY <2>1, <2>2, <2>3, WriteAdjusts DEF Abstract!Next
<1>5. CASE UpdateRefused
  <2>1. Claim' = Nil
    BY <1>5 DEF UpdateRefused, Claim, Result
  <2>2. UNCHANGED <<target, object, moves>>
    BY <1>5 DEF UpdateRefused
  <2>3. LastMove' = LastMove /\ UNCHANGED <<target.spec, target.status>>
    BY <2>2 DEF LastMove
  <2>4. Abstract!Publish
    BY <1>0, <2>1, <2>2, <2>3, BoundsMapped DEF Abstract!Publish
  <2> QED
    BY <2>4 DEF Abstract!Next
<1>6. CASE Restart
  <2>1. LastMove' = Nil /\ Claim' = Nil /\ object'.spec \in Specs
    BY <1>0, <1>6 DEF Restart, LastMove, Claim
  <2>2. UNCHANGED <<target.spec, target.status>>
    BY <1>6 DEF Restart
  <2>3. Abstract!Restart
    BY <2>1, <2>2, BoundsMapped DEF Abstract!Restart
  <2> QED
    BY <2>3 DEF Abstract!Next
<1>7. CASE ScaleByHand
  <2>1. target'.spec \in Nat /\ target'.status = target.status
    BY <1>0, <1>7, CountsAssumption DEF ScaleByHand, Scale
  <2>2. UNCHANGED <<BoundsOf(Config), LastMove, Claim>>
    BY <1>7 DEF ScaleByHand, Config, BoundsOf, LastMove, Claim
  <2>3. Abstract!SetCount
    BY <2>1, <2>2 DEF Abstract!SetCount
  <2> QED
    BY <2>3 DEF Abstract!Next
<1>8. CASE TargetProgress
  <2>1. /\ target.status # target.spec /\ target'.spec = target.spec
        /\ target'.status = IF target.status < target.spec THEN target.status + 1
                            ELSE target.status - 1
    BY <1>0, <1>8 DEF TargetProgress, Scale
  <2>2. UNCHANGED <<BoundsOf(Config), LastMove, Claim>>
    BY <1>8 DEF TargetProgress, Config, BoundsOf, LastMove, Claim
  <2>3. Abstract!Progress
    BY <2>1, <2>2 DEF Abstract!Progress
  <2> QED
    BY <2>3 DEF Abstract!Next
<1>9. CASE \/ GetScale \/ MetricAnswers \/ MetricFails \/ MetricPanics \/ DecidePanics
           \/ Exec \/ ExecPanics \/ NextRound \/ Reconcile \/ Kill \/ EditHoumao
           \/ LoadChanges \/ CacheSync \/ Tick \/ UNCHANGED vars
  <2>1. Hidden
    BY <1>9 DEF Hidden, GetScale, MetricAnswers, MetricFails, MetricPanics, DecidePanics, Exec,
       ExecPanics, NextRound, Reconcile, Kill, EditHoumao, LoadChanges, CacheSync, Tick, vars
  <2> QED
    BY <2>1, HiddenStutters
<1> QED
  BY <1>1, <1>2, <1>3, <1>4, <1>5, <1>6, <1>7, <1>8, <1>9
     DEF Next, Loop, Environment, Calculate, Update

LEMMA InitRefines == Init => Abstract!Init
<1> SUFFICES ASSUME Init PROVE Abstract!Init
  OBVIOUS
<1>1. PICK n \in Counts : target = [spec |-> n, status |-> n]
  BY DEF Init
<1>2. target.spec \in Nat /\ target.status = target.spec
  BY <1>1, CountsAssumption
<1>3. LastMove = Nil /\ Claim = Nil
  BY DEF Init, LastMove, Claim
<1>4. BoundsOf(Config) \in {BoundsOf(s) : s \in Specs}
  BY DEF Init, Config
<1> QED
  BY <1>2, <1>3, <1>4 DEF Abstract!Init

(* The loop implements the scaler that reads, decides and writes at once.  *)
THEOREM RoundsAreAtomic == Spec => ImplementsScaler
<1>1. TypeOK /\ RoundInv /\ NothingToReport /\ [Next]_vars => [Abstract!Next]_(Abstract!vars)
  BY StepRefines
<1>2. Spec => []NothingToReport
  <2>1. NothingToReport /\ [Next]_vars => NothingToReport'
    BY ReportEnds
  <2> QED
    BY <2>1, ReportBegins, PTL DEF Spec
<1> QED
  BY <1>1, <1>2, InitRefines, TypeCorrect, RoundCorrect, PTL
     DEF Spec, ImplementsScaler, Abstract!Spec
=============================================================================
