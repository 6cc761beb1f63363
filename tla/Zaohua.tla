------------------------------- MODULE Zaohua -------------------------------
(***************************************************************************)
(* One zaohua process: the endless loop of StartZaohua, whose rounds read  *)
(* the scale of the target workload through the client's cache, ask every  *)
(* metric for a replica count, clamp, revise, write the scale back and     *)
(* patch the result into the Houmao.  Around it: the API server, the       *)
(* deployment controller and pods behind the target (its status follows    *)
(* its spec), the users, the metrics server and the clock.                 *)
(*                                                                         *)
(* An API call may always fail.  A write carries the resourceVersion that  *)
(* was read, so the server takes it only while that read is still current: *)
(* the field fresh of a copy says so.  A new configuration reaches the loop*)
(* in two steps: the reconciler, which runs only in the elected leader     *)
(* (Leads), takes the spec and blocks until the loop polls its channel.    *)
(***************************************************************************)
EXTENDS Behavor

CONSTANTS
    Specs,      \* the HoumaoSpecs users write
    Counts,     \* replica counts that users set and metrics of pods ask for
    Loads,      \* values of the metric that the Object metrics read
    AverageValue,    \* their target per replica
    Leads,      \* does this process run ZaohuaController, i.e. hold the lease
    ScaleTolerance,  \* in percent; the flag's default is 10
    MaxTime,    \* bound: the clock stops here
    MaxMoves,   \* bound: writes of the scale in one process life
    MaxRecords, \* bound: with more RecommendationRecords no round starts
    MaxEdits    \* bound: steps of users, load and kills

(* A metric by its source, and by what it holds where that matters.        *)
MetricSourceTypes == {
    "ObjectAverage", "ObjectValue", "ObjectUtilization",    \* by the type of its target
    "ObjectRefused",        \* a target of another type, or an invalid selector
    "ObjectUntargeted",     \* without the quantity that the type calls for
    "ObjectZero",           \* an average of 0 per replica
    "Resource", "ContainerResource",
    "ResourceUtilization",  \* either of them with a target that is no AverageValue
    "Pods",
    "PodsFaulty",           \* without an AverageValue, or with an invalid selector
    "External",
    "ExternalOfObject",     \* with an Object beside or instead of its own source
    "Sourceless",           \* any other, without the source that its type names
    "Unsupported"}

HoumaoSpec == [min     : Nat \cup {Nil},     \* MinReplicas, a pointer
               max     : Nat,                \* MaxReplicas
               metrics : Seq(MetricSourceTypes),
               up      : Rules \cup {Nil},   \* Behavor.ScaleUp, a pointer
               down    : Rules \cup {Nil}]   \* Behavor.ScaleDown, a pointer

ASSUME SpecsAssumption  == \A s \in Specs : s \in HoumaoSpec
ASSUME PoliciesAssumption ==    \* a slice each
    \A s \in Specs : \A r \in {s.up, s.down} \ {Nil} : IsFiniteSet(r.policies)
ASSUME CountsAssumption == \A n \in Counts : n \in Nat
ASSUME LoadsAssumption == Loads \subseteq Nat /\ AverageValue \in Nat \ {0}
ASSUME ToleranceAssumption == ScaleTolerance \in Nat
ASSUME LeadsAssumption  == Leads \in BOOLEAN
ASSUME BoundsAssumption == /\ MaxTime \in Nat
                           /\ MaxMoves \in Nat
                           /\ MaxRecords \in Nat
                           /\ MaxEdits \in Nat

VARIABLES
    target,     \* the scale of the target workload in the API server
    cache,      \* the copy of it in the client's cache
    load,       \* the value of the object metric
    houmao,     \* the spec of the Houmao in the API server
    now,        \* the clock
    edits,      \* steps of users, load and kills so far
    pc,         \* where the loop is
    object,     \* z.Object: its spec, and whether it has its name and namespace
    ObjectSpec, \* the spec the reconciler handed over last, Nil before
    sending,    \* does it wait for the loop to receive
    scale,      \* the round's copy of the scale
    calc,       \* the round's locals: next metric, desiredReplicas, its metric
    report,     \* the ZaohuaRecord handed to updateStatus, Nil before
    RecommendationRecords,
    ScaleUpEvents,
    ScaleDownEvents,
    moves       \* history: the writes the API server took in this process life

cluster == <<target, cache, load, houmao, now, edits>>
handoff == <<ObjectSpec, sending>>
local   == <<object, handoff, scale, calc, report>>
memory  == <<RecommendationRecords, ScaleUpEvents, ScaleDownEvents, moves>>
vars    == <<target, cache, load, houmao, now, edits, pc, object, ObjectSpec, sending, scale, calc,
             report, RecommendationRecords, ScaleUpEvents, ScaleDownEvents, moves>>

Steps  == {"idle", "calculate", "exec", "update", "report", "select", "crashed"}
Scale  == [spec : Nat, status : Nat]
Copy   == [spec : Nat, status : Nat, fresh : BOOLEAN]
Locals == [index : Nat, desired : Nat, by : Nat]      \* by = 0: no metric raised desired
Record == [OriginReplicas : Nat, CurrentReplicas : Nat, DesiredReplicas : Nat,
           IsScaled : BOOLEAN, ScaledReplicas : Int, MetricIndex : Nat]
Move   == [from : Nat, to : Nat, at : Nat, known : BOOLEAN]   \* known: the answer arrived

(* Locals that went out of scope.                                          *)
NoScale == [spec |-> 0, status |-> 0, fresh |-> FALSE]
NoCalc  == [index |-> 0, desired |-> 0, by |-> 0]

TypeOK ==
    /\ target \in Scale
    /\ cache \in Copy
    /\ load \in Loads
    /\ houmao \in Specs
    /\ now \in Nat
    /\ edits \in Nat
    /\ pc \in Steps
    /\ object \in [spec : Specs, named : BOOLEAN]
    /\ ObjectSpec \in Specs \cup {Nil}
    /\ sending \in BOOLEAN /\ (sending => ObjectSpec \in Specs)
    /\ scale \in Copy
    /\ calc \in Locals
    /\ report \in Record \cup {Nil}
    /\ RecommendationRecords \in Seq(Recommendation)
    /\ ScaleUpEvents \in Seq(ScaleEvent)
    /\ ScaleDownEvents \in Seq(ScaleEvent)
    /\ moves \in Seq(Move)

(* The process starts on a settled target whose scale its cache holds.     *)
Init ==
    /\ \E n \in Counts : /\ target = [spec |-> n, status |-> n]
                         /\ cache = [spec |-> n, status |-> n, fresh |-> TRUE]
    /\ load \in Loads
    /\ houmao \in Specs
    /\ object = [spec |-> houmao, named |-> TRUE]
    /\ now = 0
    /\ edits = 0
    /\ pc = "idle"
    /\ ObjectSpec = Nil
    /\ sending = FALSE
    /\ scale = NoScale
    /\ calc = NoCalc
    /\ report = Nil
    /\ RecommendationRecords = <<>>
    /\ ScaleUpEvents = <<>>
    /\ ScaleDownEvents = <<>>
    /\ moves = <<>>

(* The Mutant operators are faulty variants of the definition they come   *)
(* before; each breaks one of the properties at the end of the module.     *)
(* ConfigMutant: the loop shares the Houmao instead of a copy of it.       *)
ConfigMutant == houmao
Abs(n) == IF n < 0 THEN -n ELSE n

Config == object.spec
Both   == Config.up # Nil /\ Config.down # Nil

Panic    == pc' = "crashed"
EndRound == pc' = "select" /\ scale' = NoScale /\ calc' = NoCalc /\ report' = Nil

-----------------------------------------------------------------------------
(* Calculating from 0, as the native autoscaler does.                      *)
GetScaleMutant ==
    /\ pc = "idle"
    /\ object.named
    /\ Len(RecommendationRecords) <= MaxRecords
    /\ scale' = cache
    /\ calc' = [index |-> 1, desired |-> 0, by |-> 0]
    /\ pc' = "calculate"
    /\ UNCHANGED <<cluster, object, handoff, report, memory>>

(* detectAndScale: the scale is read, by the name and namespace of z.Object*)
GetScale ==
    /\ pc = "idle"
    /\ object.named
    /\ Len(RecommendationRecords) <= MaxRecords
    /\ scale' = cache
    /\ calc' = [index |-> 1, desired |-> cache.status, by |-> 0]
    /\ pc' = "calculate"
    /\ UNCHANGED <<cluster, object, handoff, report, memory>>

(* The read fails, or the selector it returned does not parse.             *)
GetScaleFails ==
    /\ pc = "idle"
    /\ EndRound
    /\ UNCHANGED <<cluster, object, handoff, memory>>

-----------------------------------------------------------------------------
(* calculate, one metric per step.  Metric is the one to ask next.         *)
Metric == Config.metrics[calc.index]
Asking == pc = "calculate" /\ calc.index \in DOMAIN Config.metrics

(* An object metric compares the load with what runs, and keeps what runs  *)
(* while they differ by less than the tolerance; exactly on it the rounding*)
(* of a float64 decides.  The result of a Value target is thrown away, a   *)
(* Utilization target asks for what runs.                                  *)
Needed(value, average)      == (value + average - 1) \div average
Distance(value, average, n) == Abs(average * n - value) * 100
Allowed(average, n)         == ScaleTolerance * (average * n)
CountsPerPod(value, average, running) ==
    (IF Distance(value, average, running) <= Allowed(average, running) THEN {running} ELSE {})
    \cup
    (IF Distance(value, average, running) >= Allowed(average, running)
     THEN {Needed(value, average)} ELSE {})
ForPerPod   == CountsPerPod(load, AverageValue, scale.status)
ObjectValue == 0

(* Resource and Pods multiply a usage with the number of pods they take for*)
(* ready: only Failed pods are counted, whose number is unrelated to the   *)
(* load; so are an external value and a division by a target of 0.         *)
Unrelated == Counts \cup {0, scale.status}

(* Every error of a Pods metric is swallowed and answers 0.                *)
Answers ==
    CASE Metric = "ObjectAverage"                -> ForPerPod
      [] Metric \in {"ObjectValue", "PodsFaulty"} -> {ObjectValue}
      [] Metric = "ObjectUtilization"            -> {scale.status}
      [] Metric \in {"Resource", "Pods", "ExternalOfObject", "ObjectZero"} -> Unrelated
      [] OTHER                                   -> {}

(* ContainerResource asks for the requests of the resource "" and always   *)
(* fails; the others fail with the API or the metrics server.              *)
Failing == {"ContainerResource", "ObjectAverage", "ObjectValue", "ObjectRefused",
            "ObjectUntargeted", "ObjectZero", "Resource", "ResourceUtilization",
            "ExternalOfObject"}

(* Nil pointers: External reads metric.Object, and with one metric.External*)
(* too; ResourceUtilization and ObjectUntargeted read the quantity of their*)
(* target when they come so far; PodsFaulty reads its own, or hands the    *)
(* selector that did not parse to the metrics client.                      *)
Panicking == {"External", "ExternalOfObject", "ObjectUntargeted", "PodsFaulty",
              "ResourceUtilization", "Sourceless"}

(* Taking the smallest answer.                                             *)
MetricAnswersMutant ==
    /\ Asking
    /\ \E n \in Answers : calc' = [index |-> calc.index + 1,
                                  desired |-> min(n, calc.desired), by |-> calc.index]
    /\ UNCHANGED <<cluster, pc, object, handoff, scale, report, memory>>

MetricAnswers ==
    /\ Asking
    /\ \E n \in Answers :
        /\ ~(Metric = "Pods" /\ n > calc.desired)
        /\ calc' = IF n > calc.desired
                   THEN [index |-> calc.index + 1, desired |-> n, by |-> calc.index]
                   ELSE [calc EXCEPT !.index = @ + 1]
    /\ UNCHANGED <<cluster, pc, object, handoff, scale, report, memory>>

(* A metric that cannot be computed is skipped.                            *)
MetricFails ==
    /\ Asking
    /\ Metric \in Failing
    /\ calc' = [calc EXCEPT !.index = @ + 1]
    /\ UNCHANGED <<cluster, pc, object, handoff, scale, report, memory>>

(* A Pods metric that raises the count reads metric.ContainerResource.     *)
MetricPanics ==
    /\ Asking
    /\ \/ Metric \in Panicking
       \/ Metric = "Pods" /\ \E n \in Answers : n > calc.desired
    /\ Panic
    /\ UNCHANGED <<cluster, local, memory>>

MetricUnsupported ==
    /\ Asking
    /\ Metric = "Unsupported"
    /\ EndRound
    /\ UNCHANGED <<cluster, object, handoff, memory>>

(* The clamp, and the comparison with the count in the scale's spec.       *)
Calculated == pc = "calculate" /\ calc.index \notin DOMAIN Config.metrics
(* A clamp without MinReplicas, and one that takes the greater of the two. *)
UnraisedMutant == IF calc.desired > Config.max THEN Config.max ELSE calc.desired
FlippedMutant == IF calc.desired < Config.max THEN Config.max ELSE calc.desired
Clamped ==
    IF calc.desired > Config.max THEN Config.max
    ELSE IF calc.desired < Config.min THEN Config.min ELSE calc.desired

Decide ==
    /\ Calculated
    /\ calc.desired > Config.max \/ Config.min # Nil
    /\ IF Clamped = scale.spec
       THEN EndRound
       ELSE pc' = "exec" /\ calc' = [calc EXCEPT !.desired = Clamped] /\ UNCHANGED <<scale, report>>
    /\ UNCHANGED <<cluster, object, handoff, memory>>

DecidePanics ==
    /\ Calculated
    /\ calc.desired <= Config.max /\ Config.min = Nil
    /\ Panic
    /\ UNCHANGED <<cluster, local, memory>>

-----------------------------------------------------------------------------
(* execScale up to the write.  With both rules the processor runs, but its *)
(* result is assigned to a shadowed variable and then overwritten: what    *)
(* remains is the recommendation it recorded, or its panic.                *)
Exec ==
    /\ pc = "exec"
    /\ IF Both
       THEN /\ ~RevisePanics(calc.desired, scale.spec, Config.up, Config.down,
                             RecommendationRecords, now)
            /\ RecommendationRecords' =
                   RevisedRecords(calc.desired, scale.spec, Config.up, Config.down,
                                  RecommendationRecords, now)
       ELSE UNCHANGED RecommendationRecords
    /\ pc' = "update"
    /\ UNCHANGED <<cluster, local, ScaleUpEvents, ScaleDownEvents, moves>>

ExecPanics ==
    /\ pc = "exec"
    /\ Both
    /\ RevisePanics(calc.desired, scale.spec, Config.up, Config.down, RecommendationRecords, now)
    /\ Panic
    /\ UNCHANGED <<cluster, local, memory>>

(* The change for the count.                                               *)
ResultMutant(desired) ==
    [OriginReplicas |-> scale.spec, CurrentReplicas |-> scale.spec,
     DesiredReplicas |-> desired - scale.spec, IsScaled |-> TRUE,
     ScaledReplicas |-> desired, MetricIndex |-> calc.by]

(* The ZaohuaResult and its MetricStatus: OriginReplicas is overwritten by *)
(* every round's read, IsScaled does not depend on the write.              *)
Result(desired) ==
    [OriginReplicas |-> scale.spec, CurrentReplicas |-> scale.spec,
     DesiredReplicas |-> desired, IsScaled |-> TRUE,
     ScaledReplicas |-> desired - scale.spec, MetricIndex |-> calc.by]

(* A write without the resourceVersion.                                    *)
WriteMutant(known) ==
    /\ pc = "update"
    /\ Len(moves) < MaxMoves
    /\ target' = [target EXCEPT !.spec = calc.desired]
    /\ cache' = [cache EXCEPT !.fresh = FALSE]
    /\ moves' = Append(moves, [from |-> scale.spec, to |-> calc.desired,
                               at |-> now, known |-> known])

(* The server takes the write: it is the next version of the target.       *)
Write(known) ==
    /\ pc = "update"
    /\ scale.fresh
    /\ Len(moves) < MaxMoves
    /\ target' = [target EXCEPT !.spec = calc.desired]
    /\ cache' = [cache EXCEPT !.fresh = FALSE]
    /\ moves' = Append(moves, [from |-> scale.spec, to |-> calc.desired,
                               at |-> now, known |-> known])

(* storageScaleEvent reads the rules of the direction it went.             *)
StoreUp ==
    /\ calc.desired > scale.spec
    /\ Config.up # Nil
    /\ ScaleUpEvents' = EventStored(ScaleUpEvents, Config.up, calc.desired - scale.spec, now)
    /\ UNCHANGED ScaleDownEvents

StoreDown ==
    /\ calc.desired <= scale.spec
    /\ Config.down # Nil
    /\ ScaleDownEvents' = EventStored(ScaleDownEvents, Config.down, scale.spec - calc.desired, now)
    /\ UNCHANGED ScaleUpEvents

UpdateAccepted ==
    /\ Write(TRUE)
    /\ StoreUp \/ StoreDown
    /\ report' = Result(calc.desired)
    /\ pc' = "report"
    /\ UNCHANGED <<load, houmao, now, edits, object, handoff, scale, calc, RecommendationRecords>>

(* The write is taken and the process dies storing its event.              *)
UpdateAcceptedPanics ==
    /\ Write(TRUE)
    /\ IF calc.desired > scale.spec THEN Config.up = Nil ELSE Config.down = Nil
    /\ Panic
    /\ UNCHANGED <<load, houmao, now, edits, local, RecommendationRecords,
                   ScaleUpEvents, ScaleDownEvents>>

(* The write is taken and its answer lost: the client sees an error.       *)
UpdateAnswerLost ==
    /\ Write(FALSE)
    /\ report' = Result(0)
    /\ pc' = "report"
    /\ UNCHANGED <<load, houmao, now, edits, object, handoff, scale, calc, RecommendationRecords,
                   ScaleUpEvents, ScaleDownEvents>>

(* A refused write that answers the count it wanted.                       *)
UpdateRefusedMutant ==
    /\ pc = "update"
    /\ report' = Result(calc.desired)
    /\ pc' = "report"
    /\ UNCHANGED <<cluster, object, handoff, scale, calc, memory>>

(* The write is refused; the round goes on with the count 0.               *)
UpdateRefused ==
    /\ pc = "update"
    /\ report' = Result(0)
    /\ pc' = "report"
    /\ UNCHANGED <<cluster, object, handoff, scale, calc, memory>>

-----------------------------------------------------------------------------
(* updateStatus: a patch that succeeds decodes the server's Houmao into    *)
(* z.Object; a z.Object without its name cannot be patched.                *)
StatusPatched ==
    /\ pc = "report"
    /\ object.named
    /\ object' = [object EXCEPT !.spec = houmao]
    /\ EndRound
    /\ UNCHANGED <<cluster, handoff, memory>>

StatusRefused ==
    /\ pc = "report"
    /\ EndRound
    /\ UNCHANGED <<cluster, object, handoff, memory>>

(* The reconciler compares the spec with the one it handed over last,      *)
(* stores a new one and blocks sending on the channel; while it waits its  *)
(* only worker sees no other spec.                                         *)
Reconcile ==
    /\ Leads
    /\ pc # "crashed"
    /\ ~sending
    /\ ObjectSpec # houmao
    /\ ObjectSpec' = houmao
    /\ sending' = TRUE
    /\ UNCHANGED <<cluster, pc, object, scale, calc, report, memory>>

(* The select of StartZaohua: its default is taken only if nobody sends.   *)
(* The copy it makes of HoumaoObject lacks the name of the Houmao.         *)
NextRound ==
    /\ pc = "select"
    /\ ~sending
    /\ pc' = "idle"
    /\ UNCHANGED <<cluster, local, memory>>

Reload ==
    /\ pc = "select"
    /\ sending
    /\ object' = [spec |-> ObjectSpec, named |-> FALSE]
    /\ sending' = FALSE
    /\ pc' = "idle"
    /\ UNCHANGED <<cluster, ObjectSpec, scale, calc, report, memory>>

-----------------------------------------------------------------------------
(* The xianqi pod is started again; its memory is new, its cache is synced.*)
Restart ==
    /\ pc = "crashed"
    /\ pc' = "idle"
    /\ object' = [spec |-> houmao, named |-> TRUE]
    /\ ObjectSpec' = Nil
    /\ sending' = FALSE
    /\ cache' = [spec |-> target.spec, status |-> target.status, fresh |-> TRUE]
    /\ scale' = NoScale
    /\ calc' = NoCalc
    /\ report' = Nil
    /\ RecommendationRecords' = <<>>
    /\ ScaleUpEvents' = <<>>
    /\ ScaleDownEvents' = <<>>
    /\ moves' = <<>>
    /\ UNCHANGED <<target, load, houmao, now, edits>>

-----------------------------------------------------------------------------
(* Everyone else.                                                          *)
Edit == edits < MaxEdits /\ edits' = edits + 1

Kill ==
    /\ Edit
    /\ pc # "crashed"
    /\ Panic
    /\ UNCHANGED <<target, cache, load, houmao, now, local, memory>>

EditHoumao ==
    /\ Edit
    /\ \E s \in Specs \ {houmao} : houmao' = s
    /\ UNCHANGED <<target, cache, load, now, pc, local, memory>>

(* Someone else writes the target: copies of it are no longer current.     *)
Overtaken ==
    /\ cache' = [cache EXCEPT !.fresh = FALSE]
    /\ scale' = [scale EXCEPT !.fresh = FALSE]

ScaleByHand ==
    /\ Edit
    /\ \E n \in Counts \ {target.spec} : target' = [target EXCEPT !.spec = n]
    /\ Overtaken
    /\ UNCHANGED <<load, houmao, now, pc, object, handoff, calc, report, memory>>

LoadChanges ==
    /\ Edit
    /\ \E value \in Loads \ {load} : load' = value
    /\ UNCHANGED <<target, cache, houmao, now, pc, local, memory>>

(* A pod of the target comes or goes.                                      *)
TargetProgress ==
    /\ target.status # target.spec
    /\ target' = [target EXCEPT !.status = IF @ < target.spec THEN @ + 1 ELSE @ - 1]
    /\ Overtaken
    /\ UNCHANGED <<load, houmao, now, edits, pc, object, handoff, calc, report, memory>>

CacheSync ==
    /\ ~cache.fresh
    /\ cache' = [spec |-> target.spec, status |-> target.status, fresh |-> TRUE]
    /\ UNCHANGED <<target, load, houmao, now, edits, pc, local, memory>>

Tick ==
    /\ now < MaxTime
    /\ now' = now + 1
    /\ UNCHANGED <<target, cache, load, houmao, edits, pc, local, memory>>

-----------------------------------------------------------------------------
Calculate == \/ MetricAnswers \/ MetricFails \/ MetricPanics \/ MetricUnsupported
             \/ Decide \/ DecidePanics

Update == \/ UpdateAccepted \/ UpdateAcceptedPanics \/ UpdateAnswerLost \/ UpdateRefused

Loop == \/ GetScale \/ GetScaleFails
        \/ Calculate
        \/ Exec \/ ExecPanics
        \/ Update
        \/ StatusPatched \/ StatusRefused
        \/ NextRound \/ Reload

Environment == \/ Reconcile \/ Kill \/ Restart \/ EditHoumao \/ ScaleByHand \/ LoadChanges
               \/ TargetProgress \/ CacheSync \/ Tick

Next == Loop \/ Environment

Spec == Init /\ [][Next]_vars

(* The goroutine never rests, the kubelet restarts it, the cache and the   *)
(* pods follow; an API call that is made again and again succeeds at last. *)
Fairness ==
    /\ WF_vars(Loop)
    /\ WF_vars(Restart)
    /\ WF_vars(CacheSync)
    /\ WF_vars(TargetProgress)
    /\ SF_vars(GetScale)
    /\ SF_vars(MetricAnswers)
    /\ SF_vars(UpdateAccepted)

FairSpec == Spec /\ Fairness

-----------------------------------------------------------------------------
(* Properties.  Accepts: the step is the server taking a write, NewMove.   *)
Accepts == Len(moves') > Len(moves)
NewMove == moves'[Len(moves')]

(* The facts a round rests on from its read to its write, while users and  *)
(* pods change the target under it: a copy the server would still take     *)
(* shows the target as it is; desiredReplicas never falls below what ran,  *)
(* and leaves it unnamed only for a metric; once decided it differs from   *)
(* the count read and respects the bounds of the spec.                     *)
InRange(n) ==
    Config.min = Nil \/ Config.min <= Config.max =>
        n <= Config.max /\ (Config.min = Nil \/ n >= Config.min)
RoundInv ==
    /\ cache.fresh => cache.spec = target.spec /\ cache.status = target.status
    /\ scale.fresh /\ pc \in {"calculate", "exec", "update"} =>
         scale.spec = target.spec /\ scale.status = target.status
    /\ pc = "calculate" =>
         /\ calc.desired >= scale.status
         /\ calc.by = 0 => calc.desired = scale.status
    /\ pc \in {"exec", "update"} =>
         /\ calc.desired # scale.spec
         /\ InRange(calc.desired)
         /\ calc.desired >= scale.status \/ calc.desired = Config.max
         /\ calc.by > 0 \/ calc.desired <= scale.status \/ calc.desired = Config.min

(* Whatever the metrics and a lagging status say, and whoever edits the    *)
(* Houmao or the target meanwhile, a write the server takes lies between   *)
(* MinReplicas and MaxReplicas of the spec the loop holds (the clamp of    *)
(* calculate survives execScale's overwriting of the count).               *)
WritesInRange == [][Accepts => InRange(NewMove.to)]_vars

(* A write never undoes a change it has not seen: what the server replaces *)
(* is the count the round read, and the round changes it.                  *)
NoLostUpdate ==
    [][Accepts => NewMove.from = target.spec /\ NewMove.to # target.spec]_vars

(* Metrics only raise the count (calculate starts from Status.Replicas): a *)
(* write lowers the target only because its status lagged behind its spec  *)
(* or because MaxReplicas forbids the count, never for want of load.       *)
ShrinksOnlyForLagOrMax ==
    [][Accepts /\ NewMove.to < NewMove.from =>
            NewMove.to >= target.status \/ NewMove.to = Config.max]_vars

(* A write raises the target only when a metric asked for more than runs,  *)
(* when MinReplicas asks for it, or when more pods run than the spec wants *)
(* (a scale-down in progress is undone).                                   *)
GrowsOnlyForCause ==
    [][Accepts /\ NewMove.to > NewMove.from =>
            calc.by > 0 \/ NewMove.to = Config.min \/ target.status > NewMove.from]_vars

(* Only an unsound spec kills the process.  A spec is sound when it has a  *)
(* minimum, both rules, both windows, a scale-up policy selection that the *)
(* code implements, no Pods metric, and no metric that lacks its source or *)
(* the quantity that is read of it; nothing the API, the metrics, the clock*)
(* or the users do then makes a round panic.                               *)
Sound(s) ==
    /\ s.min # Nil
    /\ s.up # Nil /\ s.up.window # Nil /\ s.up.select \notin {"Max", Nil}
    /\ s.down # Nil /\ s.down.window # Nil
    /\ \A i \in DOMAIN s.metrics : s.metrics[i] \notin Panicking \cup {"Pods"}
PanicsOnlyUnsound ==
    [][pc' = "crashed" /\ edits' = edits => pc = "crashed" \/ ~Sound(Config)]_vars

(* A ZaohuaRecord with a count in it tells of the last write the server    *)
(* took, from the count and by the change it says.  Only the count tells:  *)
(* a failed or unanswered write is recorded as the count 0, with IsScaled  *)
(* true all the same.                                                      *)
ReportTruthful ==
    pc = "report" /\ report.DesiredReplicas > 0 =>
        /\ moves # <<>>
        /\ Last(moves).known
        /\ Last(moves).to = report.DesiredReplicas
        /\ Last(moves).from = report.CurrentReplicas
        /\ Last(moves).to - Last(moves).from = report.ScaledReplicas

(* A record says that its round scaled, the field IsScaled of MetricStatus,*)
(* only when the server took a write of that round.                        *)
ScaledMeansWritten ==
    pc = "report" /\ report.IsScaled =>
        moves # <<>> /\ Last(moves).from = report.CurrentReplicas

(* The events keep everything a rate limit may ask for: over any period    *)
(* that fits in every spec's longest policy period, the changes remembered *)
(* in the events add up to the writes this process was told of, although   *)
(* slots are reused and users edit the policies meanwhile.                 *)
Periods(rules) == {LongestPolicyPeriod(r) : r \in rules \ {Nil}}
UpPeriods   == Periods({s.up : s \in Specs})
DownPeriods == Periods({s.down : s \in Specs})
Written(period, Went(_)) ==
    SumFunction([i \in DOMAIN moves |->
        IF moves[i].known /\ Went(moves[i]) /\ After(moves[i].at, now - period)
        THEN Abs(moves[i].to - moves[i].from) ELSE 0])
Up(m)   == m.to > m.from
Down(m) == m.to < m.from
EventsAddUp ==
    pc # "crashed" =>
        /\ UpPeriods # {} => \A p \in 1..Min(UpPeriods) :
               ReplicasChange(p, ScaleUpEvents, now) = Written(p, Up)
        /\ DownPeriods # {} => \A p \in 1..Min(DownPeriods) :
               ReplicasChange(p, ScaleDownEvents, now) = Written(p, Down)

(* No recommendation younger than the shortest stabilisation window of any *)
(* spec is dropped from the records while the process lives and users make *)
(* windows longer and shorter.  Nothing more is kept: of the two windows in*)
(* force the smaller one decides what is obsolete, although a round going  *)
(* the other way still reads the records of the larger one.                *)
WindowRules == (UNION {{s.up, s.down} : s \in Specs}) \ {Nil}
Windows == {r.window : r \in WindowRules} \ {Nil}
RecordsKept ==
    [][pc # "crashed" /\ Windows # {} =>
         \A rec \in ToSet(RecommendationRecords) :
            ~Before(rec.Timestamp, now - Min(Windows)) =>
                rec \in ToSet(RecommendationRecords')]_vars

(* A demand that lasts is met: while the load stays where it is, the spec  *)
(* of the target comes to hold the replicas it needs, or MaxReplicas if    *)
(* that is less (unless the bound on writes ends the run first).  Excused  *)
(* is a load within the tolerance of what runs on a settled target, which  *)
(* the code leaves alone on purpose.  The count need not stay: a round that*)
(* gets no answer while pods are starting takes it back (see               *)
(* ShrinksOnlyForLagOrMax), and the next one writes it again.              *)
Tolerated(value) ==
    /\ target.status = target.spec
    /\ Distance(value, AverageValue, target.status) <= Allowed(AverageValue, target.status)
Met(value) == \/ target.spec >= Needed(value, AverageValue) \/ target.spec >= Config.max
              \/ Tolerated(value)
              \/ Len(moves) = MaxMoves
DemandWritten == \A value \in Loads : load = value ~> load # value \/ Met(value)

(* A load that has gone lets the target shrink.                            *)
Returned(value) == \/ target.spec <= Needed(value, AverageValue) \/ target.spec <= Config.min
                   \/ Tolerated(value)
                   \/ Len(moves) = MaxMoves
SlackReturned == \A value \in Loads : load = value ~> load # value \/ Returned(value)
=============================================================================
