# Verification of Sunwukong

Sunwukong is a Kubernetes operator that scales workloads. A custom resource
`Houmao` names a target workload, metrics, bounds and behaviour rules. One
process, *shifa*, turns every Houmao into a Deployment, its *xianqi*; the pod of
that Deployment runs the second process, *zaohua*, an endless loop that reads
the target's scale, asks the metrics how many replicas they want, and writes
the scale back. This directory holds TLA+ models of that code, the TLC
configurations that check them, and TLAPS proofs.

## 1. Inventory

| component | source | state | operations |
|---|---|---|---|
| zaohua round | `pkg/zaohua/daofa/zaohua.go` | `z.Object`, `RecommendationRecords`, `ScaleUpEvents`, `ScaleDownEvents`, `OriginReplicas`, `HoumaoObject`, `RestartZaohuaCh` | `StartZaohua`, `detectAndScale`, `calculate`, `execScale`, `updateStatus`, `storageScaleEvent`, `RestartZaohua` |
| behaviour processor | `pkg/zaohua/daofa/behavor_processor.go` | none of its own; works on the records and events | `ReviseWithBehavor`: stabilisation, rate limits |
| replica calculator | `pkg/zaohua/daofa/replica_calculator.go` | tolerances and delays (constant) | one calculation per metric source |
| metrics client, utilization | `pkg/zaohua/daofa/metrics/` | none | queries of the metrics APIs, ratios |
| zaohua controller | `pkg/zaohua/controllers/zaohua_controller.go` | `ObjectSpec`, the last configuration seen | `Reconcile`: signals the loop |
| shifa controller | `controllers/houmao_controller.go` | none; the API server | `Reconcile`, `addFinalizers`, `delFinalizers` |
| xianqi manager | `pkg/xianqi_manager/xianqi_manager.go` | the Deployment in the API server | `CreateOrUpdateXianqi`, `DestroyXianqi`, `UpdateXianqi` (unused) |
| status updator | `pkg/status_updator/status_updator.go` | `Handle` (unused) | one patch per fragment of the status |
| API types | `api/v1/houmao_types.go` | the Houmao | |
| start-up | `cmd/`, `cmd/initial/initial.go`, `main.go` | flags, manager, clients | builds either process and starts it |
| customized metrics | `customize_metrics/`, `cmd/customizemetrics.go` | collectors | serves them |
| logging, constants | `util/` | | |

How they interact. The shifa controller calls the xianqi manager and the status
updator, synchronously. The zaohua loop calls the calculator, the behaviour
processor and the status updator, synchronously. The zaohua controller runs
beside the loop: it stores the new configuration in the shared `HoumaoObject`
and sends on an unbuffered channel that the loop polls between rounds. The two
processes share nothing but the API server: the Houmao, the Deployment and the
target's scale. Reads go through the client's cache, so they can be old; writes
with `Update` carry the version that was read and are refused when it is old.

What is hard about it, and what makes each part correct:

* *round*: several remote calls lie between the read of the scale and the
  write; users, pods and other controllers act in between, calls fail, answers
  get lost, and the process can be killed anywhere. Correct: a write respects
  the bounds, never undoes a change it has not seen, is justified by a metric, a
  bound or a lag, and is reported as what it was; a lasting demand is met.
* *memories of the behaviour processor*: slots of the two buffers are reused
  while users edit the periods and windows that decide which slots are
  obsolete. Correct: nothing is forgotten that lies within the longest period, or
  within the smaller of the two windows, of every spec.
* *panics*: every nil pointer in a user's Houmao that the code dereferences ends
  the process, which restarts into the same Houmao. Correct: there is a class
  of Houmaos for which no round ever panics.
* *reload*: worker, loop and shutdown over an unbuffered channel and a shared
  object. Correct: the loop ends up with the latest configuration of its own
  Houmao, and both goroutines terminate.
* *shifa*: reconciliation is interrupted anywhere and repeated; caches lag.
  Correct: a xianqi exists only for a Houmao with a finalizer, goes when the
  Houmao goes, and the Houmao can go.
* *calculations*: metrics and pods are read at two moments; pods are missing,
  unready or gone in either snapshot. Correct: no snapshot makes a calculation
  panic, and the count goes where the usage points.
* *status history*: five results shift through an array on a copy. Correct: the
  history is the last five results (it is never stored, see "What is not modelled").

## 2. Modules

| module | models |
|---|---|
| `Behavor` | pure operators: behaviour processor, records, events |
| `Zaohua` | the loop of one zaohua process, with the API server, the workload controller, users, metrics and the clock around it |
| `Scaler` | abstract: a scaler that reads, decides and writes in one step |
| `ZaohuaScaler` | the refinement mapping from `Zaohua` to `Scaler` |
| `Calculator` | one metric turned into a count, over any snapshots of metrics and pods |
| `CalculatorZaohua` | `Calculator` laid over the one step that `Zaohua` has for a metric |
| `Reload` | how a changed Houmao reaches the loop: the controller's worker, the channel, the shared object, the shutdown |
| `Shifa` | the shifa process: reconciliation of a Houmao, its finalizers and its xianqi |
| `MCZaohua`, `MCCalculator`, `MCReload`, `MCShifa` | the specs, metrics, pods, versions and finalizers that the runs choose from |
| `BehavorProofs`, `ZaohuaProofs`, `ScalerProofs`, `CalculatorProofs`, `ReloadProofs`, `ShifaProofs` | lemmas and theorems |
| `SumTheorems` | lemmas: what a sum over a finite set is, by induction over sets of values |

`Zaohua` builds on `Behavor`; `ZaohuaScaler` composes `Zaohua` with `Scaler`, and
`CalculatorZaohua` composes `Calculator` with `Zaohua`.
`Calculator` and `Reload` look inside two parts that `Zaohua` keeps small: the
counts a metric may answer, and the hand-over of a configuration. `Shifa` is the
other process; it shares with `Zaohua` only the API server.

### Behavor

A rules record stands for a `*HPAScalingRules`. The operators keep the names of
the functions or of their locals: `Stabilized` and `Recorded` are the two halves
of `stabilizationRecommendationWithBehavors` (the count it returns, the buffer
it leaves), `ScaleDownLimit`, `ReplicasChange`, `Converted`, `Revised` follow
the functions one by one, and `EventStored` is one branch of
`storageScaleEvent` (the two branches differ only in the buffer). A panic is a
predicate of its own: `LimitPanics`, `RevisePanics`. Peculiarities of the code
that are kept: both `max` and `min` return the smaller argument; the scale-down
limit is computed from the scale-up rules; the scale-up branch tests
`DesiredReplicas > DesiredReplicas`, so `calculateScaleUpLimit...` is dead code
and has no operator, and a wish that is not below the current count yields 0;
any selection other than Disabled and Min leaves a nil function.

Abstractions: a percentage is the exact rational rounded up, not a float64;
counts are unbounded naturals, not int32 (the bounds of a spec keep every
written count within int32, but a product with a large percentage could
overflow in the code); one reading of the clock stands for the readings of one
call.

### Zaohua

`pc` is the place in the round: `idle` (before `detectAndScale` reads), `calculate`,
`exec` (decided to scale), `update` (before the write), `report` (before the
status patch), `select` (before the `select` of `StartZaohua`), `crashed`.
Every action is the code between two points where something else can happen,
i.e. between two remote calls; metrics are asked one action each.
`target` is the scale in the API server (`spec` is what is wanted, `status` what
runs); `cache` is the client's copy and `scale` the round's copy, whose `fresh`
says that its resourceVersion is still current; `Overtaken` takes `fresh` from
both when somebody else changes the target. `object` is `z.Object`; `named` is
false once the reload has lost name and namespace. A changed spec reaches the
loop in two steps: `Reconcile` stores it in `ObjectSpec` and blocks on the channel
(`sending`); `Reload` is the loop's `select` receiving it, which may be many steps
and several edits later. `Leads` says whether this process holds the lease that
lets its controller run. `calc` holds the locals of
`calculate`, `by` being the metric that raised the count last. `moves` is a
history variable of the accepted writes of one process life; only properties,
and the bound `MaxMoves`, read it.

`Answers` stands for the calculator, by the kind of the metric (`MetricSourceTypes`). An
object metric with an AverageValue target answers how many replicas `load` needs
(`Needed`, rounded up), unless `load` is within the tolerance of what runs
(`CountsPerPod`; exactly on it the rounding of a float64 decides, so both are
allowed); a Value target answers 0, because the computed count is thrown away;
Utilization answers what runs. Resource and Pods multiply a usage with the number of
*Failed* pods, and an External metric or a target of 0 has nothing to do with `load`
either: they may answer any of `Counts` (`Unrelated`). ContainerResource always fails,
and so does an Object metric whose target type is none of the three or whose selector
is invalid (`ObjectRefused`). A Pods metric never fails: its errors turn into 0.
`Panicking` are the kinds with a nil pointer on their way: an External metric (the code
looks into its Object), a target without the quantity that is read of it
(`ObjectUntargeted`, `PodsFaulty`, `ResourceUtilization`), a Pods metric with an invalid
selector (`PodsFaulty`: the error is dropped and the nil selector handed on), and a
metric without the source its type names (`Sourceless`). All Object metrics of a spec
read the same value and have the same target, and a metric has at most an Object
besides its own source.

`Record` keeps the fields of `ZaohuaResult` and `MetricStatus` but for the time and the
metric's names, `IsScaled` and `ScaledReplicas` included: the code fills the first with
true whatever became of the write.

Where the model starts. The code has defects that keep the released binaries
from reaching the loop at all: `initial.go:133` reads through a manager that has
not been started and returns; `BindFlags` runs twice for zaohua and redefines
flags; the collectors register a metric with an empty name; a scale is read as a
top-level resource. These are sequential and every test run would show them. The
models describe the program from the point where these lines have succeeded,
with the assumption that the client can read and update the target's scale.
The status patch is allowed both to succeed and to be refused, although a
strategic merge patch of a custom resource is always refused by today's API
servers.

### Scaler and ZaohuaScaler

`Scaler` says what the loop promises to a workload whatever lies between its read
and its write: each of its steps takes `count` to another one within the bounds
it works with, lowers it only to no less than what runs or to the maximum,
remembers the step, and claims nothing but the step just made. The mapping takes
`count` and `running` from the target in the API server, `last` from the history
of writes of this process life, and `claim` from the record that the status patch
is about to publish, a record with the count 0 claiming nothing. The only step
mapped to `Adjust` is the one in which the server takes the write, whether its
answer arrives, gets lost, or kills the process; reads, calculations, refused
calls and a stale cache are stutters. This is what "the round is atomic" means,
and it is false as soon as a write does not carry the version it was decided on.

### Calculator

`pc` follows one calculation: `fetch` (before the metrics API is asked), `list`
(before the pods are listed), `compute`, and how it ended. `info` and `pods` are
the two snapshots, and nothing relates them. `Counted`, `Ignored`, `Missing` and
`Unready` are the four groups of `groupPods`, `Kept` the metrics that survive the
deletions, `Usage` the first ratio, `Rebalanced` and `Evened` the second one with
the comparisons around it, `Direct` the early return. `PerReplica` and
`ByUsageRatio` are the object and external calculations.

Numbers. A ratio is a numerator over a denominator; the denominator 0 stands for
NaN and +Inf, and `Garbage` for what `int32` makes of them, which the platform
decides (the runs take one value below, one among and one above all counts).
Where the rounding of a float64 decides, i.e. exactly on the tolerance, or when a
product with an inexact ratio is integral, both outcomes are allowed. The integer
divisions of the code are integer divisions. int32 truncation of percentages and
counts is left out.

Abstractions. Phase, start time, condition and the metric's timestamp decide
whether a pod is unready for the cpu: one flag, `cold`. The requests of a pod's
containers are one number. Lines of the code that no input reaches: the test for
Pending (a pod that is not Failed has been ignored before), and everything in
ContainerResource behind `GetResourceUtilizationRatio`, because the requests are
taken of a resource with an empty name and always add up to 0; that metric
fails, or panics for want of a target.

What a spec may lack is part of a metric: its source (`source`; the Object of an Object
or External metric is `by`, since the code looks for the type of the target there), its
quantity (`target`), a selector that parses (`selects`), a target type that the code
knows. `FetchPanics` is where the code walks into such a pointer before it computes.

`CalculatorZaohua` relates the two views of a metric. `Zaohua` asks a metric in one
step and knows only the set `Answers` of counts, and the sets `Failing` and `Panicking`
of kinds; `Calculator` takes the reads and the arithmetic apart. `Round` is `Zaohua` at
the moment it asks the metric of `Calculator`; `MetricType` is the kind of each metric,
and every metric has one. `Covered` says that a calculation ends only as the round
allows: it fails or panics only for the kinds of which the round has it; an Object's
average is among the counts that `CountsPerPod`, the operator of the round, computes
from the value that was read and the metric's target; where the round has one answer,
it is that one. It says nothing of the counts of a Resource, a Pods or an External
metric, or of an Object whose target is 0, for which the round allows any
(`Unrelated`).

### Shifa

`pc` is where the worker of the controller is, named after the remote call that
comes next: `finalizers` (the `Update` of `addFinalizers`), `xianqi` (the `Get` of
`CreateOrUpdateXianqi`), `create`, `update`, `destroy` (the `Get` of
`DestroyXianqi`), `delete`, `status` and `destroying` (the patches of the status). A
call that changes something has three outcomes: taken and answered, taken with
the answer lost, and failed. Every error ends the reconciliation and puts the key
back into the queue (`Fail`).

`houmao` and `xianqi` are the objects in the API server, `hcache` and `xcache` the
informers' copies, `object` and `xianqiObj` the worker's. `fresh` says that a copy's
resourceVersion is current; an `Update` with an old copy is refused. `Delete` and
`Create` go by name, so `uid` tells incarnations of the Houmao apart, and the
history variable `madeFor` says for which one the xianqi was last written. Users
edit, delete and create the Houmao, set its phase by hand, and change or delete
the Deployment; other controllers add and remove finalizers; `stripped` remembers
the latter. An event of the Houmao puts its key into the queue (`Deliver`); the
controller owns no Deployment, so `SyncXianqi` does not.

What the code does to the status. The patch of a phase is the bare string
`"xianqi"` or `"destroying"`, which no API server takes: `PatchRefused`. Hence a
reconciliation always fails at its last call and is repeated for ever, which
makes shifa heal what it would otherwise miss, unless somebody set the phase by
hand. The patch of `XianqiInfo` is not wrapped in a status and changes nothing.
`FinalizersLeft` is `delFinalizers` as written: it appends to an empty list, which
a Houmao that is still there and being deleted does not have.

`Admits` says whether the API server admits the Deployment that shifa builds.
Today's servers do not: the template has no labels, the name has an underscore
and a capital, the image is empty. With `Admits = FALSE` nothing is ever created;
the runs describe the program with a Deployment that is admitted.

Abstractions: one Houmao, since reconciliations of two share nothing, and one
worker, the default; `XianqiLiang` stands for the whole spec, of which shifa reads
nothing else; the periodic resync of the informers is left out, which only makes
the liveness properties harder to meet; a Get from the cache fails only when the
object is not there.

### Reload

Three parties inside one zaohua process. The *worker* (controller-runtime runs one
per controller) takes a key from the work queue, compares the informer's spec with
`ObjectSpec`, writes the fields of the shared `HoumaoObject` (`WritePart`) and then
blocks in the deferred send (`worker = "send"`). The *loop* ends a round
(`RoundEnds`, or `RoundPatches` when the status patch succeeds and decodes the
server's Houmao into `z.Object`), polls (`NextRound`, `Receive`, `Done`: the three
cases of the `select`; the default only when neither of the others is ready, a
free choice between those two) and copies the shared object (`CopyPart`). The
*shutdown* cancels the context of both; the informer delivers no more, but the
worker still drains its queue. `HoumaoObject` is written and copied without a
lock: a data race, so parts are written and read one at a time in any order.
`Houmaos` are all those of the cluster, since the controller filters none.

`Zaohua` keeps this protocol in two steps (`Reconcile`, `Reload`) for one Houmao and
leaves out the torn copy; a copy is followed by rounds without a name, which
fail before they use the configuration, until the process is restarted. The wait
for a signal at the start of `detectAndScale` needs a Houmao whose spec and status
are both empty, which the CRD's required fields exclude, and is left out.

### What is not modelled

* The history of five results and `OriginReplicas`. `UpdateZaohuaRecord` patches
  with the bare record, not wrapped in a status: a server that takes the patch
  prunes it, and decodes its own Houmao into `z.Object`. So the history is empty in
  every state the program reaches, and `StatusPatched` and `StatusRefused` hold all
  that a round can observe of it. Two lines would matter once the patch is
  repaired: `zaohua.go:388` takes the length of an array, which is always 5, and
  `zaohua.go:403` records the count of the latest round as the original one.
* The rate limits' effect on a write: there is none, since `zaohua.go:344` shadows the
  result. The limits themselves are in `Behavor`, for their panics and their records.
* `UpdateXianqi`, `UpdateStatus`, `NewStatusUpdateHandle`'s lock: no caller uses them.
* The passive mode and `syncService` (empty functions in the code); start-up,
  logging, the exporter, generated and vendored code.

## 3. Runs

| run | configuration | question |
|---|---|---|
| zaohua_core | 4 specs, one of them sound, counts {0,1,3}, loads {0,21}, 2 writes, 2 outside steps | what a write may do, what is reported of it, whether a round looks atomic, what kills the process |
| zaohua_memory | 2 specs with different windows (1 and 2, 2 and 3) and periods, 3 ticks, 3 writes, 2 outside steps | what the two memories keep |
| zaohua_live | 1 sound spec, loads {0,11,21}, fairness, 3 writes, 1 outside step | whether demand is met |
| calculator | 3 pods of 8 kinds, 4 usages, 53 metrics, counts {0,1,3} | what a metric may answer, and when a calculation panics |
| reload_handover | 2 Houmaos, 2 versions, 2 parts, shutdown, 3 edits, fairness | what becomes of a spec handed over; whether the loop ends |
| shifa | 2 incarnations, 2 finalizers, 2 resources, 4 outside steps, fairness | what shifa writes; whether a xianqi comes and goes |
| zaohua_slack, zaohua_reload, zaohua_report, shifa_deletion, shifa_orphan, calculator_overload | one question each | what the code does differently from what its docs or comments say |

*Invariants and action properties.* `RoundInv` is the invariant behind the
action properties: it relates the round's copy, the target and the locals
between two remote calls. `WritesInRange`, `NoLostUpdate`,
`ShrinksOnlyForLagOrMax` and `GrowsOnlyForCause` say what the server may be
asked to do. `ReportTruthful` relates the count and the change in a report to the history
of writes; `ScaledMeansWritten`, which the code violates, does so for its `IsScaled`.
`PanicsOnlyUnsound` gives the class of specs (`Sound`) for which a round never
panics. `EventsAddUp` compares the sum a policy computes from the events with
the sum over the history of writes; `RecordsKept` says that no recommendation
within the shortest window of any spec is overwritten. That is all the code keeps:
`max` (`behavor_processor.go:83`) returns the smaller of the two windows, so a record is
overwritten that a round in the direction of the larger one still reads. What such a
round misses changes the revised count only, which is shadowed and reaches no write.
`DemandWritten` is the liveness property.

*Calculator.* `PanicsOnlyForNil`: metrics are deleted after their number was checked,
yet no division is by zero; what panics is a spec that lacks something. `QuietNeverGrows` and
`NeverAgainstUsage` compare the answer with the usage as measured, before values
are filled in. `QuietNeverGrows` has an exception that the pod kind with a request of
250 and the Resource target 2 make reachable: the first ratio of a Resource is a
truncated percentage of the requests (`replica_calculator.go:213`), the second one the
mean of milli-values (`replica_calculator.go:251`), and both are compared with the same
target; with the first exactly on the target, neither of the strict comparisons with
1.0 applies, and the second alone decides. `AverageMet` compares `PerReplica` with a reference definition, the
least count that brings the average to the target. `Covered` holds the model of the round to
that of the calculation, for every kind of metric: no failure or panic is missing from
the round, and no count of a kind whose answer the round computes.

*Shifa.* `Guarded`, `KeepsEdits` and `DestroysOnlyDoomed` are about decisions made on
copies that may be old, written to objects that others change. `XianqiServes` and
`XianqiGoes` are the two liveness properties: once users and others have used up
their steps, the xianqi serves the Houmao that is alive, and is gone for one that
is being deleted; each excuses a phase that was set by hand, because only then
does a reconciliation end without being repeated.

*Bounds.* `MaxMoves` writes suffice for a second write that undoes or follows
the first; `MaxRecords` lets a slot be reused; `MaxTime` exceeds the longest
period, and the larger of the windows that can be in force (the smaller one of each
spec: 1 and 2), by one, so that everything can become obsolete and an edit changes what
is; `AverageValue` is 10, so that with a tolerance of 10 percent a load of 21 lies
within the tolerance of 2 running replicas and beyond that of 1 or 3, a load of 11
exactly on that of 1, and 20 or 0 on no edge; `MaxEdits`
steps of users, load and kills allow an edit or a hand-made change inside a round
and one more after it. `Counts` contains a value below, inside and above the
bounds of the specs. Three pods suffice for one that is counted, one that is missing
or unready and one that is ignored or unlisted; the usages lie below, at half, above
and far above the targets. Two incarnations of a Houmao tell a delayed deletion from a
deletion of one's own, and four outside steps allow to delete, strip, create and
interfere once more.

*Fairness* (`zaohua_live`, and the two violated liveness runs): the loop is a
goroutine that never waits between rounds (weak fairness of `Loop`); the pod of a
Deployment is restarted (`Restart`), informers catch up (`CacheSync`), pods of the
target follow its spec (`TargetProgress`): weak fairness. A call that is repeated
for ever succeeds at last: strong fairness of `GetScale`, `MetricAnswers`,
`UpdateAccepted`, since each may be refused in any particular round. Nothing is
assumed of users, load, kills, the clock, or the status patch. `DemandWritten`
excuses a run that has used up `MaxMoves`, and a load within the tolerance of what runs
on a settled target: `replica_calculator.go:488` leaves it alone on purpose, and
`initial.go:59` documents it. Without that excuse the run fails: 11 with 1 running is
never answered by 2. The demand is written at some moment; it need not stay, since a
round in which no metric answers while pods are still starting takes the count back to
what runs (`ShrinksOnlyForLagOrMax`), and a later one writes it again.

*Fairness* (`shifa` and its two violated runs): the worker runs and both informers
catch up (weak fairness); a write that is attempted again and again is taken and
answered at last (strong fairness of the four remote writes). The work queue
retries without limit, only ever slower. Nothing is assumed of users, other
controllers and restarts; each of them takes at most `MaxEdits` steps.

*Disagreements found* (runs expected to be violated): the target never shrinks
for want of load (`SlackReturned`); after a reload the loop has lost the name of
its Houmao and scales no more (`DemandWritten` with `Leads = TRUE`); a refused write is
recorded as a scaling that happened (`ScaledMeansWritten`); the deletion of a
Houmao never completes (`DeletionCompletes`); a Houmao that carries only a foreign
finalizer can go and leave its xianqi behind (`NoOrphan`); ready pods far above their
target ask for nothing (`OverloadAsksForMore`).

Others are visible as exceptions in properties that hold. A Houmao without rules,
a Utilization target of a resource, an Object target without its quantity, a Pods metric
with an invalid selector and an External metric each kill the process
(`Sound`, in `PanicsOnlyUnsound`; `PanicsOnlyForNil`); a refused write is reported as a
change to 0 (`ReportTruthful` speaks of positive counts only); a round may use a mixture of two
versions until the next signal, and a Reconcile that races the shutdown need not
return (`Settled` speaks of a worker at rest, `SignalTaken` excuses `cancelled`); the
loop works for whichever Houmao of the cluster was handed over last (`LatestWins`);
shifa believes a cache that shows no xianqi when the phase was set by hand
(`XianqiServes`, `XianqiGoes`).

*Reload.* `Settled` is the safety property of the hand-over: whenever the worker
rests and the loop is not copying, the rounds use exactly the spec handed over
last, so a torn copy is always replaced by the signal that caused it and no
signal is lost. Two parts are enough to tear a spec, two versions to tell old from
new, three edits to edit during the write, during the copy and after it. Fairness:
both goroutines run, the informer delivers; among ready cases of the `select` the
choice is free.

The operators whose names end in `Mutant` are faulty variants of the definitions
they precede, one for each property, kept to show that the property notices.

## 4. Proofs

`ZaohuaProofs` proves, for every set of specs, all counts and all bounds:

* `TypeCorrect`: `TypeOK`, inductive on its own. The two buffers are the
  interesting part: `BehavorProofs` shows that `Recorded` and `EventStored` return
  sequences of records (`RecordedIsSequence`, `EventStoredIsSequence`), and that
  stabilisation returns a natural number not above the wish
  (`StabilizedAtMostDesired`, which needs that a set of naturals has a least
  element).
* `RoundCorrect`: `RoundInv`, inductive relative to `TypeOK`. A write keeps it because
  it leaves the round and takes `fresh` from the cache; whoever else changes the
  target takes `fresh` from every copy; the clamp is `ClampRespectsRound`.
* `WritesStayInRange`, `UpdatesAreNotLost`, `ShrinksExplained`, `GrowthExplained`: the
  history grows only in the three steps that contain `Write` (`AcceptsIsWrite`),
  and there `RoundInv` gives the property.
* `PanicsExplained`: each panicking step contradicts a conjunct of `Sound`. That the
  kinds of metric which panic are the right ones is `RoundsAllowForCalculations`.
* `ReportsAreTruthful`: inductive relative to `TypeOK`.
* `RecordsAreKept`: `max` in the code returns the smaller window, so a slot is reused
  as soon as it is older than the smaller of the two in force (`RecordedKeepsYoung`),
  which is no less than the shortest window of all specs (`ShortestWindow`).
* `EventsAreRemembered` (`EventsAddUp`). The property speaks of the periods that are
  short enough at this moment, which is not inductive: the clock moves, and a slot may
  be reused for what it holds now. `EventsInv` says it for every cutoff not older than
  the least of the specs' longest periods, those included that the clock has yet to
  reach, and adds that no marked event is younger than that. A stored event then takes
  a slot that adds nothing to any such sum (`StoredEventIsAdded`, because the rules of
  the loop have a longest period no less than the least one, `ShortestPeriod`), and a
  write of the other direction or without an answer adds nothing either
  (`RememberedOther`). TLC finds `EventsInv`, with cutoffs up to the next tick, true on
  the instance of `zaohua_memory`.

`ScalerProofs` proves `RoundsAreAtomic`: `Init` implies the abstract `Init`, and under
`TypeOK`, `RoundInv` and `NothingToReport` every step is an abstract step or a stutter.
`WriteAdjusts` is the heart: where the server takes a write, `RoundInv` says that the
count and the status the round decided on are still those in the server, so the
decision is one an atomic scaler could make. `NothingToReport` is needed because a
claim must be empty in every step that does not publish it.

`CalculatorProofs` proves, for any number of pods, any values and targets and any
snapshots:

* `Typing`: `TypeOK` together with `Unread`, which says that a snapshot is still `None`
  where the calculation has not read it; without it a calculation that is computing
  might hold anything. Sums of metrics are integers by `SumType`.
* `DivisionsAreSafe` (`PanicsOnlyForNil`): what passes the code's checks leaves a metric
  to weigh, so neither ratio divides by zero, and every other panic is at a pointer
  that the metric lacks.
* `QuietUsage` (`QuietNeverGrows`). Below the target the comparisons around the second
  ratio decide (`EvenedAgrees`). On it they do not apply, but the metrics filled in are
  zeros there, so for Pods the sum stays, the number it is divided by grows, and the
  second ratio is no more than the first (`RebalancedMean`, `QuotientShrinks`). For a
  Resource the two are not comparable, which is how the exception came to light.
* `NotAgainstUsage` (`NeverAgainstUsage`): the comparisons around the second ratio,
  up to the rounding of the product (`EvenedAgrees`, `DesiredAgrees`).
* `AveragesAreMet` (`AverageMet`): the ceiling of a quotient of integers is the least
  number whose product reaches the dividend (`CeilDivLeast`).
* `RoundsAllowForCalculations` (`Covered`). `Plain` says how each metric ends without
  mentioning the round, and is inductive relative to `TypeOK` and `Unread`;
  `PlainIsCovered` translates it. Two facts carry it: which counts an Object's average
  may have on either side of the tolerance and on it (`ObjectAverages`, from
  `ExceedsMeans`), and that a ContainerResource can never be weighed.

`SumTheorems` gives both modules their sums. The community modules define a sum by
recursion over the subsets of its index set, one chosen element at a time.
`InductionOverSubsets` does induction over such subsets with a *set* of subsets in
place of a predicate, by a least counterexample, and so stays within first-order
logic; from it follow that the recursion has a solution (`SumExists`) and only one
(`SumUnique`), and that any element may be taken out first (`SumOfElement`), hence
what updating a summand, appending one or leaving out zeros does.

`ShifaProofs` proves, for all finalizers, resources and bounds and whichever
finalizers others remove:

* `TypeCorrect`, inductive on its own.
* `HoumaoIsGuarded` (`Guarded`) and `OnlyDoomedDestroyed` (`DestroysOnlyDoomed`). Neither is
  inductive. The strengthening has four parts: a copy that is fresh equals what
  the server holds (`CopiesTrue`); copies and xianqi are of the present or an
  earlier incarnation (`Incarnations`); a cache that shows a finalizer on the present
  Houmao, a worker that is about to write its xianqi, and a xianqi written for it
  each mean that a finalizer is still there or was stripped (`GuardKept`); once the cache shows that a Houmao is gone or going, no xianqi is
  or is being made for one that is alive (`DoomKept`).
* `EditsAreKept` (`KeepsEdits`): from `CopiesTrue`, because only a fresh copy is written.

`ReloadProofs` proves, for all Houmaos, versions, parts and bounds, `TypeCorrect` and
`NoChangeLost` (`Settled`). The strengthening is `Handover`: what the worker has
written equals `ObjectSpec`; when it rests, the whole shared object does and so
does everything the loop has copied since; and from the first receive on, no
patch can replace the configuration, because `z.Object` has no name. It needs that
`Nil` is no spec (`NilAssumption`) and that the process's own Houmao is one of the
Houmaos (`OwnAssumption`).

Assumptions: those on the constants of each module, which TLC evaluates in every run:
`SpecsAssumption`, `PoliciesAssumption` (the policies of a rule are a slice, hence
finite), `CountsAssumption`, `LoadsAssumption`, `ToleranceAssumption`, `LeadsAssumption`,
`BoundsAssumption` (`Zaohua`); `OwnAssumption`, `PartsAssumption`, `FlagsAssumption`,
`EditsAssumption`, `NilAssumption` (`Reload`); `OwnAssumption`, `AdmitsAssumption`,
`NilAssumption`, `BoundsAssumption` (`Shifa`); `PodsAssumption` to `NilAssumption`
(`Calculator`).

Only model-checked: liveness under fairness (`DemandWritten`, `LatestWins`,
`SignalTaken`, `LoopStops`, `XianqiServes`, `XianqiGoes`), and the properties of the runs
that are expected to be violated. Every invariant and every action property of the
passing runs, and the refinement, is a theorem.

## 5. What is left

1. The status history, once its patch reaches the status: a module for `updateStatus`
   with a queue of the latest five results as its abstract specification.
2. The composition of `Shifa` and `Zaohua` through the life of the pod: which zaohua
   process scales for which incarnation, and two of them during a rollout.
3. The range of `Resource` and `Pods` inside `Zaohua`: `Unrelated` is any count, while
   `Calculator` bounds it by the Failed and unlisted pods; a bound would need those pods
   in `Zaohua`.
