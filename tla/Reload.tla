------------------------------- MODULE Reload -------------------------------
(***************************************************************************)
(* How a changed Houmao reaches the loop of a zaohua process.  Three       *)
(* parties share HoumaoObject and an unbuffered channel: the one worker of *)
(* ZaohuaController, which writes HoumaoObject and then blocks sending;    *)
(* the loop, which polls the channel between two rounds and then copies    *)
(* HoumaoObject; and the shutdown, which both hear of.  Neither the write  *)
(* nor the copy of HoumaoObject is protected, so each goes part by part,   *)
(* in any order.  The worker hears of every Houmao of the cluster.         *)
(*                                                                         *)
(* What a round does with its configuration is the module Zaohua.          *)
(***************************************************************************)
EXTENDS Naturals

CONSTANTS
    Houmaos,   \* the Houmaos of the cluster
    Own,       \* the one this process was started for
    Versions,  \* what users may write into one Houmao
    Parts,     \* the parts of a HoumaoSpec, e.g. its target and its bounds
    Nil,       \* no spec: not there, or not yet
    Leads,     \* does this process hold the lease its controller needs
    CanStop,   \* may the process be told to stop
    MaxEdits   \* bound: edits, deletions and creations of Houmaos

ASSUME OwnAssumption   == Own \in Houmaos
ASSUME PartsAssumption == Parts # {}
ASSUME FlagsAssumption == Leads \in BOOLEAN /\ CanStop \in BOOLEAN
ASSUME EditsAssumption == MaxEdits \in Nat

(* Specs of two Houmaos differ: they name different targets.               *)
Specs == [of : Houmaos, version : Versions]

ASSUME NilAssumption == Nil \notin Specs

VARIABLES
    houmao,        \* the spec of every Houmao in the API server, Nil if deleted
    informer,      \* the same in the informer's cache
    queue,         \* the keys the worker has yet to reconcile
    edits,         \* edits so far
    cancelled,     \* the context is done
    worker,        \* where the worker is
    ObjectSpec,    \* the spec it handed over last
    HoumaoObject,  \* shared: the spec to load, by parts
    written,       \* the parts of it the worker has written
    loop,          \* where the loop is
    config,        \* z.Object: the spec the rounds use, by parts
    copied,        \* the parts of it the loop has copied
    named          \* z.Object still has its name and namespace

cluster == <<houmao, informer, edits, cancelled>>
rounds  == <<loop, config, copied, named>>
vars    == <<houmao, informer, queue, edits, cancelled, worker, ObjectSpec, HoumaoObject, written,
             loop, config, copied, named>>

Whole(spec) == [p \in Parts |-> spec]

TypeOK ==
    /\ houmao \in [Houmaos -> Specs \cup {Nil}]
    /\ informer \in [Houmaos -> Specs \cup {Nil}]
    /\ queue \subseteq Houmaos
    /\ edits \in Nat
    /\ cancelled \in BOOLEAN
    /\ worker \in {"idle", "write", "send"}
    /\ ObjectSpec \in Specs \cup {Nil}
    /\ worker # "idle" => ObjectSpec # Nil
    /\ HoumaoObject \in [Parts -> Specs \cup {Nil}]
    /\ written \subseteq Parts
    /\ loop \in {"round", "select", "copy", "done"}
    /\ config \in [Parts -> Specs \cup {Nil}]
    /\ copied \subseteq Parts
    /\ named \in BOOLEAN

(* The process has read its Houmao; its informer lists all of them.        *)
Init ==
    /\ houmao \in {f \in [Houmaos -> Specs] : \A k \in Houmaos : f[k].of = k}
    /\ informer = houmao
    /\ queue = Houmaos
    /\ edits = 0
    /\ cancelled = FALSE
    /\ worker = "idle"
    /\ ObjectSpec = Nil
    /\ HoumaoObject = Whole(Nil)
    /\ written = {}
    /\ loop = "round"
    /\ config = Whole(houmao[Own])
    /\ copied = {}
    /\ named = TRUE

-----------------------------------------------------------------------------
(* The worker.  A Houmao that is gone, or whose spec it handed over last,  *)
(* is passed over; a shutdown leaves it what is in the queue.              *)
Take(k) ==
    /\ Leads
    /\ worker = "idle"
    /\ k \in queue
    /\ queue' = queue \ {k}

Skip(k) ==
    /\ Take(k)
    /\ informer[k] \in {Nil, ObjectSpec}
    /\ UNCHANGED <<cluster, worker, ObjectSpec, HoumaoObject, written, rounds>>

(* Without the test of Get's error; and reloading only once.               *)
UncheckedMutant(k) ==
    /\ Take(k)
    /\ informer[k] # ObjectSpec
    /\ ObjectSpec' = informer[k]
    /\ worker' = "write"
    /\ written' = {}
    /\ UNCHANGED <<cluster, HoumaoObject, rounds>>
OnceMutant(k) ==
    /\ Take(k)
    /\ informer[k] # Nil /\ ObjectSpec = Nil
    /\ ObjectSpec' = informer[k]
    /\ worker' = "write"
    /\ written' = {}
    /\ UNCHANGED <<cluster, HoumaoObject, rounds>>

Reconcile(k) ==
    /\ Take(k)
    /\ informer[k] \notin {Nil, ObjectSpec}
    /\ ObjectSpec' = informer[k]
    /\ worker' = "write"
    /\ written' = {}
    /\ UNCHANGED <<cluster, HoumaoObject, rounds>>

(* A send that gives up when the loop is busy.                             *)
WritePartMutant ==
    /\ worker = "write"
    /\ \E p \in Parts \ written :
        /\ HoumaoObject' = [HoumaoObject EXCEPT ![p] = ObjectSpec]
        /\ written' = written \cup {p}
        /\ worker' = IF written' = Parts THEN "idle" ELSE "write"
    /\ UNCHANGED <<cluster, queue, ObjectSpec, rounds>>

(* reloadZaohuaHandle; after its last part the deferred send blocks.       *)
WritePart ==
    /\ worker = "write"
    /\ \E p \in Parts \ written :
        /\ HoumaoObject' = [HoumaoObject EXCEPT ![p] = ObjectSpec]
        /\ written' = written \cup {p}
        /\ worker' = IF written' = Parts THEN "send" ELSE "write"
    /\ UNCHANGED <<cluster, queue, ObjectSpec, rounds>>

-----------------------------------------------------------------------------
(* The loop.  A round that ends with a successful patch has decoded the    *)
(* server's Houmao into z.Object, and its event reaches the worker; a      *)
(* z.Object without its name cannot be patched.                            *)
RoundEnds ==
    /\ loop = "round"
    /\ loop' = "select"
    /\ UNCHANGED <<cluster, queue, worker, ObjectSpec, HoumaoObject, written,
                   config, copied, named>>

RoundPatches ==
    /\ loop = "round"
    /\ named
    /\ houmao[Own] # Nil
    /\ config' = Whole(houmao[Own])
    /\ queue' = IF cancelled THEN queue ELSE queue \cup {Own}
    /\ loop' = "select"
    /\ UNCHANGED <<cluster, worker, ObjectSpec, HoumaoObject, written, copied, named>>

(* Looking at the channel last; and not looking at the context.            *)
EagerMutant ==
    /\ loop = "select"
    /\ ~cancelled
    /\ loop' = "round"
    /\ UNCHANGED <<cluster, queue, worker, ObjectSpec, HoumaoObject, written,
                   config, copied, named>>
DeafMutant ==
    /\ loop = "select"
    /\ worker # "send"
    /\ loop' = "round"
    /\ UNCHANGED <<cluster, queue, worker, ObjectSpec, HoumaoObject, written,
                   config, copied, named>>

(* The select: its default is taken only when neither other case is ready. *)
NextRound ==
    /\ loop = "select"
    /\ ~cancelled
    /\ worker # "send"
    /\ loop' = "round"
    /\ UNCHANGED <<cluster, queue, worker, ObjectSpec, HoumaoObject, written,
                   config, copied, named>>

Receive ==
    /\ loop = "select"
    /\ worker = "send"
    /\ worker' = "idle"
    /\ loop' = "copy"
    /\ copied' = {}
    /\ named' = FALSE
    /\ UNCHANGED <<cluster, queue, ObjectSpec, HoumaoObject, written, config>>

(* DeepCopy; the worker may be writing the next spec meanwhile.            *)
CopyPart ==
    /\ loop = "copy"
    /\ \E p \in Parts \ copied :
        /\ config' = [config EXCEPT ![p] = HoumaoObject[p]]
        /\ copied' = copied \cup {p}
        /\ loop' = IF copied' = Parts THEN "round" ELSE "copy"
    /\ UNCHANGED <<cluster, queue, worker, ObjectSpec, HoumaoObject, written, named>>

Done ==
    /\ loop = "select"
    /\ cancelled
    /\ loop' = "done"
    /\ UNCHANGED <<cluster, queue, worker, ObjectSpec, HoumaoObject, written,
                   config, copied, named>>

-----------------------------------------------------------------------------
(* Users (a spec of Nil deletes), the informer, which a shutdown stops, and*)
(* the shutdown.                                                           *)
Written(k) == {[of |-> k, version |-> v] : v \in Versions} \cup {Nil}

EditHoumao ==
    /\ edits < MaxEdits
    /\ edits' = edits + 1
    /\ \E k \in Houmaos : \E s \in Written(k) \ {houmao[k]} : houmao' = [houmao EXCEPT ![k] = s]
    /\ UNCHANGED <<informer, queue, cancelled, worker, ObjectSpec, HoumaoObject, written, rounds>>

Deliver(k) ==
    /\ ~cancelled
    /\ informer[k] # houmao[k]
    /\ informer' = [informer EXCEPT ![k] = houmao[k]]
    /\ queue' = queue \cup {k}
    /\ UNCHANGED <<houmao, edits, cancelled, worker, ObjectSpec, HoumaoObject, written, rounds>>

Stop ==
    /\ CanStop
    /\ ~cancelled
    /\ cancelled' = TRUE
    /\ UNCHANGED <<houmao, informer, edits, queue, worker, ObjectSpec, HoumaoObject, written, rounds>>

-----------------------------------------------------------------------------
Worker == WritePart \/ \E k \in Houmaos : Skip(k) \/ Reconcile(k)
Loop   == RoundEnds \/ RoundPatches \/ NextRound \/ Receive \/ CopyPart \/ Done
Next   == \/ Worker
          \/ Loop
          \/ EditHoumao
          \/ \E k \in Houmaos : Deliver(k)
          \/ Stop

Spec == Init /\ [][Next]_vars

(* Both goroutines run and the informer follows; neither is favoured.      *)
Fairness == WF_vars(Worker) /\ WF_vars(Loop) /\ \A k \in Houmaos : WF_vars(Deliver(k))

FairSpec == Spec /\ Fairness

-----------------------------------------------------------------------------
(* No change is lost on the way: whenever the worker rests and the loop is *)
(* not copying, the rounds use exactly the spec handed over last, whatever *)
(* mixture a copy made while the worker wrote had left them with.          *)
Settled == worker = "idle" /\ ObjectSpec # Nil /\ loop # "copy" => config = Whole(ObjectSpec)

(* Once users stop editing it, the Houmao's own spec becomes and stays the *)
(* configuration of the loop (an update makes zaohua reload), unless the   *)
(* process stops or another Houmao was handed over last.                   *)
LatestWins ==
    <>[](\/ cancelled
         \/ houmao[Own] = Nil
         \/ ObjectSpec # Nil /\ ObjectSpec.of # Own
         \/ config = Whole(houmao[Own]))

(* While the process is not told to stop, the loop takes what the worker   *)
(* sends: rounds do not starve the channel.                                *)
SignalTaken == worker = "send" ~> worker = "idle" \/ cancelled

(* The loop ends when the process is told to stop.                         *)
LoopStops == cancelled ~> loop = "done"
=============================================================================
