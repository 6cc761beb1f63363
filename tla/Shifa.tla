-------------------------------- MODULE Shifa --------------------------------
(***************************************************************************)
(* The shifa process: how HoumaoReconciler turns one Houmao into its xianqi*)
(* Deployment and takes the Deployment away again.  One worker reconciles; *)
(* it reads Houmao and Deployment from the client's caches, which lag, and *)
(* writes them in the API server, one call per step.  Around it: users who *)
(* edit, delete and create the Houmao again and change the Deployment by   *)
(* hand, other controllers with finalizers of their own, the work queue,   *)
(* and a restart of the process at any moment.                             *)
(*                                                                         *)
(* An Update carries the resourceVersion that was read: the field fresh of *)
(* a copy says that it is current.  Create and Delete go by name only.  Any*)
(* call may fail, and the server's answer to one it took may be lost.      *)
(***************************************************************************)
EXTENDS Naturals

CONSTANTS
    Liangs,     \* the values of XianqiLiang, the resources of a xianqi
    Own,        \* consts.HoumaoFilalizer
    Foreign,    \* finalizers of other controllers
    Removable,  \* the finalizers that others than shifa take off a Houmao
    Admits,     \* does the API server admit the Deployment that shifa builds
    Nil,        \* no such object
    MaxLives,   \* bound: incarnations of the Houmao
    MaxEdits    \* bound: steps of users and other controllers, and restarts

Finalizers == {Own} \cup Foreign
Phases     == {"", "xianqi", "destroying"}
Houmao     == [uid : Nat, deleting : BOOLEAN, finalizers : SUBSET Finalizers,
               phase : Phases, liang : Liangs]
Deployment == [liang : Liangs, hand : BOOLEAN]  \* hand: what users changed in it

ASSUME OwnAssumption    == Own \notin Foreign
ASSUME AdmitsAssumption == Admits \in BOOLEAN
ASSUME NilAssumption    == Nil \notin Houmao /\ Nil \notin Deployment
ASSUME BoundsAssumption == MaxLives \in Nat /\ MaxEdits \in Nat

VARIABLES
    houmao,     \* the Houmao in the API server
    hcache,     \* the informer's copy of it
    lives,      \* incarnations of the Houmao so far
    stripped,   \* history: someone took a finalizer off this incarnation
    xianqi,     \* the Deployment in the API server
    xcache,     \* the informer's copy of it
    madeFor,    \* history: the incarnation the xianqi was last written for
    edits,      \* steps of users, others and restarts so far
    pending,    \* is the Houmao's key in the work queue
    pc,         \* where the worker is
    object,     \* the reconciliation's copy of the Houmao
    xianqiObj   \* and of the Deployment

server == <<houmao, lives, stripped, xianqi, madeFor, edits>>
caches == <<hcache, xcache>>
vars   == <<houmao, hcache, lives, stripped, xianqi, xcache, madeFor, edits,
            pending, pc, object, xianqiObj>>

HoumaoCopy     == [value : Houmao \cup {Nil}, fresh : BOOLEAN]
DeploymentCopy == [value : Deployment \cup {Nil}, fresh : BOOLEAN]
NoCopy         == [value |-> Nil, fresh |-> FALSE]
Current(value) == [value |-> value, fresh |-> TRUE]
Old(copy)      == [copy EXCEPT !.fresh = FALSE]

Alive(h)  == h # Nil /\ ~h.deleting
Calls     == {"finalizers", "create", "update", "delete", "status"}

TypeOK ==
    /\ houmao \in Houmao \cup {Nil}
    /\ hcache \in HoumaoCopy
    /\ lives \in Nat
    /\ stripped \in BOOLEAN
    /\ xianqi \in Deployment \cup {Nil}
    /\ xcache \in DeploymentCopy
    /\ madeFor \in Nat
    /\ edits \in Nat
    /\ pending \in BOOLEAN
    /\ pc \in Calls \cup {"idle", "xianqi", "destroy", "destroying"}
    /\ object \in HoumaoCopy
    /\ xianqiObj \in DeploymentCopy
    /\ pc \in {"finalizers", "xianqi", "create", "update", "status"} => object.value # Nil
    /\ pc = "update" => xianqiObj.value # Nil

NewHoumao(uid, f, l) ==
    [uid |-> uid, deleting |-> FALSE, finalizers |-> f, phase |-> "", liang |-> l]

(* The process starts beside a Houmao it has not reconciled yet.           *)
Init ==
    /\ \E f \in SUBSET Foreign : \E l \in Liangs : houmao = NewHoumao(1, f, l)
    /\ hcache = Current(houmao)
    /\ lives = 1
    /\ stripped = FALSE
    /\ xianqi = Nil
    /\ xcache = Current(Nil)
    /\ madeFor = 0
    /\ edits = 0
    /\ pending = TRUE
    /\ pc = "idle"
    /\ object = NoCopy
    /\ xianqiObj = NoCopy

(* The Mutant operators are faulty variants of the definition they come   *)
(* before; each breaks one of the properties at the end of the module.     *)

(* How a reconciliation ends: an error puts the key back into the queue;   *)
(* the mutant forgets it.                                                  *)
Over == pc' = "idle" /\ object' = NoCopy /\ xianqiObj' = NoCopy
Done == Over /\ UNCHANGED pending
FailMutant == Over /\ UNCHANGED pending
Fail == Over /\ pending' = TRUE

-----------------------------------------------------------------------------
(* Reconcile reads the Houmao from the cache: what is gone or being deleted*)
(* loses its xianqi, and finalizers are added to a list that has none.     *)

(* Any error of the read taken for a Houmao that is gone.                  *)
BeginMutant ==
    /\ pc = "idle"
    /\ pending
    /\ pending' = FALSE
    /\ object' \in {hcache, NoCopy}
    /\ pc' = IF ~Alive(object'.value) THEN "destroy"
             ELSE IF object'.value.finalizers = {} THEN "finalizers" ELSE "xianqi"
    /\ UNCHANGED <<server, caches, xianqiObj>>

Begin ==
    /\ pc = "idle"
    /\ pending
    /\ pending' = FALSE
    /\ object' = hcache
    /\ pc' = IF ~Alive(hcache.value) THEN "destroy"
             ELSE IF hcache.value.finalizers = {} THEN "finalizers" ELSE "xianqi"
    /\ UNCHANGED <<server, caches, xianqiObj>>

(* Going on as if the finalizers had been written.                         *)
AddFinalizersMutant(answered) ==
    /\ pc = "finalizers"
    /\ IF answered THEN pc' = "xianqi" /\ UNCHANGED <<pending, object, xianqiObj>> ELSE Fail
    /\ UNCHANGED <<server, caches>>

(* addFinalizers: the whole Houmao is written back; the answer is decoded  *)
(* into the reconciliation's copy.                                         *)
AddFinalizers(answered) ==
    /\ pc = "finalizers"
    /\ object.fresh
    /\ houmao' = [object.value EXCEPT !.finalizers = {Own}]
    /\ hcache' = Old(hcache)
    /\ IF answered
       THEN pc' = "xianqi" /\ object' = Current(houmao') /\ UNCHANGED <<pending, xianqiObj>>
       ELSE Fail
    /\ UNCHANGED <<lives, stripped, xianqi, xcache, madeFor, edits>>

-----------------------------------------------------------------------------
(* CreateOrUpdateXianqi: the cache decides between the two; the mutant     *)
(* updates what the cache does not hold.                                   *)
GetXianqiMutant ==
    /\ pc = "xianqi"
    /\ xianqiObj' = xcache
    /\ pc' = "update"
    /\ UNCHANGED <<server, caches, pending, object>>

GetXianqi ==
    /\ pc = "xianqi"
    /\ xianqiObj' = xcache
    /\ pc' = IF xcache.value = Nil THEN "create" ELSE "update"
    /\ UNCHANGED <<server, caches, pending, object>>

(* The server takes a Deployment, written for the Houmao of the copy.      *)
Store(deployment) ==
    /\ xianqi' = deployment
    /\ xcache' = Old(xcache)
    /\ madeFor' = object.value.uid
    /\ UNCHANGED <<houmao, hcache, lives, stripped, edits>>

Answer(answered) ==
    IF answered THEN pc' = "status" /\ xianqiObj' = NoCopy /\ UNCHANGED <<pending, object>> ELSE Fail

CreateXianqi(answered) ==
    /\ pc = "create"
    /\ Admits
    /\ xianqi = Nil
    /\ Store([liang |-> object.value.liang, hand |-> FALSE])
    /\ Answer(answered)

(* An update that does not carry the version.                              *)
UpdateXianqiMutant(answered) ==
    /\ pc = "update"
    /\ xianqi # Nil
    /\ Store([xianqiObj.value EXCEPT !.liang = object.value.liang])
    /\ Answer(answered)

UpdateXianqi(answered) ==
    /\ pc = "update"
    /\ xianqiObj.fresh
    /\ Store([xianqiObj.value EXCEPT !.liang = object.value.liang])
    /\ Answer(answered)

-----------------------------------------------------------------------------
(* DestroyXianqi: what the cache does not hold counts as deleted.          *)
Destroyed == IF object.value = Nil THEN Done
             ELSE pc' = "destroying" /\ UNCHANGED <<pending, object, xianqiObj>>

GetDoomed ==
    /\ pc = "destroy"
    /\ IF xcache.value = Nil THEN Destroyed
       ELSE pc' = "delete" /\ UNCHANGED <<pending, object, xianqiObj>>
    /\ UNCHANGED <<server, caches>>

DeleteXianqi(answered) ==
    /\ pc = "delete"
    /\ xianqi # Nil
    /\ xianqi' = Nil
    /\ xcache' = Old(xcache)
    /\ IF answered THEN Destroyed ELSE Fail
    /\ UNCHANGED <<houmao, hcache, lives, stripped, madeFor, edits>>

-----------------------------------------------------------------------------
(* A call that fails; a call that the server refuses always can.           *)
CallFails ==
    /\ pc \in {"finalizers", "create", "update", "delete"}
    /\ Fail
    /\ UNCHANGED <<server, caches>>

(* The patch of a phase is the bare name of the phase, which no server     *)
(* takes; the patch of XianqiInfo, which follows when the phase is right   *)
(* already, has no effect on the status if a server takes it.              *)
Wanted == IF pc = "status" THEN "xianqi" ELSE "destroying"

PatchRefused ==
    /\ pc \in {"status", "destroying"}
    /\ pc = "destroying" => object.value.phase # Wanted
    /\ Fail
    /\ UNCHANGED <<server, caches>>

(* delFinalizers, the last step for a Houmao that is being deleted, writes *)
(* only when the list is empty, and then to append to it.                  *)
FinalizersLeft(f) == IF f = {} THEN {Own} ELSE f

Reconciled ==
    /\ pc \in {"status", "destroying"}
    /\ object.value.phase = Wanted
    /\ pc = "destroying" => FinalizersLeft(object.value.finalizers) = object.value.finalizers
    /\ Done
    /\ UNCHANGED <<server, caches>>

-----------------------------------------------------------------------------
(* The caches follow; an event of the Houmao, not of the Deployment, puts  *)
(* its key into the queue.                                                 *)

(* Passing over the event of a deletion.                                   *)
DeliverMutant ==
    /\ ~hcache.fresh
    /\ hcache' = Current(houmao)
    /\ pending' = (pending \/ Alive(houmao))
    /\ UNCHANGED <<server, xcache, pc, object, xianqiObj>>

Deliver ==
    /\ ~hcache.fresh
    /\ hcache' = Current(houmao)
    /\ pending' = TRUE
    /\ UNCHANGED <<server, xcache, pc, object, xianqiObj>>

SyncXianqi ==
    /\ ~xcache.fresh
    /\ xcache' = Current(xianqi)
    /\ UNCHANGED <<server, hcache, pending, pc, object, xianqiObj>>

(* The process is killed and started again: it lists what is there.        *)
Restart ==
    /\ edits < MaxEdits
    /\ edits' = edits + 1
    /\ hcache' = Current(houmao)
    /\ xcache' = Current(xianqi)
    /\ Over
    /\ pending' = (houmao # Nil)
    /\ UNCHANGED <<houmao, lives, stripped, xianqi, madeFor>>

-----------------------------------------------------------------------------
(* Users and other controllers: copies of what they write are old.  A      *)
(* Houmao that is being deleted goes with its last finalizer.              *)
Others ==
    /\ edits < MaxEdits
    /\ edits' = edits + 1
    /\ UNCHANGED <<madeFor, pending, pc>>

HoumaoBecomes(h) ==
    /\ houmao' = IF h.deleting /\ h.finalizers = {} THEN Nil ELSE h
    /\ hcache' = Old(hcache)
    /\ object' = Old(object)
    /\ UNCHANGED <<xianqi, xcache, xianqiObj>>

XianqiBecomes(d) ==
    /\ xianqi' = d
    /\ xcache' = Old(xcache)
    /\ xianqiObj' = Old(xianqiObj)
    /\ UNCHANGED <<houmao, hcache, lives, stripped, object>>

EditHoumao ==
    /\ Others
    /\ houmao # Nil
    /\ \/ \E l \in Liangs \ {houmao.liang} : HoumaoBecomes([houmao EXCEPT !.liang = l])
       \/ \E p \in Phases \ {houmao.phase} : HoumaoBecomes([houmao EXCEPT !.phase = p])
       \/ HoumaoBecomes([houmao EXCEPT !.deleting = TRUE])
       \/ /\ ~houmao.deleting
          /\ \E f \in Foreign \ houmao.finalizers :
                HoumaoBecomes([houmao EXCEPT !.finalizers = @ \cup {f}])
    /\ UNCHANGED <<lives, stripped>>

StripHoumao ==
    /\ Others
    /\ houmao # Nil
    /\ \E f \in Removable \cap houmao.finalizers :
          HoumaoBecomes([houmao EXCEPT !.finalizers = @ \ {f}])
    /\ stripped' = TRUE
    /\ UNCHANGED lives

CreateHoumao ==
    /\ Others
    /\ houmao = Nil
    /\ lives < MaxLives
    /\ lives' = lives + 1
    /\ stripped' = FALSE
    /\ \E f \in SUBSET Foreign : \E l \in Liangs : HoumaoBecomes(NewHoumao(lives', f, l))

EditXianqi ==
    /\ Others
    /\ xianqi # Nil
    /\ XianqiBecomes(Nil) \/ XianqiBecomes([xianqi EXCEPT !.hand = ~@])

-----------------------------------------------------------------------------
Shifa == \/ Begin
         \/ \E answered \in BOOLEAN : \/ AddFinalizers(answered) \/ CreateXianqi(answered)
                                      \/ UpdateXianqi(answered) \/ DeleteXianqi(answered)
         \/ GetXianqi \/ GetDoomed
         \/ CallFails \/ PatchRefused \/ Reconciled

Environment == \/ Deliver \/ SyncXianqi \/ Restart
               \/ EditHoumao \/ StripHoumao \/ CreateHoumao \/ EditXianqi

Next == Shifa \/ Environment

Spec == Init /\ [][Next]_vars

(* The worker runs, the informers follow, and a call that is made again and*)
(* again succeeds at last; the queue retries for ever, only ever slower.   *)
Fairness ==
    /\ WF_vars(Shifa) /\ WF_vars(Deliver) /\ WF_vars(SyncXianqi)
    /\ SF_vars(AddFinalizers(TRUE)) /\ SF_vars(CreateXianqi(TRUE))
    /\ SF_vars(UpdateXianqi(TRUE)) /\ SF_vars(DeleteXianqi(TRUE))

FairSpec == Spec /\ Fairness

-----------------------------------------------------------------------------
(* A xianqi is only ever made for a Houmao that has a finalizer, so that   *)
(* the Houmao cannot vanish behind shifa's back, unless others take it off:*)
(* though finalizers and xianqi are decided on copies that may be old.     *)
Guarded ==
    houmao # Nil /\ xianqi # Nil /\ madeFor = houmao.uid => houmao.finalizers # {} \/ stripped

(* Shifa writes whole objects back, yet a step of it undoes nothing that   *)
(* users or other controllers wrote since it read: of the Houmao it changes*)
(* only an empty list of finalizers, of the Deployment only the resources, *)
(* and it brings back neither a Houmao nor one's earlier incarnation.      *)
KeepsEdits ==
    [][Shifa =>
         /\ houmao' = houmao \/ (Alive(houmao) /\ houmao.finalizers = {}
                                 /\ houmao' = [houmao EXCEPT !.finalizers = {Own}])
         /\ xianqi # Nil /\ xianqi' # Nil => xianqi'.hand = xianqi.hand]_vars

(* Deleting goes by name: yet what shifa deletes was never made for the    *)
(* Houmao that is alive at that moment.                                    *)
DestroysOnlyDoomed ==
    [][Shifa /\ xianqi # Nil /\ xianqi' = Nil => ~Alive(houmao) \/ madeFor # houmao.uid]_vars

(* Once nobody interferes, a Houmao that is alive gets its xianqi, with the*)
(* resources it asks for; only if somebody set its phase to xianqi, a xianqi*)
(* deleted by hand may stay away.                                          *)
XianqiServes ==
    <>[](Alive(houmao) =>
            IF xianqi = Nil THEN houmao.phase = "xianqi" ELSE xianqi.liang = houmao.liang)

(* Once nobody interferes, a Houmao that is being deleted and has shifa's  *)
(* finalizer has lost its xianqi for good, in spite of creations under way *)
(* and of a cache that did not show them; only if somebody set its phase to*)
(* destroying, shifa may believe the cache.                                *)
XianqiGoes ==
    <>[](houmao # Nil /\ houmao.deleting /\ Own \in houmao.finalizers =>
            xianqi = Nil \/ houmao.phase = "destroying")

(* The deletion of a Houmao completes: shifa takes its finalizer off.      *)
DeletionCompletes ==
    houmao # Nil /\ houmao.deleting /\ houmao.finalizers = {Own} ~> houmao = Nil

(* The xianqi of a Houmao that is gone goes too.                           *)
NoOrphan == houmao = Nil ~> xianqi = Nil \/ houmao # Nil
=============================================================================
