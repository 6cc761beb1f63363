---------------------------- MODULE ReloadProofs ----------------------------
(***************************************************************************)
(* Theorems about Reload, for all Houmaos, versions, parts and bounds.     *)
(***************************************************************************)
EXTENDS Reload, TLAPS

(* What makes Settled inductive: what the worker has written, and what the *)
(* loop has copied since the worker last rested, is the spec handed over   *)
(* last; and once a spec was received no patch can replace it.             *)
Handover ==
    /\ worker = "write" => \A p \in written : HoumaoObject[p] = ObjectSpec
    /\ worker = "send" => HoumaoObject = Whole(ObjectSpec)
    /\ worker = "idle" /\ ObjectSpec # Nil =>
         /\ HoumaoObject = Whole(ObjectSpec)
         /\ ~named
         /\ loop = "copy" => \A p \in copied : config[p] = ObjectSpec

-----------------------------------------------------------------------------
LEMMA TypeStep ==
    ASSUME TypeOK, [Next]_vars
    PROVE  TypeOK'
<1> USE DEF TypeOK, cluster, rounds
<1>1. ASSUME NEW k \in Houmaos, Skip(k) PROVE TypeOK'
  BY <1>1 DEF Skip, Take
<1>2. ASSUME NEW k \in Houmaos, Reconcile(k) PROVE TypeOK'
  <2>1. informer[k] \in Specs
    BY <1>2 DEF Reconcile
  <2> QED
    BY <1>2, <2>1, NilAssumption DEF Reconcile, Take
<1>3. CASE WritePart
  BY <1>3 DEF WritePart
<1>4. CASE RoundEnds
  BY <1>4 DEF RoundEnds
<1>5. CASE RoundPatches
  BY <1>5, OwnAssumption DEF RoundPatches, Whole
<1>6. CASE NextRound
  BY <1>6 DEF NextRound
<1>7. CASE Receive
  BY <1>7 DEF Receive
<1>8. CASE CopyPart
  BY <1>8 DEF CopyPart
<1>9. CASE Done
  BY <1>9 DEF Done
<1>10. CASE EditHoumao
  <2>1. PICK k \in Houmaos : \E s \in Written(k) : houmao' = [houmao EXCEPT ![k] = s]
    BY <1>10 DEF EditHoumao
  <2>3. PICK s \in Written(k) : houmao' = [houmao EXCEPT ![k] = s]
    BY <2>1
  <2>2. s \in Specs \cup {Nil}
    BY DEF Written, Specs
  <2> QED
    BY <1>10, <2>2, <2>3 DEF EditHoumao
<1>11. ASSUME NEW k \in Houmaos, Deliver(k) PROVE TypeOK'
  BY <1>11 DEF Deliver
<1>12. CASE Stop
  BY <1>12 DEF Stop
<1>13. CASE UNCHANGED vars
  BY <1>13 DEF vars
<1> QED
  BY <1>1, <1>2, <1>3, <1>4, <1>5, <1>6, <1>7, <1>8, <1>9, <1>10, <1>11, <1>12, <1>13
     DEF Next, Worker, Loop

LEMMA TypeInit == Init => TypeOK
<1> SUFFICES ASSUME Init PROVE TypeOK
  OBVIOUS
<1>1. houmao \in [Houmaos -> Specs]
  BY DEF Init
<1>2. houmao[Own] \in Specs
  BY <1>1, OwnAssumption
<1> QED
  BY <1>1, <1>2 DEF Init, TypeOK, Whole

(* Every variable of worker, loop and shutdown keeps its type, and the     *)
(* worker never hands over a Houmao that is not there.                     *)
THEOREM TypeCorrect == Spec => []TypeOK
<1>1. TypeOK /\ [Next]_vars => TypeOK'
  BY TypeStep
<1> QED
  BY <1>1, TypeInit, PTL DEF Spec

-----------------------------------------------------------------------------
(* Steps that leave the handed-over spec and the loop's copy alone.        *)
LEMMA Untouched ==
    ASSUME Handover, Settled,
           UNCHANGED <<worker, ObjectSpec, HoumaoObject, written, config, copied, named>>,
           loop = "copy" <=> loop' = "copy"
    PROVE  Handover' /\ Settled'
BY DEF Handover, Settled, Whole

(* The three parties keep the agreement.                                   *)
LEMMA HandoverStep ==
    ASSUME TypeOK, Handover, Settled, [Next]_vars
    PROVE  Handover' /\ Settled'
<1> USE DEF cluster, rounds
<1>1. ASSUME NEW k \in Houmaos, Skip(k) PROVE Handover' /\ Settled'
  BY <1>1, Untouched DEF Skip
<1>2. ASSUME NEW k \in Houmaos, Reconcile(k) PROVE Handover' /\ Settled'
  BY <1>2 DEF Reconcile, Handover, Settled
<1>3. CASE WritePart
  <2>1. PICK p \in Parts \ written :
            /\ HoumaoObject' = [HoumaoObject EXCEPT ![p] = ObjectSpec]
            /\ written' = written \cup {p}
            /\ worker' = IF written' = Parts THEN "send" ELSE "write"
    BY <1>3 DEF WritePart
  <2>2. \A q \in written' : HoumaoObject'[q] = ObjectSpec
    BY <1>3, <2>1 DEF TypeOK, Handover, WritePart
  <2>3. worker' = "send" => HoumaoObject' = Whole(ObjectSpec)
    BY <2>1, <2>2 DEF TypeOK, Whole
  <2> QED
    BY <1>3, <2>1, <2>2, <2>3 DEF WritePart, Handover, Settled, Whole
<1>4. CASE RoundEnds
  BY <1>4, Untouched DEF RoundEnds
<1>5. CASE RoundPatches
  BY <1>5 DEF RoundPatches, Handover, Settled, Whole
<1>6. CASE NextRound
  BY <1>6, Untouched DEF NextRound
<1>7. CASE Receive
  BY <1>7 DEF Receive, Handover, Settled, Whole
<1>8. CASE CopyPart
  <2>1. PICK p \in Parts \ copied :
            /\ config' = [config EXCEPT ![p] = HoumaoObject[p]]
            /\ copied' = copied \cup {p}
            /\ loop' = IF copied' = Parts THEN "round" ELSE "copy"
    BY <1>8 DEF CopyPart
  <2>2. ASSUME worker = "idle", ObjectSpec # Nil
        PROVE  \A q \in copied' : config'[q] = ObjectSpec
    BY <1>8, <2>1, <2>2 DEF CopyPart, TypeOK, Handover, Whole
  <2>3. ASSUME worker = "idle", ObjectSpec # Nil, copied' = Parts
        PROVE  config' = Whole(ObjectSpec)
    BY <2>1, <2>2, <2>3 DEF TypeOK, Whole
  <2> QED
    BY <1>8, <2>1, <2>2, <2>3 DEF CopyPart, Handover, Settled, Whole
<1>9. CASE Done
  BY <1>9, Untouched DEF Done
<1>10. CASE EditHoumao
  BY <1>10, Untouched DEF EditHoumao
<1>11. ASSUME NEW k \in Houmaos, Deliver(k) PROVE Handover' /\ Settled'
  BY <1>11, Untouched DEF Deliver
<1>12. CASE Stop
  BY <1>12, Untouched DEF Stop
<1>13. CASE UNCHANGED vars
  BY <1>13, Untouched DEF vars
<1> QED
  BY <1>1, <1>2, <1>3, <1>4, <1>5, <1>6, <1>7, <1>8, <1>9, <1>10, <1>11, <1>12, <1>13
     DEF Next, Worker, Loop

(* Whenever worker and loop rest, the rounds use the spec handed over last:*)
(* no change is lost between the reconciler and the loop, and no torn copy *)
(* survives.                                                               *)
THEOREM NoChangeLost == Spec => []Settled
<1>1. Init => Handover /\ Settled
  BY DEF Init, Handover, Settled
<1>2. TypeOK /\ Handover /\ Settled /\ [Next]_vars => (Handover /\ Settled)'
  BY HandoverStep
<1> QED
  BY <1>1, <1>2, TypeCorrect, PTL DEF Spec
=============================================================================
