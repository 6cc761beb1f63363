----------------------------- MODULE ShifaProofs -----------------------------
(***************************************************************************)
(* Theorems about Shifa, for all resources, finalizers and bounds, and     *)
(* whichever finalizers others take off.                                   *)
(***************************************************************************)
EXTENDS Shifa, TLAPS

(* A record with one field changed, taken apart.                           *)
LEMMA FinalizersSet ==
    ASSUME NEW h \in Houmao, NEW f \in SUBSET Finalizers
    PROVE  LET g == [h EXCEPT !.finalizers = f]
           IN  g \in Houmao /\ g.finalizers = f /\ g.uid = h.uid /\ g.deleting = h.deleting
BY DEF Houmao

LEMMA LiangSet ==
    ASSUME NEW h \in Houmao, NEW l \in Liangs
    PROVE  LET g == [h EXCEPT !.liang = l]
           IN  /\ g \in Houmao
               /\ g.finalizers = h.finalizers /\ g.uid = h.uid /\ g.deleting = h.deleting
BY DEF Houmao

LEMMA PhaseSet ==
    ASSUME NEW h \in Houmao, NEW p \in Phases
    PROVE  LET g == [h EXCEPT !.phase = p]
           IN  /\ g \in Houmao
               /\ g.finalizers = h.finalizers /\ g.uid = h.uid /\ g.deleting = h.deleting
BY DEF Houmao

LEMMA DeletingSet ==
    ASSUME NEW h \in Houmao
    PROVE  LET g == [h EXCEPT !.deleting = TRUE]
           IN  g \in Houmao /\ g.finalizers = h.finalizers /\ g.uid = h.uid /\ g.deleting
BY DEF Houmao

LEMMA HoumaoFields ==
    ASSUME NEW h \in Houmao
    PROVE  /\ h.uid \in Nat /\ h.deleting \in BOOLEAN /\ h.finalizers \in SUBSET Finalizers
           /\ h.phase \in Phases /\ h.liang \in Liangs
BY DEF Houmao

LEMMA NewIsHoumao ==
    ASSUME NEW uid \in Nat, NEW f \in SUBSET Foreign, NEW l \in Liangs
    PROVE  LET h == NewHoumao(uid, f, l)
           IN  h \in Houmao /\ h.uid = uid /\ h.finalizers = f /\ h.deleting = FALSE
BY DEF Houmao, NewHoumao, Finalizers, Phases

LEMMA ResourcesSet ==
    ASSUME NEW d \in Deployment, NEW l \in Liangs
    PROVE  LET e == [d EXCEPT !.liang = l] IN e \in Deployment /\ e.hand = d.hand
BY DEF Deployment

LEMMA HandSet ==
    ASSUME NEW d \in Deployment
    PROVE  [d EXCEPT !.hand = ~@] \in Deployment
BY DEF Deployment

LEMMA OldHoumao ==
    ASSUME NEW c \in HoumaoCopy
    PROVE  Old(c) \in HoumaoCopy /\ Old(c).value = c.value /\ Old(c).fresh = FALSE
BY DEF HoumaoCopy, Old

LEMMA OldDeployment ==
    ASSUME NEW c \in DeploymentCopy
    PROVE  Old(c) \in DeploymentCopy /\ Old(c).value = c.value /\ Old(c).fresh = FALSE
BY DEF DeploymentCopy, Old

LEMMA Copies ==
    /\ \A h \in Houmao \cup {Nil} : Current(h) \in HoumaoCopy /\ Current(h).value = h
    /\ \A d \in Deployment \cup {Nil} : Current(d) \in DeploymentCopy /\ Current(d).value = d
    /\ \A c \in HoumaoCopy : c.value \in Houmao \cup {Nil} /\ c.fresh \in BOOLEAN
    /\ \A c \in DeploymentCopy : c.value \in Deployment \cup {Nil} /\ c.fresh \in BOOLEAN
    /\ NoCopy \in HoumaoCopy /\ NoCopy \in DeploymentCopy
    /\ NoCopy.value = Nil /\ NoCopy.fresh = FALSE
BY DEF HoumaoCopy, DeploymentCopy, Current, NoCopy

-----------------------------------------------------------------------------
(* Ways in which a step ends a reconciliation or a write of others.        *)
LEMMA OverType ==
    ASSUME TypeOK, Over
    PROVE  object' \in HoumaoCopy /\ object'.value = Nil /\ xianqiObj' \in DeploymentCopy
           /\ pc' = "idle" /\ object'.fresh = FALSE /\ xianqiObj'.fresh = FALSE
BY Copies DEF Over

LEMMA FailType ==
    ASSUME TypeOK, Fail, UNCHANGED <<server, caches>>
    PROVE  TypeOK'
BY OverType DEF TypeOK, Fail, server, caches

LEMMA BecomesType ==
    ASSUME TypeOK, Others, NEW h \in Houmao, HoumaoBecomes(h),
           lives' \in Nat, stripped' \in BOOLEAN
    PROVE  TypeOK'
<1>1. houmao' \in Houmao \cup {Nil}
  BY DEF HoumaoBecomes
<1>2. hcache' \in HoumaoCopy /\ object' \in HoumaoCopy /\ object'.value = object.value
  BY OldHoumao DEF HoumaoBecomes, TypeOK
<1> QED
  BY <1>1, <1>2 DEF HoumaoBecomes, Others, TypeOK

(* What users write is a Houmao of the same incarnation, with no finalizer *)
(* less, and not back from its deletion.                                   *)
LEMMA EditsAreHoumaos ==
    ASSUME TypeOK, EditHoumao
    PROVE  \E h \in Houmao : /\ HoumaoBecomes(h)
                             /\ h.uid = houmao.uid
                             /\ houmao.finalizers \subseteq h.finalizers
                             /\ houmao.deleting => h.deleting
<1>1. houmao \in Houmao
  BY DEF EditHoumao, TypeOK
<1>2. ASSUME NEW l \in Liangs, HoumaoBecomes([houmao EXCEPT !.liang = l])
      PROVE  \E h \in Houmao : /\ HoumaoBecomes(h) /\ h.uid = houmao.uid
                               /\ houmao.finalizers \subseteq h.finalizers
                               /\ houmao.deleting => h.deleting
  BY <1>1, <1>2, LiangSet
<1>3. ASSUME NEW p \in Phases, HoumaoBecomes([houmao EXCEPT !.phase = p])
      PROVE  \E h \in Houmao : /\ HoumaoBecomes(h) /\ h.uid = houmao.uid
                               /\ houmao.finalizers \subseteq h.finalizers
                               /\ houmao.deleting => h.deleting
  BY <1>1, <1>3, PhaseSet
<1>4. ASSUME HoumaoBecomes([houmao EXCEPT !.deleting = TRUE])
      PROVE  \E h \in Houmao : /\ HoumaoBecomes(h) /\ h.uid = houmao.uid
                               /\ houmao.finalizers \subseteq h.finalizers
                               /\ houmao.deleting => h.deleting
  BY <1>1, <1>4, DeletingSet
<1>5. ASSUME NEW f \in Foreign,
             HoumaoBecomes([houmao EXCEPT !.finalizers = houmao.finalizers \cup {f}])
      PROVE  \E h \in Houmao : /\ HoumaoBecomes(h) /\ h.uid = houmao.uid
                               /\ houmao.finalizers \subseteq h.finalizers
                               /\ houmao.deleting => h.deleting
  <2>1. houmao.finalizers \cup {f} \in SUBSET Finalizers
    BY <1>1, HoumaoFields DEF Finalizers
  <2> QED
    BY <1>1, <1>5, <2>1, FinalizersSet
<1> QED
  BY <1>2, <1>3, <1>4, <1>5 DEF EditHoumao

LEMMA StoreType ==
    ASSUME TypeOK, NEW d \in Deployment, Store(d), NEW answered \in BOOLEAN, Answer(answered),
           object.value # Nil
    PROVE  TypeOK'
<1>1. xcache' \in DeploymentCopy
  BY OldDeployment DEF Store, TypeOK
<1>2. madeFor' \in Nat
  BY Copies, HoumaoFields DEF Store, TypeOK
<1>3. CASE answered
  <2>1. pc' = "status" /\ xianqiObj' = NoCopy /\ UNCHANGED <<pending, object>>
    BY <1>3 DEF Answer
  <2> QED
    BY <1>1, <1>2, <2>1, Copies DEF Store, TypeOK, Calls
<1>4. CASE ~answered
  <2>1. Over /\ pending' = TRUE
    BY <1>4 DEF Answer, Fail
  <2> QED
    BY <1>1, <1>2, <2>1, OverType DEF Store, TypeOK
<1> QED
  BY <1>3, <1>4

LEMMA TypeStep ==
    ASSUME TypeOK, [Next]_vars
    PROVE  TypeOK'
<1>1. CASE Begin
  <2>1. object' = hcache /\ hcache.value \in Houmao \cup {Nil}
    BY <1>1, Copies DEF Begin, TypeOK
  <2>2. pc' \in {"destroy", "finalizers", "xianqi"} /\ (pc' # "destroy" => hcache.value # Nil)
    BY <1>1 DEF Begin, Alive
  <2> QED
    BY <1>1, <2>1, <2>2 DEF Begin, TypeOK, server, caches, Calls
<1>2. ASSUME NEW answered \in BOOLEAN, AddFinalizers(answered) PROVE TypeOK'
  <2>1. object.value \in Houmao
    BY <1>2, Copies DEF AddFinalizers, TypeOK
  <2>2. houmao' \in Houmao
    <3>1. {Own} \in SUBSET Finalizers
      BY DEF Finalizers
    <3>2. houmao' = [object.value EXCEPT !.finalizers = {Own}]
      BY <1>2 DEF AddFinalizers
    <3> QED
      BY <2>1, <3>1, <3>2, FinalizersSet
  <2>3. hcache' \in HoumaoCopy
    BY <1>2, OldHoumao DEF AddFinalizers, TypeOK
  <2>4. Current(houmao') \in HoumaoCopy /\ Current(houmao').value = houmao'
    BY <2>2, Copies
  <2>5. CASE answered
    <3>1. pc' = "xianqi" /\ object' = Current(houmao') /\ UNCHANGED <<pending, xianqiObj>>
      BY <1>2, <2>5 DEF AddFinalizers
    <3> QED
      BY <1>2, <2>2, <2>3, <2>4, <3>1, NilAssumption DEF AddFinalizers, TypeOK
  <2>6. CASE ~answered
    <3>1. Over /\ pending' = TRUE
      BY <1>2, <2>6 DEF AddFinalizers, Fail
    <3> QED
      BY <1>2, <2>2, <2>3, <3>1, OverType DEF AddFinalizers, TypeOK
  <2> QED
    BY <2>5, <2>6
<1>3. ASSUME NEW answered \in BOOLEAN, CreateXianqi(answered) PROVE TypeOK'
  <2>1. object.value # Nil /\ object.value \in Houmao
    BY <1>3, Copies DEF CreateXianqi, TypeOK
  <2>2. [liang |-> object.value.liang, hand |-> FALSE] \in Deployment
    BY <2>1, HoumaoFields DEF Deployment
  <2> QED
    BY <1>3, <2>1, <2>2, StoreType DEF CreateXianqi
<1>4. ASSUME NEW answered \in BOOLEAN, UpdateXianqi(answered) PROVE TypeOK'
  <2>1. object.value # Nil /\ object.value \in Houmao /\ xianqiObj.value \in Deployment
    BY <1>4, Copies DEF UpdateXianqi, TypeOK
  <2>2. [xianqiObj.value EXCEPT !.liang = object.value.liang] \in Deployment
    BY <2>1, HoumaoFields, ResourcesSet
  <2> QED
    BY <1>4, <2>1, <2>2, StoreType DEF UpdateXianqi
<1>5. ASSUME NEW answered \in BOOLEAN, DeleteXianqi(answered) PROVE TypeOK'
  <2>1. xcache' \in DeploymentCopy
    BY <1>5, OldDeployment DEF DeleteXianqi, TypeOK
  <2>2. \/ Over /\ pending' \in BOOLEAN
        \/ pc' = "destroying" /\ UNCHANGED <<pending, object, xianqiObj>>
    BY <1>5 DEF DeleteXianqi, Destroyed, Done, Fail, TypeOK
  <2> QED
    BY <1>5, <2>1, <2>2, OverType DEF DeleteXianqi, TypeOK
<1>6. CASE GetXianqi
  <2>1. xcache.value = Nil \/ pc' = "update"
    BY <1>6 DEF GetXianqi
  <2>2. pc' \in {"create", "update"} /\ (pc' = "update" => xcache.value # Nil)
    BY <1>6 DEF GetXianqi
  <2> QED
    BY <1>6, <2>2 DEF GetXianqi, TypeOK, server, caches, Calls
<1>7. CASE GetDoomed
  <2>1. \/ Over /\ UNCHANGED pending
        \/ pc' \in {"destroying", "delete"} /\ UNCHANGED <<pending, object, xianqiObj>>
    BY <1>7 DEF GetDoomed, Destroyed, Done
  <2> QED
    BY <1>7, <2>1, OverType DEF GetDoomed, TypeOK, server, caches, Calls
<1>8. CASE CallFails
  BY <1>8, FailType DEF CallFails
<1>9. CASE PatchRefused
  BY <1>9, FailType DEF PatchRefused
<1>10. CASE Reconciled
  BY <1>10, OverType DEF Reconciled, Done, TypeOK, server, caches
<1>11. CASE Deliver
  BY <1>11, Copies DEF Deliver, TypeOK, server
<1>12. CASE SyncXianqi
  BY <1>12, Copies DEF SyncXianqi, TypeOK, server
<1>13. CASE Restart
  <2>1. pending' \in BOOLEAN
    BY <1>13 DEF Restart
  <2>2. hcache' \in HoumaoCopy /\ xcache' \in DeploymentCopy
    BY <1>13, Copies DEF Restart, TypeOK
  <2>3. edits' \in Nat /\ UNCHANGED <<houmao, lives, stripped, xianqi, madeFor>> /\ Over
    BY <1>13 DEF Restart, TypeOK
  <2> QED
    BY <2>1, <2>2, <2>3, OverType DEF TypeOK
<1>14. CASE EditHoumao
  <2>1. houmao \in Houmao
    BY <1>14 DEF EditHoumao, TypeOK
  <2>2. PICK h \in Houmao : HoumaoBecomes(h)
    BY <1>14, <2>1, EditsAreHoumaos
  <2> QED
    BY <1>14, <2>2, BecomesType DEF EditHoumao, TypeOK
<1>15. CASE StripHoumao
  <2>1. houmao \in Houmao
    BY <1>15 DEF StripHoumao, TypeOK
  <2>2. PICK f \in Removable \cap houmao.finalizers :
               HoumaoBecomes([houmao EXCEPT !.finalizers = @ \ {f}])
    BY <1>15 DEF StripHoumao
  <2>3. houmao.finalizers \ {f} \in SUBSET Finalizers
    BY <2>1, HoumaoFields
  <2>4. [houmao EXCEPT !.finalizers = houmao.finalizers \ {f}] \in Houmao
    BY <2>1, <2>3, FinalizersSet
  <2> QED
    BY <1>15, <2>2, <2>4, BecomesType DEF StripHoumao, TypeOK
<1>16. CASE CreateHoumao
  <2>1. PICK f \in SUBSET Foreign : \E l \in Liangs : HoumaoBecomes(NewHoumao(lives', f, l))
    BY <1>16 DEF CreateHoumao
  <2>2. PICK l \in Liangs : HoumaoBecomes(NewHoumao(lives', f, l))
    BY <2>1
  <2>3. lives \in Nat /\ lives' = lives + 1 /\ stripped' = FALSE
    BY <1>16 DEF CreateHoumao, TypeOK
  <2>4. lives' \in Nat
    BY <2>3
  <2>5. NewHoumao(lives', f, l) \in Houmao
    BY <2>4, NewIsHoumao
  <2> QED
    BY <1>16, <2>2, <2>3, <2>4, <2>5, BecomesType DEF CreateHoumao
<1>17. CASE EditXianqi
  <2>1. xianqi \in Deployment
    BY <1>17 DEF EditXianqi, TypeOK
  <2>2. PICK d \in Deployment \cup {Nil} : XianqiBecomes(d)
    BY <1>17, <2>1, HandSet DEF EditXianqi
  <2>3. xcache' \in DeploymentCopy /\ xianqiObj' \in DeploymentCopy /\ xianqiObj'.value = xianqiObj.value
    BY <2>2, OldDeployment DEF XianqiBecomes, TypeOK
  <2> QED
    BY <1>17, <2>2, <2>3 DEF EditXianqi, Others, XianqiBecomes, TypeOK
<1>18. CASE UNCHANGED vars
  BY <1>18 DEF vars, TypeOK
<1> QED
  BY <1>1, <1>2, <1>3, <1>4, <1>5, <1>6, <1>7, <1>8, <1>9, <1>10, <1>11, <1>12, <1>13, <1>14,
     <1>15, <1>16, <1>17, <1>18 DEF Next, Shifa, Environment

LEMMA TypeInit == Init => TypeOK
<1> SUFFICES ASSUME Init PROVE TypeOK
  OBVIOUS
<1>1. houmao \in Houmao
  <2>1. PICK f \in SUBSET Foreign : \E l \in Liangs : houmao = NewHoumao(1, f, l)
    BY DEF Init
  <2>2. PICK l \in Liangs : houmao = NewHoumao(1, f, l)
    BY <2>1
  <2>3. 1 \in Nat
    OBVIOUS
  <2>4. NewHoumao(1, f, l) \in Houmao
    BY <2>3, NewIsHoumao
  <2> QED
    BY <2>2, <2>4
<1>2. hcache \in HoumaoCopy /\ xcache \in DeploymentCopy
  BY <1>1, Copies DEF Init
<1>3. object \in HoumaoCopy /\ xianqiObj \in DeploymentCopy
  BY Copies DEF Init
<1> QED
  BY <1>1, <1>2, <1>3 DEF Init, TypeOK

(* Every variable of the process, its caches and the API server keeps its  *)
(* type, and no call is made with an object that was not found.            *)
THEOREM TypeCorrect == Spec => []TypeOK
<1>1. TypeOK /\ [Next]_vars => TypeOK'
  BY TypeStep
<1> QED
  BY <1>1, TypeInit, PTL DEF Spec

-----------------------------------------------------------------------------
(* What makes the properties inductive.  A copy that is fresh is true, and *)
(* finalizers are only added to a list that was empty.                     *)
CopiesTrue ==
    /\ hcache.fresh => hcache.value = houmao
    /\ object.fresh => object.value = houmao
    /\ xcache.fresh => xcache.value = xianqi
    /\ xianqiObj.fresh => xianqiObj.value = xianqi /\ pc \in {"create", "update"}
    /\ pc = "finalizers" => Alive(object.value) /\ object.value.finalizers = {}

(* Copies and xianqi are of this or of an earlier incarnation.             *)
Incarnations ==
    /\ houmao # Nil => houmao.uid = lives
    /\ hcache.value # Nil => hcache.value.uid <= lives
    /\ object.value # Nil => object.value.uid <= lives
    /\ madeFor <= lives

(* Whoever saw a finalizer on this incarnation, or worked for it since, can*)
(* rely on one.                                                            *)
Held(uid) == houmao # Nil /\ houmao.uid = uid => houmao.finalizers # {} \/ stripped
Creating  == {"xianqi", "create", "update"}
GuardKept ==
    /\ hcache.value # Nil /\ hcache.value.finalizers # {} => Held(hcache.value.uid)
    /\ pc \in Creating => Held(object.value.uid)
    /\ Held(madeFor)

(* A cache that shows no live Houmao is behind the one that is alive: no   *)
(* xianqi was made for that one, and none is being made.                   *)
Unserved(uid) == Alive(houmao) => uid # houmao.uid
DoomKept ==
    /\ ~Alive(hcache.value) =>
         Unserved(madeFor) /\ (pc \in Creating \cup {"finalizers"} => Unserved(object.value.uid))
    /\ pc \in {"destroy", "delete"} => Unserved(madeFor)

(* What a step of others that writes the Houmao leaves alone.              *)
LEMMA BecomesEffect ==
    ASSUME TypeOK, Others, NEW h \in Houmao, HoumaoBecomes(h)
    PROVE  /\ houmao' = Nil \/ houmao' = h
           /\ hcache'.value = hcache.value /\ hcache'.fresh = FALSE
           /\ object'.value = object.value /\ object'.fresh = FALSE
           /\ UNCHANGED <<xianqi, xcache, xianqiObj, pc, madeFor>>
BY OldHoumao DEF HoumaoBecomes, Others, TypeOK

(* Every step of others on the Houmao is of this kind: with a Houmao of the*)
(* same incarnation, which keeps its finalizers or is marked as stripped,  *)
(* or with a new one.                                                      *)
Changed(h) ==
    /\ houmao # Nil
    /\ h.uid = houmao.uid
    /\ houmao.deleting => h.deleting
    /\ lives' = lives
    /\ \/ houmao.finalizers \subseteq h.finalizers /\ stripped' = stripped
       \/ stripped' = TRUE
Created(h) ==
    /\ houmao = Nil
    /\ lives' = lives + 1
    /\ h.uid = lives + 1

LEMMA OthersEffect ==
    ASSUME TypeOK, EditHoumao \/ StripHoumao \/ CreateHoumao
    PROVE  Others /\ \E h \in Houmao : HoumaoBecomes(h) /\ (Changed(h) \/ Created(h))
<1>1. CASE EditHoumao
  <2>1. PICK h \in Houmao : /\ HoumaoBecomes(h)
                            /\ h.uid = houmao.uid
                            /\ houmao.finalizers \subseteq h.finalizers
                            /\ houmao.deleting => h.deleting
    BY <1>1, EditsAreHoumaos
  <2>2. Others /\ houmao # Nil /\ UNCHANGED <<lives, stripped>>
    BY <1>1 DEF EditHoumao
  <2> QED
    BY <2>1, <2>2 DEF Changed
<1>2. CASE StripHoumao
  <2>1. Others /\ houmao # Nil /\ houmao \in Houmao /\ lives' = lives /\ stripped' = TRUE
    BY <1>2 DEF StripHoumao, TypeOK
  <2>2. PICK f \in Removable \cap houmao.finalizers :
               HoumaoBecomes([houmao EXCEPT !.finalizers = @ \ {f}])
    BY <1>2 DEF StripHoumao
  <2>3. houmao.finalizers \ {f} \in SUBSET Finalizers
    BY <2>1, HoumaoFields
  <2> DEFINE h == [houmao EXCEPT !.finalizers = houmao.finalizers \ {f}]
  <2>4. h \in Houmao /\ h.uid = houmao.uid /\ h.deleting = houmao.deleting
    BY <2>1, <2>3, FinalizersSet
  <2>5. HoumaoBecomes(h)
    BY <2>2
  <2> HIDE DEF h
  <2> QED
    BY <2>1, <2>4, <2>5 DEF Changed
<1>3. CASE CreateHoumao
  <2>1. Others /\ houmao = Nil /\ lives \in Nat /\ lives' = lives + 1
    BY <1>3 DEF CreateHoumao, TypeOK
  <2>2. PICK f \in SUBSET Foreign : \E l \in Liangs : HoumaoBecomes(NewHoumao(lives', f, l))
    BY <1>3 DEF CreateHoumao
  <2>3. PICK l \in Liangs : HoumaoBecomes(NewHoumao(lives', f, l))
    BY <2>2
  <2>4. lives' \in Nat
    BY <2>1
  <2> DEFINE h == NewHoumao(lives', f, l)
  <2>5. h \in Houmao /\ h.uid = lives'
    BY <2>4, NewIsHoumao
  <2> HIDE DEF h
  <2> QED
    BY <2>1, <2>3, <2>5 DEF Created, h
<1> QED
  BY <1>1, <1>2, <1>3

(* What the write of the finalizers does: the copy was the Houmao itself.  *)
LEMMA AddEffect ==
    ASSUME TypeOK, CopiesTrue, NEW answered \in BOOLEAN, AddFinalizers(answered)
    PROVE  /\ object.value = houmao /\ houmao \in Houmao /\ Alive(houmao)
           /\ houmao.finalizers = {}
           /\ houmao' = [houmao EXCEPT !.finalizers = {Own}]
           /\ houmao' \in Houmao /\ houmao'.uid = houmao.uid
           /\ houmao'.deleting = houmao.deleting /\ houmao'.finalizers = {Own}
           /\ hcache'.value = hcache.value /\ hcache'.fresh = FALSE
           /\ \/ pc' = "xianqi" /\ object'.value = houmao' /\ xianqiObj' = xianqiObj
              \/ Over
           /\ UNCHANGED <<lives, stripped, xianqi, xcache, madeFor>>
<1>1. object.value = houmao /\ Alive(houmao) /\ houmao.finalizers = {}
  BY DEF AddFinalizers, CopiesTrue
<1>2. houmao \in Houmao
  BY <1>1 DEF TypeOK, Alive
<1>3. {Own} \in SUBSET Finalizers
  BY DEF Finalizers
<1>4. houmao' = [houmao EXCEPT !.finalizers = {Own}]
  BY <1>1 DEF AddFinalizers
<1>5. houmao' \in Houmao /\ houmao'.uid = houmao.uid
      /\ houmao'.deleting = houmao.deleting /\ houmao'.finalizers = {Own}
  BY <1>2, <1>3, <1>4, FinalizersSet
<1>6. hcache'.value = hcache.value /\ hcache'.fresh = FALSE
  BY OldHoumao DEF AddFinalizers, TypeOK
<1>7. \/ pc' = "xianqi" /\ object'.value = houmao' /\ xianqiObj' = xianqiObj
      \/ Over
  BY <1>5, Copies DEF AddFinalizers, Fail
<1>8. UNCHANGED <<lives, stripped, xianqi, xcache, madeFor>>
  BY DEF AddFinalizers
<1> QED
  BY <1>1, <1>2, <1>4, <1>5, <1>6, <1>7, <1>8

(* What the write of a Deployment does.                                    *)
LEMMA StoreEffect ==
    ASSUME TypeOK, NEW d, Store(d), NEW answered \in BOOLEAN, Answer(answered)
    PROVE  /\ madeFor' = object.value.uid
           /\ xcache'.fresh = FALSE
           /\ xianqiObj'.fresh = FALSE
           /\ UNCHANGED <<houmao, hcache, lives, stripped>>
           /\ (pc' = "status" /\ object' = object) \/ Over
<1>1. xcache'.fresh = FALSE
  BY OldDeployment DEF Store, TypeOK
<1>2. (pc' = "status" /\ object' = object /\ xianqiObj'.fresh = FALSE) \/ Over
  BY Copies DEF Answer, Fail
<1> QED
  BY <1>1, <1>2, OverType DEF Store

-----------------------------------------------------------------------------
LEMMA CopiesStep ==
    ASSUME TypeOK, CopiesTrue, [Next]_vars
    PROVE  CopiesTrue'
<1> USE DEF server, caches
<1>1. CASE Begin
  BY <1>1 DEF Begin, CopiesTrue
<1>2. ASSUME NEW answered \in BOOLEAN, AddFinalizers(answered) PROVE CopiesTrue'
  <2>1. \/ pc' = "xianqi" /\ object'.value = houmao' /\ xianqiObj' = xianqiObj
        \/ Over
    BY <1>2, AddEffect
  <2>2. hcache'.fresh = FALSE /\ UNCHANGED <<xianqi, xcache>> /\ pc = "finalizers"
    BY <1>2, AddEffect DEF AddFinalizers
  <2> QED
    BY <2>1, <2>2, OverType DEF CopiesTrue
<1>3. ASSUME NEW answered \in BOOLEAN, CreateXianqi(answered) PROVE CopiesTrue'
  BY <1>3, StoreEffect, OverType DEF CreateXianqi, CopiesTrue
<1>4. ASSUME NEW answered \in BOOLEAN, UpdateXianqi(answered) PROVE CopiesTrue'
  BY <1>4, StoreEffect, OverType DEF UpdateXianqi, CopiesTrue
<1>5. ASSUME NEW answered \in BOOLEAN, DeleteXianqi(answered) PROVE CopiesTrue'
  <2>1. xcache'.fresh = FALSE
    BY <1>5, OldDeployment DEF DeleteXianqi, TypeOK
  <2>2. \/ Over
        \/ pc' = "destroying" /\ UNCHANGED <<object, xianqiObj>>
    BY <1>5 DEF DeleteXianqi, Destroyed, Done, Fail
  <2> QED
    BY <1>5, <2>1, <2>2, OverType DEF DeleteXianqi, CopiesTrue
<1>6. CASE GetXianqi
  BY <1>6 DEF GetXianqi, CopiesTrue
<1>7. CASE GetDoomed
  <2>1. \/ Over
        \/ pc' \in {"destroying", "delete"} /\ UNCHANGED <<object, xianqiObj>>
    BY <1>7 DEF GetDoomed, Destroyed, Done
  <2> QED
    BY <1>7, <2>1, OverType DEF GetDoomed, CopiesTrue
<1>8. CASE CallFails \/ PatchRefused \/ Reconciled
  <2>1. Over /\ UNCHANGED <<server, caches>>
    BY <1>8 DEF CallFails, PatchRefused, Reconciled, Fail, Done
  <2> QED
    BY <2>1, OverType DEF CopiesTrue
<1>9. CASE Deliver
  BY <1>9, Copies DEF Deliver, CopiesTrue, TypeOK
<1>10. CASE SyncXianqi
  BY <1>10, Copies DEF SyncXianqi, CopiesTrue, TypeOK
<1>11. CASE Restart
  BY <1>11, Copies, OverType DEF Restart, CopiesTrue, TypeOK
<1>12. CASE EditHoumao \/ StripHoumao \/ CreateHoumao
  <2>1. PICK h \in Houmao : HoumaoBecomes(h)
    BY <1>12, OthersEffect
  <2> QED
    BY <1>12, <2>1, OthersEffect, BecomesEffect DEF CopiesTrue
<1>13. CASE EditXianqi
  <2>1. PICK d \in Deployment \cup {Nil} : XianqiBecomes(d)
    BY <1>13, HandSet DEF EditXianqi, TypeOK
  <2>2. xcache'.fresh = FALSE /\ xianqiObj'.fresh = FALSE
    BY <2>1, OldDeployment DEF XianqiBecomes, TypeOK
  <2> QED
    BY <1>13, <2>1, <2>2 DEF EditXianqi, Others, XianqiBecomes, CopiesTrue
<1>14. CASE UNCHANGED vars
  BY <1>14 DEF vars, CopiesTrue
<1> QED
  BY <1>1, <1>2, <1>3, <1>4, <1>5, <1>6, <1>7, <1>8, <1>9, <1>10, <1>11, <1>12, <1>13, <1>14
     DEF Next, Shifa, Environment

-----------------------------------------------------------------------------
(* The steps that write neither the Houmao nor for it: the reconciliation  *)
(* goes on, or ends.                                                       *)
Quiet ==
    /\ UNCHANGED <<houmao, hcache, lives, stripped, madeFor>>
    /\ \/ pc' = "idle" /\ object'.value = Nil
       \/ /\ object'.value = object.value
          /\ \/ pc' = pc
             \/ pc = "xianqi" /\ pc' \in {"create", "update"}
             \/ pc = "destroy" /\ pc' = "delete"
             \/ pc' = "destroying"

QuietSteps ==
    \/ \E answered \in BOOLEAN : DeleteXianqi(answered)
    \/ GetXianqi \/ GetDoomed \/ CallFails \/ PatchRefused \/ Reconciled
    \/ SyncXianqi \/ EditXianqi \/ UNCHANGED vars

LEMMA QuietEffect ==
    ASSUME TypeOK, QuietSteps
    PROVE  Quiet
<1> USE DEF server, caches
<1>1. ASSUME NEW answered \in BOOLEAN, DeleteXianqi(answered) PROVE Quiet
  <2>1. \/ Over
        \/ pc' = "destroying" /\ UNCHANGED <<object, xianqiObj>>
    BY <1>1 DEF DeleteXianqi, Destroyed, Done, Fail
  <2> QED
    BY <1>1, <2>1, OverType DEF DeleteXianqi, Quiet
<1>2. CASE GetXianqi
  BY <1>2 DEF GetXianqi, Quiet
<1>3. CASE GetDoomed
  <2>1. \/ Over
        \/ pc' \in {"destroying", "delete"} /\ UNCHANGED <<object, xianqiObj>>
    BY <1>3 DEF GetDoomed, Destroyed, Done
  <2>2. pc = "destroy" /\ UNCHANGED <<houmao, hcache, lives, stripped, madeFor>>
    BY <1>3 DEF GetDoomed
  <2> QED
    BY <2>1, <2>2, OverType DEF Quiet
<1>4. CASE CallFails \/ PatchRefused \/ Reconciled
  <2>1. Over /\ UNCHANGED <<server, caches>>
    BY <1>4 DEF CallFails, PatchRefused, Reconciled, Fail, Done
  <2> QED
    BY <2>1, OverType DEF Quiet
<1>5. CASE SyncXianqi
  BY <1>5 DEF SyncXianqi, Quiet
<1>6. CASE EditXianqi
  <2>1. UNCHANGED <<houmao, hcache, lives, stripped, madeFor, object, pc>>
    BY <1>6 DEF EditXianqi, Others, XianqiBecomes
  <2> QED
    BY <2>1 DEF Quiet
<1>7. CASE UNCHANGED vars
  BY <1>7 DEF vars, Quiet
<1> QED
  BY <1>1, <1>2, <1>3, <1>4, <1>5, <1>6, <1>7 DEF QuietSteps

LEMMA StoreSteps ==
    ASSUME TypeOK, NEW answered \in BOOLEAN, CreateXianqi(answered) \/ UpdateXianqi(answered)
    PROVE  /\ pc \in {"create", "update"} /\ object.value \in Houmao
           /\ madeFor' = object.value.uid
           /\ UNCHANGED <<houmao, hcache, lives, stripped>>
           /\ \/ pc' = "status" /\ object' = object
              \/ pc' = "idle" /\ object'.value = Nil
<1>1. PICK d : Store(d) /\ Answer(answered)
  BY DEF CreateXianqi, UpdateXianqi
<1>2. pc \in {"create", "update"} /\ object.value \in Houmao
  BY Copies DEF CreateXianqi, UpdateXianqi, TypeOK
<1> QED
  BY <1>1, <1>2, StoreEffect, OverType

LEMMA Cases ==
    ASSUME [Next]_vars
    PROVE  \/ QuietSteps
           \/ Begin
           \/ \E answered \in BOOLEAN : AddFinalizers(answered)
           \/ \E answered \in BOOLEAN : CreateXianqi(answered) \/ UpdateXianqi(answered)
           \/ Deliver \/ Restart
           \/ EditHoumao \/ StripHoumao \/ CreateHoumao
BY DEF Next, Shifa, Environment, QuietSteps

LEMMA IncarnationsStep ==
    ASSUME TypeOK, CopiesTrue, Incarnations, [Next]_vars
    PROVE  Incarnations'
<1> USE DEF server, caches
<1>1. CASE QuietSteps
  BY <1>1, QuietEffect DEF Quiet, Incarnations
<1>2. CASE Begin
  BY <1>2 DEF Begin, Incarnations
<1>3. ASSUME NEW answered \in BOOLEAN, AddFinalizers(answered) PROVE Incarnations'
  <2>1. object'.value \in {houmao', Nil}
    BY <1>3, AddEffect, OverType
  <2>2. houmao # Nil /\ houmao'.uid = houmao.uid /\ hcache'.value = hcache.value
        /\ UNCHANGED <<lives, madeFor>>
    BY <1>3, AddEffect DEF Alive
  <2>3. lives \in Nat
    BY DEF TypeOK
  <2> QED
    BY <2>1, <2>2, <2>3 DEF Incarnations
<1>4. ASSUME NEW answered \in BOOLEAN, CreateXianqi(answered) \/ UpdateXianqi(answered)
      PROVE  Incarnations'
  BY <1>4, StoreSteps, NilAssumption DEF Incarnations
<1>5. CASE Deliver
  BY <1>5, Copies, HoumaoFields DEF Deliver, Incarnations, TypeOK
<1>6. CASE Restart
  <2>1. hcache'.value = houmao /\ object'.value = Nil /\ UNCHANGED <<houmao, lives, madeFor>>
    BY <1>6, Copies, OverType DEF Restart, TypeOK
  <2>2. lives \in Nat
    BY DEF TypeOK
  <2> QED
    BY <2>1, <2>2 DEF Incarnations
<1>7. CASE EditHoumao \/ StripHoumao \/ CreateHoumao
  <2>1. PICK h \in Houmao : HoumaoBecomes(h) /\ (Changed(h) \/ Created(h))
    BY <1>7, OthersEffect
  <2>2. /\ houmao' = Nil \/ houmao' = h
        /\ hcache'.value = hcache.value
        /\ object'.value = object.value
        /\ madeFor' = madeFor
    BY <1>7, <2>1, OthersEffect, BecomesEffect
  <2>3. lives \in Nat /\ lives <= lives' /\ h.uid = lives'
    BY <2>1 DEF Changed, Created, Incarnations, TypeOK
  <2>4. /\ hcache.value # Nil => hcache.value.uid \in Nat
        /\ object.value # Nil => object.value.uid \in Nat
        /\ madeFor \in Nat /\ lives' \in Nat
    BY <2>1, Copies, HoumaoFields DEF TypeOK, Changed, Created
  <2> QED
    BY <2>2, <2>3, <2>4 DEF Incarnations
<1> QED
  BY <1>1, <1>2, <1>3, <1>4, <1>5, <1>6, <1>7, Cases

LEMMA GuardStep ==
    ASSUME TypeOK, CopiesTrue, Incarnations, GuardKept, [Next]_vars
    PROVE  GuardKept'
<1> USE DEF server, caches
<1>1. CASE QuietSteps
  BY <1>1, QuietEffect DEF Quiet, GuardKept, Held, Creating
<1>2. CASE Begin
  <2>1. UNCHANGED <<houmao, hcache, stripped, madeFor>> /\ object' = hcache
    BY <1>2 DEF Begin
  <2>2. pc' \in Creating => hcache.value # Nil /\ hcache.value.finalizers # {}
    BY <1>2 DEF Begin, Creating, Alive
  <2> QED
    BY <2>1, <2>2 DEF GuardKept, Held
<1>3. ASSUME NEW answered \in BOOLEAN, AddFinalizers(answered) PROVE GuardKept'
  <2>1. houmao'.finalizers # {}
    BY <1>3, AddEffect
  <2> QED
    BY <2>1 DEF GuardKept, Held
<1>4. ASSUME NEW answered \in BOOLEAN, CreateXianqi(answered) \/ UpdateXianqi(answered)
      PROVE  GuardKept'
  <2>1. /\ pc \in Creating
        /\ madeFor' = object.value.uid
        /\ UNCHANGED <<houmao, hcache, stripped>>
        /\ pc' \notin Creating
    BY <1>4, StoreSteps DEF Creating
  <2> QED
    BY <2>1 DEF GuardKept, Held
<1>5. CASE Deliver
  <2>1. hcache'.value = houmao /\ UNCHANGED <<houmao, stripped, madeFor, pc, object>>
    BY <1>5, Copies DEF Deliver, TypeOK
  <2> QED
    BY <2>1 DEF GuardKept, Held
<1>6. CASE Restart
  <2>1. hcache'.value = houmao /\ pc' = "idle" /\ UNCHANGED <<houmao, stripped, madeFor>>
    BY <1>6, Copies, OverType DEF Restart, TypeOK
  <2> QED
    BY <2>1 DEF GuardKept, Held, Creating
<1>7. CASE EditHoumao \/ StripHoumao \/ CreateHoumao
  <2>1. PICK h \in Houmao : HoumaoBecomes(h) /\ (Changed(h) \/ Created(h))
    BY <1>7, OthersEffect
  <2>2. /\ houmao' = Nil \/ houmao' = h
        /\ hcache'.value = hcache.value
        /\ object'.value = object.value
        /\ UNCHANGED <<madeFor, pc>>
    BY <1>7, <2>1, OthersEffect, BecomesEffect
  <2>3. CASE Changed(h)
    <3>1. ASSUME NEW uid, Held(uid) PROVE Held(uid)'
      <4>1. SUFFICES ASSUME houmao' # Nil, houmao'.uid = uid
                     PROVE  houmao'.finalizers # {} \/ stripped'
        BY DEF Held
      <4>2. houmao' = h /\ houmao # Nil /\ houmao.uid = uid
        BY <2>2, <2>3, <4>1 DEF Changed
      <4> QED
        BY <2>3, <3>1, <4>2 DEF Changed, Held
    <3> QED
      BY <2>2, <3>1 DEF GuardKept
  <2>4. CASE Created(h)
    <3>1. lives \in Nat /\ h.uid = lives + 1
      BY <2>4 DEF Created, TypeOK
    <3>2. ASSUME NEW uid \in Nat, uid <= lives PROVE Held(uid)'
      BY <2>2, <3>1, <3>2 DEF Held
    <3>3. /\ hcache.value # Nil => hcache.value.uid \in Nat
          /\ object.value # Nil => object.value.uid \in Nat
          /\ madeFor \in Nat
      BY Copies, HoumaoFields DEF TypeOK
    <3>4. pc \in Creating => object.value # Nil
      BY DEF TypeOK, Creating
    <3>5. /\ hcache.value # Nil => Held(hcache.value.uid)'
          /\ object.value # Nil => Held(object.value.uid)'
          /\ Held(madeFor)'
      BY <2>2, <3>2, <3>3 DEF Incarnations
    <3> QED
      BY <2>2, <3>4, <3>5 DEF GuardKept
  <2> QED
    BY <2>1, <2>3, <2>4
<1> QED
  BY <1>1, <1>2, <1>3, <1>4, <1>5, <1>6, <1>7, Cases

LEMMA DoomStep ==
    ASSUME TypeOK, CopiesTrue, Incarnations, DoomKept, [Next]_vars
    PROVE  DoomKept'
<1> USE DEF server, caches
<1>1. CASE QuietSteps
  BY <1>1, QuietEffect DEF Quiet, DoomKept, Unserved, Creating
<1>2. CASE Begin
  <2>1. UNCHANGED <<houmao, hcache, madeFor>> /\ object' = hcache
    BY <1>2 DEF Begin
  <2>2. IF Alive(hcache.value) THEN pc' \in {"finalizers", "xianqi"} ELSE pc' = "destroy"
    BY <1>2 DEF Begin
  <2> QED
    BY <2>1, <2>2 DEF DoomKept, Unserved, Creating
<1>3. ASSUME NEW answered \in BOOLEAN, AddFinalizers(answered) PROVE DoomKept'
  <2>1. /\ object.value = houmao /\ pc = "finalizers"
        /\ Alive(houmao)
        /\ UNCHANGED madeFor /\ hcache'.value = hcache.value
        /\ pc' = "xianqi" \/ pc' = "idle"
    BY <1>3, AddEffect, OverType DEF AddFinalizers
  <2>2. Alive(hcache.value)
    BY <2>1 DEF DoomKept, Unserved
  <2> QED
    BY <2>1, <2>2 DEF DoomKept, Creating
<1>4. ASSUME NEW answered \in BOOLEAN, CreateXianqi(answered) \/ UpdateXianqi(answered)
      PROVE  DoomKept'
  <2>1. /\ pc \in Creating
        /\ madeFor' = object.value.uid
        /\ UNCHANGED <<houmao, hcache>>
        /\ pc' \in {"status", "idle"}
    BY <1>4, StoreSteps DEF Creating
  <2> QED
    BY <2>1 DEF DoomKept, Unserved, Creating
<1>5. CASE Deliver
  <2>1. hcache'.value = houmao /\ UNCHANGED <<houmao, madeFor, pc, object>>
    BY <1>5, Copies DEF Deliver, TypeOK
  <2> QED
    BY <2>1 DEF DoomKept, Unserved
<1>6. CASE Restart
  <2>1. hcache'.value = houmao /\ pc' = "idle" /\ UNCHANGED <<houmao, madeFor>>
    BY <1>6, Copies, OverType DEF Restart, TypeOK
  <2> QED
    BY <2>1 DEF DoomKept, Unserved
<1>7. CASE EditHoumao \/ StripHoumao \/ CreateHoumao
  <2>1. PICK h \in Houmao : HoumaoBecomes(h) /\ (Changed(h) \/ Created(h))
    BY <1>7, OthersEffect
  <2>2. /\ houmao' = Nil \/ houmao' = h
        /\ hcache'.value = hcache.value
        /\ object'.value = object.value
        /\ UNCHANGED <<madeFor, pc>>
    BY <1>7, <2>1, OthersEffect, BecomesEffect
  <2>3. CASE Changed(h)
    <3>1. ASSUME NEW uid, Unserved(uid) PROVE Unserved(uid)'
      <4>1. SUFFICES ASSUME Alive(houmao') PROVE uid # houmao'.uid
        BY DEF Unserved, Alive
      <4>2. houmao' = h /\ houmao'.uid = houmao.uid /\ Alive(houmao)
        BY <2>2, <2>3, <4>1 DEF Changed, Alive
      <4> QED
        BY <3>1, <4>2 DEF Unserved
    <3> QED
      BY <2>2, <3>1 DEF DoomKept
  <2>4. CASE Created(h)
    <3>1. lives \in Nat /\ h.uid = lives + 1
      BY <2>4 DEF Created, TypeOK
    <3>2. ASSUME NEW uid \in Nat, uid <= lives PROVE Unserved(uid)'
      BY <2>2, <3>1, <3>2 DEF Unserved, Alive
    <3>3. /\ object.value # Nil => object.value.uid \in Nat
          /\ madeFor \in Nat
      BY Copies, HoumaoFields DEF TypeOK
    <3>4. pc \in Creating \cup {"finalizers"} => object.value # Nil
      BY DEF TypeOK, Creating
    <3>5. /\ object.value # Nil => Unserved(object.value.uid)'
          /\ Unserved(madeFor)'
      BY <2>2, <3>2, <3>3 DEF Incarnations
    <3> QED
      BY <2>2, <3>4, <3>5 DEF DoomKept
  <2> QED
    BY <2>1, <2>3, <2>4
<1> QED
  BY <1>1, <1>2, <1>3, <1>4, <1>5, <1>6, <1>7, Cases

-----------------------------------------------------------------------------
LEMMA KeptInit == Init => CopiesTrue /\ Incarnations /\ GuardKept /\ DoomKept
<1> SUFFICES ASSUME Init PROVE CopiesTrue /\ Incarnations /\ GuardKept /\ DoomKept
  OBVIOUS
<1>1. PICK f \in SUBSET Foreign : \E l \in Liangs : houmao = NewHoumao(1, f, l)
  BY DEF Init
<1>2. PICK l \in Liangs : houmao = NewHoumao(1, f, l)
  BY <1>1
<1>3. 1 \in Nat
  OBVIOUS
<1>4. houmao \in Houmao /\ houmao.uid = 1 /\ houmao.deleting = FALSE
  <2>1. NewHoumao(1, f, l) \in Houmao
    BY <1>3, NewIsHoumao
  <2>2. NewHoumao(1, f, l).uid = 1 /\ NewHoumao(1, f, l).deleting = FALSE
    BY DEF NewHoumao
  <2> QED
    BY <1>2, <2>1, <2>2
<1>5. hcache.value = houmao /\ xcache.value = Nil /\ object.value = Nil
      /\ object.fresh = FALSE /\ xianqiObj.fresh = FALSE
  BY <1>4, Copies DEF Init
<1>6. lives = 1 /\ madeFor = 0 /\ pc = "idle" /\ xianqi = Nil
  BY DEF Init
<1>7. CopiesTrue
  BY <1>5, <1>6 DEF CopiesTrue
<1>8. Incarnations
  BY <1>4, <1>5, <1>6 DEF Incarnations
<1>9. GuardKept
  <2>1. ~(0 = 1)
    OBVIOUS
  <2>2. Held(madeFor) /\ (hcache.value.finalizers # {} => Held(hcache.value.uid))
    BY <1>4, <1>5, <1>6, <2>1 DEF Held
  <2> QED
    BY <1>6, <2>2 DEF GuardKept, Creating
<1>10. Alive(hcache.value)
  BY <1>4, <1>5, NilAssumption DEF Alive
<1>11. DoomKept
  BY <1>6, <1>10 DEF DoomKept
<1> QED
  BY <1>7, <1>8, <1>9, <1>11

LEMMA Kept == Spec => [](TypeOK /\ CopiesTrue /\ Incarnations /\ GuardKept /\ DoomKept)
<1>1. TypeOK /\ CopiesTrue /\ Incarnations /\ GuardKept /\ DoomKept /\ [Next]_vars
         => (TypeOK /\ CopiesTrue /\ Incarnations /\ GuardKept /\ DoomKept)'
  BY TypeStep, CopiesStep, IncarnationsStep, GuardStep, DoomStep
<1> QED
  BY <1>1, TypeInit, KeptInit, PTL DEF Spec

(* As long as nobody else takes a finalizer off a Houmao, one that a xianqi*)
(* was made for has a finalizer: the order of addFinalizers and            *)
(* CreateOrUpdateXianqi survives old caches, lost answers and restarts.    *)
THEOREM HoumaoIsGuarded == Spec => []Guarded
<1>1. GuardKept => Guarded
  BY DEF GuardKept, Guarded, Held
<1> QED
  BY <1>1, Kept, PTL

(* The two halves of KeepsEdits, about one step.                           *)
HoumaoKept ==
    houmao' = houmao \/ (Alive(houmao) /\ houmao.finalizers = {}
                         /\ houmao' = [houmao EXCEPT !.finalizers = {Own}])
HandKept == xianqi # Nil /\ xianqi' # Nil => xianqi'.hand = xianqi.hand

(* A step of shifa undoes nothing of what others wrote meanwhile.          *)
THEOREM EditsAreKept == Spec => KeepsEdits
<1>1. ASSUME TypeOK, CopiesTrue, Shifa PROVE HoumaoKept /\ HandKept
  <2> USE DEF server, caches
  <2>1. ASSUME NEW answered \in BOOLEAN, AddFinalizers(answered) PROVE HoumaoKept /\ HandKept
    BY <1>1, <2>1, AddEffect DEF HoumaoKept, HandKept
  <2>2. ASSUME NEW answered \in BOOLEAN, CreateXianqi(answered) PROVE HoumaoKept /\ HandKept
    BY <2>2 DEF CreateXianqi, Store, HoumaoKept, HandKept
  <2>3. ASSUME NEW answered \in BOOLEAN, UpdateXianqi(answered) PROVE HoumaoKept /\ HandKept
    <3>1. houmao' = houmao /\ xianqi' = [xianqiObj.value EXCEPT !.liang = object.value.liang]
      BY <2>3 DEF UpdateXianqi, Store
    <3>2. xianqiObj.value = xianqi /\ xianqi \in Deployment /\ object.value \in Houmao
      BY <1>1, <2>3, Copies DEF UpdateXianqi, CopiesTrue, TypeOK
    <3> QED
      BY <3>1, <3>2, HoumaoFields, ResourcesSet DEF HoumaoKept, HandKept
  <2>4. ASSUME NEW answered \in BOOLEAN, DeleteXianqi(answered) PROVE HoumaoKept /\ HandKept
    BY <2>4 DEF DeleteXianqi, HoumaoKept, HandKept
  <2>5. CASE Begin \/ GetXianqi \/ GetDoomed \/ CallFails \/ PatchRefused \/ Reconciled
    <3>1. houmao' = houmao /\ xianqi' = xianqi
      BY <2>5 DEF Begin, GetXianqi, GetDoomed, CallFails, PatchRefused, Reconciled
    <3> QED
      BY <3>1 DEF HoumaoKept, HandKept
  <2> QED
    BY <1>1, <2>1, <2>2, <2>3, <2>4, <2>5 DEF Shifa
<1>2. ASSUME TypeOK, CopiesTrue PROVE Shifa => HoumaoKept /\ HandKept
  BY <1>1, <1>2
<1>3. TypeOK /\ CopiesTrue /\ [Next]_vars => [Shifa => HoumaoKept /\ HandKept]_vars
  BY <1>2
<1> QED
  BY <1>3, Kept, PTL DEF Spec, KeepsEdits, HoumaoKept, HandKept

(* What shifa deletes by name was not made for a Houmao that is alive.     *)
THEOREM OnlyDoomedDestroyed == Spec => DestroysOnlyDoomed
<1>1. ASSUME TypeOK, DoomKept, Shifa, xianqi # Nil, xianqi' = Nil
      PROVE  ~Alive(houmao) \/ madeFor # houmao.uid
  <2> USE DEF server, caches
  <2>1. pc = "delete"
    <3>1. ASSUME NEW answered \in BOOLEAN, CreateXianqi(answered) PROVE FALSE
      BY <1>1, <3>1 DEF CreateXianqi
    <3>2. ASSUME NEW answered \in BOOLEAN, UpdateXianqi(answered) PROVE FALSE
      <4>1. object.value \in Houmao /\ xianqiObj.value \in Deployment
        BY <1>1, <3>2, Copies DEF UpdateXianqi, TypeOK
      <4>2. xianqi' \in Deployment
        BY <3>2, <4>1, HoumaoFields, ResourcesSet DEF UpdateXianqi, Store
      <4> QED
        BY <1>1, <4>2, NilAssumption
    <3>3. ASSUME NEW answered \in BOOLEAN, AddFinalizers(answered) PROVE FALSE
      BY <1>1, <3>3 DEF AddFinalizers
    <3>4. ~(Begin \/ GetXianqi \/ GetDoomed \/ CallFails \/ PatchRefused \/ Reconciled)
      BY <1>1 DEF Begin, GetXianqi, GetDoomed, CallFails, PatchRefused, Reconciled
    <3>5. PICK answered \in BOOLEAN : DeleteXianqi(answered)
      BY <1>1, <3>1, <3>2, <3>3, <3>4 DEF Shifa
    <3> QED
      BY <3>5 DEF DeleteXianqi
  <2> QED
    BY <1>1, <2>1 DEF DoomKept, Unserved
<1>2. TypeOK /\ DoomKept /\ [Next]_vars =>
         [Shifa /\ xianqi # Nil /\ xianqi' = Nil => ~Alive(houmao) \/ madeFor # houmao.uid]_vars
  BY <1>1
<1> QED
  BY <1>2, Kept, PTL DEF Spec, DestroysOnlyDoomed
=============================================================================
