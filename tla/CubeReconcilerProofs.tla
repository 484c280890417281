------------------------- MODULE CubeReconcilerProofs -------------------------
(* What CubeReconciler guarantees for every set of specs and every bound.   *)
EXTENDS CubeReconcilerHistory, CubeResourcesProofs, TLAPS

-----------------------------------------------------------------------------
(* Types *)

LEMMA InitialValues ==
    /\ NoStatus \in Status
    /\ NoVerdict \in Verdict
    /\ NoSnapshot \in Snapshot
  BY ReconcilerAssumption
     DEF NoStatus, Status, Condition, Reasons, NoVerdict, Verdict, NoSnapshot, Snapshot

LEMMA DisturbType ==
    ASSUME TypeOK, NEW kind, Disturb(kind)
    PROVE  budget' \in Nat
  BY DEF TypeOK, Disturb

LEMMA AnnounceType ==
    ASSUME TypeOK, NEW o \in Objects, NEW changed \in BOOLEAN, Announce(o, changed)
    PROVE  lagging' \subseteq ReadKinds /\ queued' \in BOOLEAN
  BY DEF TypeOK, Announce

LEMMA DeleteEffectType ==
    ASSUME TypeOK, NEW o \in Objects, DeleteEffect(o)
    PROVE  /\ objs' \in [Objects -> Manifests \cup {None}]
           /\ ready' \in [Workloads -> Nat]
           /\ lagging' \subseteq ReadKinds
           /\ queued' \in BOOLEAN
<1>1. Exists(o) \in BOOLEAN
  BY DEF Exists
<1>2. lagging' \subseteq ReadKinds /\ queued' \in BOOLEAN
  BY <1>1, AnnounceType DEF DeleteEffect
<1> QED BY <1>2 DEF DeleteEffect, TypeOK

LEMMA ApplyEffectType ==
    ASSUME TypeOK, NEW o \in Objects, ApplyEffect(o)
    PROVE  /\ objs' \in [Objects -> Manifests \cup {None}]
           /\ lagging' \subseteq ReadKinds
           /\ queued' \in BOOLEAN
<1>1. lagging' \subseteq ReadKinds /\ queued' \in BOOLEAN
  BY AnnounceType DEF ApplyEffect
<1>2. Rendered(snapshot.spec, o) \in Manifests
  BY RenderedType DEF TypeOK, Snapshot
<1> QED BY <1>1, <1>2 DEF ApplyEffect, TypeOK

LEMMA PatchEffectType ==
    ASSUME TypeOK, PatchEffect
    PROVE  cluster' \in Cluster
<1> DEFINE condition == [reason |-> verdict.reason, generation |-> cached.generation]
<1>1. /\ cached.status \in Status /\ cluster.status \in Status
      /\ cached.generation \in Nat /\ verdict.ready \in Nat
      /\ verdict.reason \in Reasons
  BY DEF TypeOK, Cluster, Verdict
<1>2. condition \in Condition
  BY <1>1 DEF Condition
<1>3. PICK newMessage \in BOOLEAN :
        cluster' = [cluster EXCEPT !.status =
            [observedGeneration |-> Merge(@.observedGeneration,
                                          cached.status.observedGeneration,
                                          cached.generation),
             readyAPIs |-> Merge(@.readyAPIs, cached.status.readyAPIs, verdict.ready),
             ready |-> IF newMessage THEN condition
                       ELSE Merge(@.ready, cached.status.ready, condition)]]
  BY DEF PatchEffect
<1>4. cluster'.status \in Status
  BY <1>1, <1>2, <1>3 DEF Merge, Status, TypeOK, Cluster
<1> QED BY <1>3, <1>4 DEF TypeOK, Cluster

LEMMA TypeInit == Init => TypeOK
<1> SUFFICES ASSUME Init PROVE TypeOK
  OBVIOUS
<1>1. PICK s \in Specs :
        cluster = [live |-> TRUE, generation |-> 1, spec |-> s, status |-> NoStatus]
  BY DEF Init
<1>2. cluster \in Cluster
  BY <1>1, InitialValues DEF Cluster
<1> QED BY <1>2, InitialValues, ReconcilerAssumption DEF Init, TypeOK

LEMMA TypeStep == TypeOK /\ [Next]_vars => TypeOK'
<1> SUFFICES ASSUME TypeOK, [Next]_vars PROVE TypeOK'
  OBVIOUS
<1> USE DEF server, caches, queue, pass
<1> DEFINE order == ApplyOrder(snapshot.spec.mode)
<1> DEFINE removal == RemoveOrder(snapshot.spec.mode)
<1>mode. snapshot.spec.mode \in Modes
  BY SpecFields DEF TypeOK, Snapshot
<1>1. CASE Begin
  <2>1. CASE UNCHANGED pass
    BY <1>1, <2>1 DEF Begin, TypeOK
  <2>2. CASE cached.live /\ snapshot' = [generation |-> cached.generation,
                                       spec |-> cached.spec]
    <3>1. cached.spec \in Specs /\ cached.generation \in Nat
      BY DEF TypeOK, Cluster
    <3>2. cached.spec.mode \in Modes
      BY <3>1, SpecFields
    <3>3. snapshot' \in Snapshot /\ snapshot'.spec = cached.spec
      BY <2>2, <3>1 DEF Snapshot
    <3>4. 1 \in DOMAIN ApplyOrder(cached.spec.mode)
      BY <3>2, ApplyOrderType
    <3>5. \/ pc' = "apply" /\ step' = 1 /\ UNCHANGED verdict
          \/ /\ pc' = "status" /\ step' = 0
             /\ verdict' = [reason |-> "InvalidConfiguration", ready |-> 0]
      BY <1>1, <2>2 DEF Begin
    <3>6. verdict' \in Verdict
      BY <3>5 DEF TypeOK, Verdict, Reasons
    <3>7. queued' = FALSE /\ UNCHANGED <<server, caches, timer>>
      BY <1>1 DEF Begin
    <3>8. CASE pc' = "apply" /\ step' = 1
      BY <3>3, <3>4, <3>6, <3>7, <3>8 DEF TypeOK
    <3>9. CASE pc' = "status" /\ step' = 0
      BY <3>3, <3>6, <3>7, <3>9 DEF TypeOK
    <3> QED BY <3>5, <3>8, <3>9
  <2> QED BY <1>1, <2>1, <2>2 DEF Begin
<1>2. CASE ApplyObject
  <2>1. /\ step \in 1..Len(order) /\ order[step] \in Objects
        /\ Len(order) \in Nat /\ DOMAIN order = 1..Len(order)
    BY <1>2, <1>mode, ApplyOrderType DEF ApplyObject, TypeOK
  <2>2. 1 \in DOMAIN removal
    BY <1>mode, RemoveOrderType
  <2>3. /\ objs' \in [Objects -> Manifests \cup {None}]
        /\ lagging' \subseteq ReadKinds
        /\ queued' \in BOOLEAN
    BY <1>2, <2>1, ApplyEffectType DEF ApplyObject, TypeOK
  <2>4. CASE IF step < Len(order) THEN Goto("apply", step + 1) ELSE Goto("remove", 1)
    <3>1. UNCHANGED <<budget, snapshot, verdict, timer>> \/ budget' \in Nat
      BY <1>2, <2>4 DEF ApplyObject, Goto, Disturb, TypeOK
    <3>2. budget' \in Nat
      BY <1>2, <2>4 DEF ApplyObject, Disturb, TypeOK
    <3> QED BY <1>2, <2>1, <2>2, <2>3, <2>4, <3>2 DEF ApplyObject, Goto, TypeOK
  <2>5. CASE Disturb("fault") /\ Report("ReconcileFailed", 0)
    <3>1. verdict' \in Verdict /\ budget' \in Nat
      BY <2>5 DEF Report, Disturb, Verdict, Reasons, TypeOK
    <3> QED BY <1>2, <2>3, <2>5, <3>1 DEF ApplyObject, Report, TypeOK
  <2> QED BY <1>2, <2>4, <2>5 DEF ApplyObject
<1>3. CASE RemoveObject
  <2>1. /\ step \in 1..Len(removal) /\ removal[step] \in Objects
        /\ Len(removal) \in Nat /\ DOMAIN removal = 1..Len(removal)
    BY <1>3, <1>mode, RemoveOrderType DEF RemoveObject, TypeOK
  <2>2. /\ objs' \in [Objects -> Manifests \cup {None}]
        /\ ready' \in [Workloads -> Nat]
        /\ lagging' \subseteq ReadKinds
        /\ queued' \in BOOLEAN
    BY <1>3, <2>1, DeleteEffectType DEF RemoveObject, TypeOK
  <2>3. budget' \in Nat
    <3>1. UNCHANGED budget \/ Disturb("fault")
      BY <1>3 DEF RemoveObject
    <3> QED BY <3>1, DisturbType DEF TypeOK
  <2>4. CASE IF step < Len(removal) THEN Goto("remove", step + 1) ELSE Goto("observe", 0)
    BY <1>3, <2>1, <2>2, <2>3, <2>4 DEF RemoveObject, Goto, TypeOK
  <2>5. CASE Return(TRUE)
    BY <1>3, <2>2, <2>3, <2>5, InitialValues DEF RemoveObject, Return, TypeOK
  <2> QED BY <1>3, <2>4, <2>5 DEF RemoveObject
<1>4. CASE ObserveWorkloads
  <2>1. CASE Return(TRUE)
    BY <1>4, <2>1, InitialValues DEF ObserveWorkloads, Return, TypeOK
  <2>2. CASE ~Return(TRUE)
    <3>1. PICK seen \in [Observed(snapshot.spec.mode) -> 0..MaxReplicas] :
            /\ pc' = IF Available(snapshot.spec, seen) THEN "health" ELSE "status"
            /\ verdict' = [reason |-> "Progressing", ready |-> seen["apiDeployment"]]
            /\ step' = 0 /\ UNCHANGED <<snapshot, timer>>
      BY <1>4, <2>2 DEF ObserveWorkloads
    <3>2. seen["apiDeployment"] \in Nat
      BY ReconcilerAssumption DEF Observed
    <3>3. verdict' \in Verdict
      BY <3>1, <3>2 DEF Verdict, Reasons
    <3> QED BY <1>4, <3>1, <3>3 DEF ObserveWorkloads, TypeOK
  <2> QED BY <2>1, <2>2
<1>5. CASE CheckHealth
  <2>1. verdict' \in Verdict /\ budget' \in Nat
    BY <1>5 DEF CheckHealth, Report, Disturb, Verdict, Reasons, TypeOK
  <2> QED BY <1>5, <2>1 DEF CheckHealth, Report, TypeOK
<1>6. CASE WriteStatus
  <2>1. cluster' \in Cluster
    BY <1>6, PatchEffectType DEF WriteStatus, TypeOK
  <2>2. budget' \in Nat
    <3>1. UNCHANGED budget \/ Disturb("fault")
      BY <1>6 DEF WriteStatus
    <3> QED BY <3>1, DisturbType DEF TypeOK
  <2>3. PICK again \in BOOLEAN : Return(again)
    BY <1>6 DEF WriteStatus
  <2> QED BY <1>6, <2>1, <2>2, <2>3, InitialValues DEF WriteStatus, Return, TypeOK
<1>7. CASE DeliverCluster
  BY <1>7 DEF DeliverCluster, TypeOK
<1>8. CASE \E kind \in ReadKinds : DeliverWorkloads(kind)
  BY <1>8 DEF DeliverWorkloads, TypeOK
<1>9. CASE TimerFires
  BY <1>9 DEF TimerFires, TypeOK
<1>10. CASE Resync
  BY <1>10 DEF Resync, Disturb, TypeOK
<1>11. CASE Restart
  BY <1>11, InitialValues, DisturbType DEF Restart, TypeOK
<1>12. CASE UpdateSpec
  <2>1. PICK s \in Specs :
          cluster' = [cluster EXCEPT !.generation = @ + 1, !.spec = s]
    BY <1>12 DEF UpdateSpec
  <2>2. cluster' \in Cluster
    <3>1. /\ cluster \in [live: BOOLEAN, generation: Nat \ {0}, spec: Specs, status: Status]
          /\ cluster.generation + 1 \in Nat \ {0}
      BY DEF TypeOK, Cluster
    <3> QED BY <2>1, <3>1 DEF Cluster
  <2> QED BY <1>12, <2>2 DEF UpdateSpec, TypeOK
<1>13. CASE DeleteCluster
  <2>1. cluster' \in Cluster
    BY <1>13 DEF DeleteCluster, TypeOK, Cluster
  <2> QED BY <1>13, <2>1, DisturbType DEF DeleteCluster, TypeOK
<1>14. CASE FlipReferences
  BY <1>14 DEF FlipReferences, Disturb, TypeOK
<1>15. CASE FlipReadyz
  BY <1>15 DEF FlipReadyz, Disturb, TypeOK
<1>16. CASE \E o \in Objects : Tamper(o)
  BY <1>16, DeleteEffectType DEF Tamper, Disturb, TypeOK
<1>17. CASE CollectGarbage
  <2>1. objs' \in [Objects -> Manifests \cup {None}] /\ ready' \in [Workloads -> Nat]
    BY <1>17 DEF CollectGarbage
  <2>2. lagging' \subseteq ReadKinds /\ queued' \in BOOLEAN
    BY <1>17 DEF CollectGarbage, TypeOK
  <2> QED BY <1>17, <2>1, <2>2 DEF CollectGarbage, TypeOK
<1>18. CASE \E w \in Workloads : PodBecomesReady(w) \/ PodLeaves(w) \/ PodIsLost(w)
  <2>1. PICK w \in Workloads : PodBecomesReady(w) \/ PodLeaves(w) \/ PodIsLost(w)
    BY <1>18
  <2>2. PICK n \in Nat : SetReady(w, n)
    <3>1. ready[w] \in Nat
      BY DEF TypeOK
    <3>2. CASE PodBecomesReady(w)
      BY <3>1, <3>2 DEF PodBecomesReady
    <3>3. CASE PodLeaves(w)
      <4>1. Wanted(w) \in Nat
        BY DEF Wanted, Exists, TypeOK, Manifests, Objects
      <4> QED BY <3>1, <3>3, <4>1 DEF PodLeaves
    <3>4. CASE PodIsLost(w)
      BY <3>1, <3>4 DEF PodIsLost
    <3> QED BY <2>1, <3>2, <3>3, <3>4
  <2>3. lagging' \subseteq ReadKinds /\ queued' \in BOOLEAN
    BY <2>2, AnnounceType DEF SetReady, Objects
  <2>4. budget' \in Nat
    BY <2>1 DEF PodBecomesReady, PodLeaves, PodIsLost, Disturb, TypeOK
  <2>5. ready' \in [Workloads -> Nat]
    BY <2>2 DEF SetReady, TypeOK
  <2> QED BY <2>2, <2>3, <2>4, <2>5 DEF SetReady, TypeOK
<1>19. CASE UNCHANGED vars
  BY <1>19 DEF vars, TypeOK
<1> QED
  BY <1>1, <1>2, <1>3, <1>4, <1>5, <1>6, <1>7, <1>8, <1>9, <1>10, <1>11, <1>12,
     <1>13, <1>14, <1>15, <1>16, <1>17, <1>18, <1>19
     DEF Next, Pass, Process, User, Platform

(* Every reachable state is well typed; in particular the two loops never   *)
(* run past the end of their lists.                                         *)
THEOREM TypeCorrect == Spec => []TypeOK
<1> QED BY TypeInit, TypeStep, PTL DEF Spec

-----------------------------------------------------------------------------
(* Store continuity *)

(* While the cluster lives, an apply loop has created what it has passed,   *)
(* and a removal loop runs beside the complete topology of its mode.       *)
AppliedSoFar ==
    /\ pc = "apply" =>
         \A o \in Objects : \A k \in 1..(step - 1) :
            ApplyOrder(snapshot.spec.mode)[k] = o => Exists(o)
    /\ pc = "remove" => \A o \in StoreObjects(snapshot.spec.mode) : Exists(o)

AppliedInv == cluster.live => AppliedSoFar

(* The objects that exist stay, except for the one of a removal step.       *)
LEMMA ObjectsStay ==
    ASSUME TypeOK, TypeOK', [Next]_vars, cluster.live, "tamper" \notin Disturbances,
           NEW o \in Objects, Exists(o)
    PROVE  \/ Exists(o)'
           \/ /\ RemoveObject
              /\ o = RemoveOrder(snapshot.spec.mode)[step]
<1> USE DEF server, caches, queue, pass
<1>1. CASE ApplyObject
  <2>1. snapshot.spec \in Specs
    BY DEF TypeOK, Snapshot
  <2>2. Rendered(snapshot.spec, o) # None
    BY <2>1, RenderedType, ReconcilerAssumption
  <2> QED BY <1>1, <2>2 DEF ApplyObject, ApplyEffect, Exists, TypeOK
<1>2. CASE RemoveObject
  BY <1>2 DEF RemoveObject, DeleteEffect, Exists, TypeOK
<1>3. CASE UNCHANGED objs
  BY <1>3 DEF Exists
<1>4. CASE CollectGarbage \/ \E q \in Objects : Tamper(q)
  BY <1>4 DEF Tamper, CollectGarbage, Disturb
<1> QED
  BY <1>1, <1>2, <1>3, <1>4
     DEF Next, Pass, Process, User, Platform, vars, Begin, ObserveWorkloads, CheckHealth,
         WriteStatus, DeliverCluster, DeliverWorkloads, TimerFires, Resync, Restart,
         UpdateSpec, DeleteCluster, FlipReferences, FlipReadyz, PodBecomesReady,
         PodLeaves, PodIsLost, SetReady

(* A removal step leaves the topology of its own mode alone.                *)
LEMMA RemovalSparesStore ==
    ASSUME TypeOK, RemoveObject, NEW o \in StoreObjects(snapshot.spec.mode)
    PROVE  o # RemoveOrder(snapshot.spec.mode)[step]
<1>1. snapshot.spec.mode \in Modes
  BY SpecFields DEF TypeOK, Snapshot
<1>2. step \in 1..Len(RemoveOrder(snapshot.spec.mode))
  BY <1>1, RemoveOrderType DEF RemoveObject, TypeOK
<1> QED BY <1>1, <1>2, StoreIsKept

LEMMA AppliedStep ==
    ASSUME "tamper" \notin Disturbances
    PROVE  TypeOK /\ TypeOK' /\ AppliedInv /\ [Next]_vars => AppliedInv'
<1> SUFFICES ASSUME TypeOK, TypeOK', AppliedInv, [Next]_vars, cluster'.live
             PROVE  AppliedSoFar'
  BY DEF AppliedInv
<1> USE DEF server, caches, queue, pass
<1> DEFINE mode == snapshot.spec.mode
<1>live. cluster.live
  BY DEF Next, Pass, Process, User, Platform, vars, Begin, ApplyObject, RemoveObject,
         ObserveWorkloads, CheckHealth, WriteStatus, PatchEffect, DeliverCluster,
         DeliverWorkloads, TimerFires, Resync, Restart, UpdateSpec, DeleteCluster,
         FlipReferences, FlipReadyz, Tamper, CollectGarbage, PodBecomesReady, PodLeaves,
         PodIsLost, SetReady, TypeOK, Cluster
<1>mode. mode \in Modes
  BY SpecFields DEF TypeOK, Snapshot
<1>1. CASE ApplyObject
  <2>1. /\ step \in 1..Len(ApplyOrder(mode)) /\ Len(ApplyOrder(mode)) \in Nat
        /\ \A k \in 1..Len(ApplyOrder(mode)) : ApplyOrder(mode)[k] \in Objects
    BY <1>1, <1>mode, ApplyOrderType DEF ApplyObject, TypeOK
  <2>2. \A o \in Objects : \A k \in 1..(step - 1) : ApplyOrder(mode)[k] = o => Exists(o)
    BY <1>1, <1>live DEF AppliedInv, AppliedSoFar, ApplyObject
  <2>3. CASE Report("ReconcileFailed", 0)
    BY <2>3 DEF Report, AppliedSoFar
  <2>4. CASE ~Report("ReconcileFailed", 0)
    <3>1. /\ ApplyEffect(ApplyOrder(mode)[step])
          /\ IF step < Len(ApplyOrder(mode)) THEN Goto("apply", step + 1)
                                              ELSE Goto("remove", 1)
      BY <1>1, <2>4 DEF ApplyObject
    <3>2. PICK q \in Objects : q = ApplyOrder(mode)[step]
      BY <2>1
    <3>3. Exists(q)'
      <4>1. Rendered(snapshot.spec, q) # None
        BY RenderedType, ReconcilerAssumption DEF TypeOK, Snapshot
      <4> QED BY <3>1, <3>2, <4>1 DEF ApplyEffect, Exists, TypeOK
    <3>4. \A o \in Objects : Exists(o) => Exists(o)'
      BY <1>1, <1>live, ObjectsStay DEF ApplyObject, RemoveObject
    <3>5. \A o \in Objects : \A k \in 1..step : ApplyOrder(mode)[k] = o => Exists(o)'
      BY <2>1, <2>2, <3>2, <3>3, <3>4
    <3>6. UNCHANGED snapshot
      BY <3>1 DEF Goto
    <3>7. CASE step < Len(ApplyOrder(mode))
      <4>1. pc' = "apply" /\ step' = step + 1
        BY <3>1, <3>7 DEF Goto
      <4>2. step' - 1 = step
        BY <2>1, <4>1
      <4> QED BY <3>5, <3>6, <4>1, <4>2 DEF AppliedSoFar
    <3>8. CASE ~(step < Len(ApplyOrder(mode)))
      <4>1. pc' = "remove" /\ step = Len(ApplyOrder(mode))
        BY <2>1, <3>1, <3>8 DEF Goto
      <4>2. \A o \in StoreObjects(mode) : Exists(o)'
        BY <1>mode, <3>5, <4>1, StoreIsApplied, StoreObjectsAreObjects
      <4> QED BY <3>6, <4>1, <4>2 DEF AppliedSoFar
    <3> QED BY <3>7, <3>8
  <2> QED BY <2>3, <2>4
<1>2. CASE RemoveObject
  <2>1. \A o \in StoreObjects(mode) : Exists(o)
    BY <1>2, <1>live DEF AppliedInv, AppliedSoFar, RemoveObject
  <2>2. \A o \in StoreObjects(mode) : Exists(o)'
    BY <1>2, <1>live, <1>mode, <2>1, ObjectsStay, RemovalSparesStore, StoreObjectsAreObjects
  <2>3. \/ pc' = "remove" /\ UNCHANGED snapshot
        \/ pc' \in {"observe", "idle"}
    BY <1>2 DEF RemoveObject, Goto, Return
  <2> QED BY <2>2, <2>3 DEF AppliedSoFar
<1>3. CASE Begin
  <2>1. pc' = "apply" => step' = 1 \/ UNCHANGED pass
    BY <1>3 DEF Begin
  <2>2. pc' # "remove"
    BY <1>3 DEF Begin
  <2>3. pc # "apply"
    BY <1>3 DEF Begin
  <2> QED BY <2>1, <2>2, <2>3 DEF AppliedSoFar
<1>4. CASE pc' \notin {"apply", "remove"}
  BY <1>4 DEF AppliedSoFar
<1>5. CASE UNCHANGED pass /\ ~RemoveObject
  <2>1. \A o \in Objects : Exists(o) => Exists(o)'
    BY <1>5, <1>live, ObjectsStay
  <2>2. AppliedSoFar
    BY <1>live DEF AppliedInv
  <2>3. StoreObjects(mode) \subseteq Objects
    BY <1>mode, StoreObjectsAreObjects
  <2> QED BY <1>5, <2>1, <2>2, <2>3 DEF AppliedSoFar
<1> QED
  BY <1>1, <1>2, <1>3, <1>4, <1>5
     DEF Next, Pass, Process, User, Platform, vars, RemoveObject, ObserveWorkloads,
         CheckHealth, Report, Return, WriteStatus, DeliverCluster, DeliverWorkloads,
         TimerFires, Resync, Restart, UpdateSpec, DeleteCluster, FlipReferences,
         FlipReadyz, Tamper, CollectGarbage, PodBecomesReady, PodLeaves, PodIsLost,
         SetReady

(* Whatever the specs, the generations, the failures and the crashes: as    *)
(* long as nobody else deletes managed objects, no step takes the last     *)
(* complete store topology from a live cluster.                            *)
THEOREM StoreIsContinuous ==
    ASSUME "tamper" \notin Disturbances
    PROVE  Spec => StoreContinuity
<1>1. Init => AppliedInv
  BY DEF Init, AppliedInv, AppliedSoFar
<1>2. TypeOK /\ TypeOK' /\ AppliedInv /\ [Next]_vars
        => (HasStore /\ cluster.live => HasStore')
  <2> SUFFICES ASSUME TypeOK, TypeOK', AppliedInv, [Next]_vars, HasStore, cluster.live
               PROVE  HasStore'
    OBVIOUS
  <2>1. PICK mode \in Modes : \A o \in StoreObjects(mode) : Exists(o)
    BY DEF HasStore
  <2>2. CASE RemoveObject
    <3>1. snapshot.spec.mode \in Modes
      BY SpecFields DEF TypeOK, Snapshot
    <3>2. \A o \in StoreObjects(snapshot.spec.mode) : Exists(o)
      BY <2>2 DEF AppliedInv, AppliedSoFar, RemoveObject
    <3>3. \A o \in StoreObjects(snapshot.spec.mode) : Exists(o)'
      BY <2>2, <3>1, <3>2, ObjectsStay, RemovalSparesStore, StoreObjectsAreObjects
    <3> QED BY <3>1, <3>3 DEF HasStore
  <2>3. CASE ~RemoveObject
    <3>1. \A o \in StoreObjects(mode) : Exists(o)'
      BY <2>1, <2>3, ObjectsStay, StoreObjectsAreObjects
    <3> QED BY <3>1 DEF HasStore
  <2> QED BY <2>2, <2>3
<1>3. TypeOK /\ TypeOK' /\ AppliedInv /\ [Next]_vars
        => [HasStore /\ cluster.live => HasStore']_vars
  BY <1>2
<1> QED
  BY <1>1, <1>3, AppliedStep, TypeInit, TypeStep, PTL DEF Spec, StoreContinuity

-----------------------------------------------------------------------------
(* Generations *)

(* The caches follow the server, and status is stamped from the cache.      *)
StampInv ==
    /\ GenerationsAgree
    /\ cached.status.observedGeneration = cached.status.ready.generation
    /\ cached.status.observedGeneration <= cluster.status.observedGeneration
    /\ cluster.status.observedGeneration <= cached.generation
    /\ cached.generation <= cluster.generation

(* A patch stamps both generations with the one in the cache, although it   *)
(* leaves out what equals the base.                                        *)
LEMMA PatchStamps ==
    ASSUME TypeOK, StampInv, PatchEffect
    PROVE  /\ cluster'.status.observedGeneration = cached.generation
           /\ cluster'.status.ready.generation = cached.generation
           /\ cluster'.generation = cluster.generation
<1> DEFINE condition == [reason |-> verdict.reason, generation |-> cached.generation]
<1>1. PICK newMessage \in BOOLEAN :
        cluster' = [cluster EXCEPT !.status =
            [observedGeneration |-> Merge(@.observedGeneration,
                                          cached.status.observedGeneration,
                                          cached.generation),
             readyAPIs |-> Merge(@.readyAPIs, cached.status.readyAPIs, verdict.ready),
             ready |-> IF newMessage THEN condition
                       ELSE Merge(@.ready, cached.status.ready, condition)]]
  BY DEF PatchEffect
<1>2. /\ cached.status \in Status /\ cluster.status \in Status
      /\ cached.generation \in Nat /\ cluster.generation \in Nat
  BY DEF TypeOK, Cluster
<1>3. cluster'.status.observedGeneration
        = Merge(cluster.status.observedGeneration, cached.status.observedGeneration,
                cached.generation)
  BY <1>1 DEF TypeOK, Cluster
<1>4. cluster'.status.ready
        = IF newMessage THEN condition
          ELSE Merge(cluster.status.ready, cached.status.ready, condition)
  BY <1>1 DEF TypeOK, Cluster
<1>5. cluster'.status.observedGeneration = cached.generation
  BY <1>2, <1>3 DEF Merge, StampInv, Status
<1>6. cluster'.status.ready.generation = cached.generation
  BY <1>2, <1>4 DEF Merge, StampInv, GenerationsAgree, Status
<1> QED BY <1>1, <1>5, <1>6 DEF TypeOK, Cluster

LEMMA StampStep == TypeOK /\ StampInv /\ [Next]_vars => StampInv'
<1> SUFFICES ASSUME TypeOK, StampInv, [Next]_vars PROVE StampInv'
  OBVIOUS
<1> USE DEF server, caches, queue, pass
<1>nat. /\ cached.status.observedGeneration \in Nat /\ cached.generation \in Nat
        /\ cluster.status.observedGeneration \in Nat /\ cluster.generation \in Nat
  BY DEF TypeOK, Cluster, Status
<1>1. CASE UNCHANGED <<cluster, cached>>
  BY <1>1 DEF StampInv, GenerationsAgree
<1>2. CASE PatchEffect /\ UNCHANGED cached
  BY <1>2, <1>nat, PatchStamps DEF StampInv, GenerationsAgree
<1>3. CASE UNCHANGED cluster /\ cached' = cluster
  BY <1>3, <1>nat DEF StampInv, GenerationsAgree
<1>4. CASE UpdateSpec
  <2>1. PICK s \in Specs :
          cluster' = [cluster EXCEPT !.generation = @ + 1, !.spec = s]
    BY <1>4 DEF UpdateSpec
  <2>2. cluster'.status = cluster.status /\ cluster'.generation = cluster.generation + 1
    BY <2>1 DEF TypeOK, Cluster
  <2> QED BY <1>4, <1>nat, <2>2 DEF UpdateSpec, StampInv, GenerationsAgree
<1>5. CASE DeleteCluster
  <2>1. cluster'.status = cluster.status /\ cluster'.generation = cluster.generation
    BY <1>5 DEF DeleteCluster, TypeOK, Cluster
  <2> QED BY <1>5, <2>1 DEF DeleteCluster, StampInv, GenerationsAgree
<1> QED
  BY <1>1, <1>2, <1>3, <1>4, <1>5
     DEF Next, Pass, Process, User, Platform, vars, Begin, ApplyObject, RemoveObject,
         ObserveWorkloads, CheckHealth, WriteStatus, DeliverCluster, DeliverWorkloads,
         TimerFires, Resync, Restart, FlipReferences, FlipReadyz, Tamper,
         CollectGarbage, PodBecomesReady, PodLeaves, PodIsLost, SetReady

(* status.observedGeneration and the observedGeneration of the condition    *)
(* never name different generations.                                       *)
THEOREM GenerationsAlwaysAgree == Spec => []GenerationsAgree
<1>1. Init => StampInv
  BY DEF Init, StampInv, GenerationsAgree, NoStatus
<1>2. StampInv => GenerationsAgree
  BY DEF StampInv
<1> QED BY <1>1, <1>2, TypeInit, TypeStep, StampStep, PTL DEF Spec

-----------------------------------------------------------------------------
(* Ready means applied *)

DoneSoFar ==
    /\ pc = "apply" => AsRendered(objs, snapshot.spec, step - 1)
    /\ pc = "remove" => /\ AsRendered(objs, snapshot.spec, Len(ApplyOrder(snapshot.spec.mode)))
                        /\ AsRemoved(objs, snapshot.spec, step - 1, None)
    /\ pc \in {"observe", "health"} => objs = Desired(snapshot.spec)
    /\ verdict.reason = "Available" => objs = Desired(snapshot.spec)

AvailableAtEnd == verdict.reason = "Available" => pc = "status"

DesiredInv == AvailableAtEnd /\ (cluster.live => DoneSoFar)

LEMMA AllDone ==
    ASSUME NEW spec, spec.mode \in Modes, NEW os \in [Objects -> Manifests \cup {None}],
           AsRendered(os, spec, Len(ApplyOrder(spec.mode))),
           AsRemoved(os, spec, Len(RemoveOrder(spec.mode)), None)
    PROVE  os = Desired(spec)
<1>1. \A o \in Objects :
        IF o \in {ApplyOrder(spec.mode)[k] : k \in DOMAIN ApplyOrder(spec.mode)}
        THEN os[o] = Rendered(spec, o) ELSE os[o] = None
  BY BothLoopsDone
<1> QED BY <1>1 DEF Desired

LEMMA ApplyKeepsDone ==
    ASSUME TypeOK, AvailableAtEnd, DoneSoFar, ApplyObject
    PROVE  AvailableAtEnd' /\ DoneSoFar'
<1> DEFINE order == ApplyOrder(snapshot.spec.mode)
<1>1. pc = "apply" /\ verdict.reason # "Available"
  BY DEF ApplyObject, AvailableAtEnd
<1>2. /\ snapshot.spec.mode \in Modes
      /\ step \in 1..Len(order) /\ Len(order) \in Nat
      /\ \A k \in 1..Len(order) : order[k] \in Objects
  BY <1>1, SpecFields, ApplyOrderType DEF TypeOK, Snapshot
<1>3. CASE Report("ReconcileFailed", 0)
  BY <1>3 DEF Report, AvailableAtEnd, DoneSoFar
<1>4. CASE ~Report("ReconcileFailed", 0)
  <2>1. /\ objs' = [objs EXCEPT ![order[step]] = Rendered(snapshot.spec, order[step])]
        /\ IF step < Len(order) THEN Goto("apply", step + 1) ELSE Goto("remove", 1)
    BY <1>4 DEF ApplyObject, ApplyEffect
  <2>2. UNCHANGED <<snapshot, verdict>>
    BY <2>1 DEF Goto
  <2>3. AsRendered(objs', snapshot.spec, step)
    BY <1>1, <1>2, <2>1, OneMoreRendered DEF DoneSoFar, TypeOK
  <2>4. CASE step < Len(order)
    <3>1. pc' = "apply" /\ step' - 1 = step
      BY <1>2, <2>1, <2>4 DEF Goto
    <3> QED BY <1>1, <2>2, <2>3, <3>1 DEF AvailableAtEnd, DoneSoFar
  <2>5. CASE ~(step < Len(order))
    <3>1. pc' = "remove" /\ step' = 1 /\ step = Len(order)
      BY <1>2, <2>1, <2>5 DEF Goto
    <3> QED BY <1>1, <2>2, <2>3, <3>1 DEF AvailableAtEnd, DoneSoFar, AsRendered, AsRemoved
  <2> QED BY <2>4, <2>5
<1> QED BY <1>3, <1>4

LEMMA RemoveKeepsDone ==
    ASSUME TypeOK, TypeOK', AvailableAtEnd, DoneSoFar, RemoveObject
    PROVE  AvailableAtEnd' /\ DoneSoFar'
<1> DEFINE mode  == snapshot.spec.mode
           order == RemoveOrder(mode)
<1>1. /\ pc = "remove" /\ verdict.reason # "Available"
      /\ AsRendered(objs, snapshot.spec, Len(ApplyOrder(mode)))
      /\ AsRemoved(objs, snapshot.spec, step - 1, None)
  BY DEF RemoveObject, AvailableAtEnd, DoneSoFar
<1>2. /\ mode \in Modes
      /\ step \in 1..Len(order) /\ Len(order) \in Nat
      /\ \A k \in 1..Len(order) : order[k] \in Objects
  BY <1>1, SpecFields, RemoveOrderType DEF TypeOK, Snapshot
<1>3. CASE Return(TRUE)
  BY <1>3 DEF Return, NoVerdict, AvailableAtEnd, DoneSoFar
<1>4. CASE ~Return(TRUE)
  <2>1. /\ objs' = [objs EXCEPT ![order[step]] = None]
        /\ IF step < Len(order) THEN Goto("remove", step + 1) ELSE Goto("observe", 0)
    BY <1>4 DEF RemoveObject, DeleteEffect
  <2>2. UNCHANGED <<snapshot, verdict>>
    BY <2>1 DEF Goto
  <2>3. AsRemoved(objs', snapshot.spec, step, None)
    BY <1>1, <1>2, <2>1, OneMoreRemoved DEF TypeOK
  <2>4. AsRendered(objs', snapshot.spec, Len(ApplyOrder(mode)))
    BY <1>1, <1>2, <2>1, OneMoreRemoved DEF TypeOK
  <2>5. CASE step < Len(order)
    <3>1. pc' = "remove" /\ step' - 1 = step
      BY <1>2, <2>1, <2>5 DEF Goto
    <3> QED BY <1>1, <2>2, <2>3, <2>4, <3>1 DEF AvailableAtEnd, DoneSoFar
  <2>6. CASE ~(step < Len(order))
    <3>1. pc' = "observe" /\ step = Len(order)
      BY <1>2, <2>1, <2>6 DEF Goto
    <3>2. objs' = Desired(snapshot'.spec)
      <4>1. objs' \in [Objects -> Manifests \cup {None}]
        BY DEF TypeOK
      <4> QED BY <1>2, <2>2, <2>3, <2>4, <3>1, <4>1, AllDone
    <3> QED BY <1>1, <2>2, <3>1, <3>2 DEF AvailableAtEnd, DoneSoFar
  <2> QED BY <2>5, <2>6
<1> QED BY <1>3, <1>4

LEMMA DesiredStep ==
    ASSUME "tamper" \notin Disturbances
    PROVE  TypeOK /\ TypeOK' /\ DesiredInv /\ [Next]_vars => DesiredInv'
<1> SUFFICES ASSUME TypeOK, TypeOK', DesiredInv, [Next]_vars PROVE DesiredInv'
  OBVIOUS
<1> USE DEF server, caches, queue, pass
<1>live. cluster'.live => cluster.live
  BY DEF Next, Pass, Process, User, Platform, vars, Begin, ApplyObject, RemoveObject,
         ObserveWorkloads, CheckHealth, WriteStatus, PatchEffect, DeliverCluster,
         DeliverWorkloads, TimerFires, Resync, Restart, UpdateSpec, DeleteCluster,
         FlipReferences, FlipReadyz, Tamper, CollectGarbage, PodBecomesReady, PodLeaves,
         PodIsLost, SetReady, TypeOK, Cluster
<1>1. CASE ApplyObject /\ cluster.live
  BY <1>1, ApplyKeepsDone DEF DesiredInv
<1>2. CASE RemoveObject /\ cluster.live
  BY <1>2, RemoveKeepsDone DEF DesiredInv
<1>3. CASE (ApplyObject \/ RemoveObject) /\ ~cluster.live
  BY <1>3, <1>live
     DEF ApplyObject, RemoveObject, Goto, Report, Return, NoVerdict, DesiredInv, AvailableAtEnd
<1>4. CASE Begin
  <2>1. UNCHANGED pass \/ (pc' = "apply" /\ step' = 1 /\ UNCHANGED verdict)
          \/ (pc' = "status" /\ verdict'.reason = "InvalidConfiguration")
    BY <1>4 DEF Begin
  <2>2. pc = "idle" /\ verdict.reason # "Available" /\ UNCHANGED objs
    BY <1>4 DEF Begin, DesiredInv, AvailableAtEnd
  <2> QED BY <1>live, <2>1, <2>2 DEF DesiredInv, AvailableAtEnd, DoneSoFar, AsRendered
<1>5. CASE ObserveWorkloads
  <2>1. pc = "observe" /\ UNCHANGED objs
    BY <1>5 DEF ObserveWorkloads
  <2>2. \/ pc' = "idle" /\ verdict'.reason = "Progressing"
        \/ pc' \in {"health", "status"} /\ verdict'.reason = "Progressing" /\ UNCHANGED snapshot
    BY <1>5 DEF ObserveWorkloads, Return, NoVerdict
  <2> QED BY <1>live, <2>1, <2>2 DEF DesiredInv, AvailableAtEnd, DoneSoFar
<1>6. CASE CheckHealth
  <2>1. /\ pc = "health" /\ pc' = "status" /\ UNCHANGED <<objs, snapshot>>
    BY <1>6 DEF CheckHealth, Report
  <2> QED BY <1>live, <2>1 DEF DesiredInv, AvailableAtEnd, DoneSoFar
<1>7. CASE WriteStatus \/ Restart
  <2>1. pc' = "idle" /\ verdict' = NoVerdict
    BY <1>7 DEF WriteStatus, Restart, Return
  <2> QED BY <2>1 DEF NoVerdict, DesiredInv, AvailableAtEnd, DoneSoFar
<1>8. CASE UNCHANGED <<pass, objs>>
  BY <1>8, <1>live DEF DesiredInv, AvailableAtEnd, DoneSoFar
<1>9. CASE CollectGarbage
  BY <1>9, <1>live DEF CollectGarbage, DesiredInv, AvailableAtEnd
<1> QED
  BY <1>1, <1>2, <1>3, <1>4, <1>5, <1>6, <1>7, <1>8, <1>9
     DEF Next, Pass, Process, User, Platform, vars, DeliverCluster, DeliverWorkloads,
         TimerFires, Resync, UpdateSpec, DeleteCluster, FlipReferences, FlipReadyz,
         Tamper, Disturb, PodBecomesReady, PodLeaves, PodIsLost, SetReady

(* Whatever failed, crashed or changed on the way: as long as nobody else   *)
(* deletes managed objects, a status that says Available is only written   *)
(* while the objects are exactly those of the spec of the pass.            *)
THEOREM ReadyMeansApplied ==
    ASSUME "tamper" \notin Disturbances
    PROVE  Spec => ReadyOnlyWhenApplied
<1>1. Init => DesiredInv
  BY DEF Init, NoVerdict, DesiredInv, AvailableAtEnd, DoneSoFar
<1>2. TypeOK /\ DesiredInv /\ [Next]_vars
        => [cluster'.status # cluster.status /\ verdict.reason = "Available"
              => objs = Desired(snapshot.spec)]_vars
  <2> SUFFICES ASSUME TypeOK, DesiredInv, [Next]_vars, cluster'.status # cluster.status,
                      verdict.reason = "Available"
               PROVE  objs = Desired(snapshot.spec)
    OBVIOUS
  <2>1. CASE WriteStatus
    <3>1. cluster.live
      BY <2>1 DEF WriteStatus
    <3> QED BY <3>1 DEF DesiredInv, AvailableAtEnd, DoneSoFar
  <2>2. CASE ~WriteStatus
    <3>1. cluster'.status = cluster.status
      BY <2>2
         DEF server, caches, queue, pass, Next, Pass, Process, User, Platform, vars, Begin,
             ApplyObject, RemoveObject, ObserveWorkloads, CheckHealth, DeliverCluster,
             DeliverWorkloads, TimerFires, Resync, Restart, UpdateSpec, DeleteCluster,
             FlipReferences, FlipReadyz, Tamper, CollectGarbage, PodBecomesReady, PodLeaves,
             PodIsLost, SetReady, TypeOK, Cluster
    <3> QED BY <3>1
  <2> QED BY <2>1, <2>2
<1> QED
  BY <1>1, <1>2, DesiredStep, TypeInit, TypeStep, PTL DEF Spec, ReadyOnlyWhenApplied

-----------------------------------------------------------------------------
(* Rest *)

(* Something is under way that will start a pass. *)
Pending == queued \/ timer \/ lagging # {} \/ cached # cluster

(* What the pass has seen of the workloads is so. *)
Seen == Available(snapshot.spec, ready) /\ verdict.ready = ready["apiDeployment"]

(* With nothing under way, all that the pass knows is up to date. *)
UpToDate ==
    /\ pc = "idle" => Settled
    /\ pc # "idle" => snapshot.spec = cluster.spec
    /\ DoneSoFar
    /\ pc = "health" \/ verdict.reason = "Available" => Seen

QuietInv == AvailableAtEnd /\ (cluster.live /\ ~Pending => UpToDate)

LEMMA Announced ==
    ASSUME TypeOK, NEW o \in Objects, NEW changed \in BOOLEAN, Announce(o, changed)
    PROVE  /\ changed => queued' \/ lagging' # {}
           /\ ~changed => queued' = queued /\ lagging' = lagging
<1>1. KindOf(o) \in Owned
  BY DEF KindOf, Owned, Objects, Workloads, Deployments, StatefulSets, Services
<1> QED BY <1>1 DEF Announce, TypeOK

LEMMA AnnounceGrows ==
    ASSUME NEW o, NEW changed, Announce(o, changed)
    PROVE  (queued => queued') /\ lagging \subseteq lagging'
  BY DEF Announce

(* A patch with an Available verdict cannot turn a status the cache does    *)
(* not know yet into the one it knows.                                     *)
LEMMA PatchNotUndone ==
    ASSUME TypeOK, PatchEffect, verdict.reason = "Available", cluster' = cached
    PROVE  cluster = cached
<1> DEFINE condition == [reason |-> verdict.reason, generation |-> cached.generation]
           base == cached.status
           new  == [observedGeneration |-> Merge(cluster.status.observedGeneration,
                                                 base.observedGeneration, cached.generation),
                    readyAPIs |-> Merge(cluster.status.readyAPIs, base.readyAPIs, verdict.ready),
                    ready |-> Merge(cluster.status.ready, base.ready, condition)]
<1>1. cluster' = [cluster EXCEPT !.status = new]
  BY DEF PatchEffect, TypeOK, Cluster
<1>2. /\ cluster \in Cluster /\ cached \in Cluster
      /\ cluster.status \in Status /\ base \in Status
  BY DEF TypeOK, Cluster
<1>3. /\ cached.live = cluster.live /\ cached.generation = cluster.generation
      /\ cached.spec = cluster.spec /\ base = new
  BY <1>1, <1>2 DEF Cluster
<1>4. /\ base.observedGeneration = cluster.status.observedGeneration
      /\ base.readyAPIs = cluster.status.readyAPIs
      /\ base.ready = cluster.status.ready
  BY <1>3 DEF Merge
<1>5. base = cluster.status
  BY <1>2, <1>4 DEF Status
<1> QED BY <1>2, <1>3, <1>5 DEF Cluster

(* Only the start of a pass uses up what is under way.                      *)
LEMMA PendingStays ==
    ASSUME TypeOK, StampInv, [Next]_vars, Pending, ~Begin, cluster'.live
    PROVE  Pending'
<1> USE DEF server, caches, queue, pass
<1>1. CASE ApplyObject \/ RemoveObject
  <2>1. \/ UNCHANGED <<lagging, queued>>
        \/ \E o, changed : Announce(o, changed)
    BY <1>1 DEF ApplyObject, RemoveObject, ApplyEffect, DeleteEffect
  <2>2. (queued => queued') /\ lagging \subseteq lagging'
    BY <2>1, AnnounceGrows
  <2>3. (timer => timer') /\ UNCHANGED <<cluster, cached>>
    BY <1>1 DEF ApplyObject, RemoveObject, Goto, Report, Return
  <2> QED BY <2>2, <2>3 DEF Pending
<1>2. ASSUME NEW o \in Objects, Tamper(o) PROVE Pending'
  <2>1. (queued => queued') /\ lagging \subseteq lagging'
    BY <1>2, AnnounceGrows DEF Tamper, DeleteEffect, Exists
  <2> QED BY <1>2, <2>1 DEF Tamper, Pending
<1>3. ASSUME NEW w \in Workloads, NEW n, SetReady(w, n) PROVE Pending'
  <2>1. (queued => queued') /\ lagging \subseteq lagging'
    BY <1>3, AnnounceGrows DEF SetReady, Objects
  <2> QED BY <1>3, <2>1 DEF SetReady, Pending
<1>4. CASE WriteStatus
  <2>1. UNCHANGED <<cached, lagging, queued>> /\ (timer => timer')
    BY <1>4 DEF WriteStatus, Return
  <2>2. CASE verdict.reason = "Available" /\ PatchEffect
    BY <2>1, <2>2, PatchNotUndone DEF Pending
  <2>3. CASE ~(verdict.reason = "Available" /\ PatchEffect)
    <3>1. timer' \/ UNCHANGED cluster
      BY <1>4, <2>3 DEF WriteStatus, Return
    <3> QED BY <2>1, <3>1 DEF Pending
  <2> QED BY <2>2, <2>3
<1>5. CASE UpdateSpec
  <2>1. PICK s \in Specs : cluster' = [cluster EXCEPT !.generation = @ + 1, !.spec = s]
    BY <1>5 DEF UpdateSpec
  <2>2. cluster'.generation = cluster.generation + 1
    BY <2>1 DEF TypeOK, Cluster
  <2>3. cached.generation \in Nat /\ cluster.generation \in Nat
    BY DEF TypeOK, Cluster
  <2>4. cached' = cached
    BY <1>5 DEF UpdateSpec
  <2> QED BY <2>2, <2>3, <2>4 DEF StampInv, Pending
<1>6. CASE DeleteCluster \/ CollectGarbage
  BY <1>6 DEF DeleteCluster, CollectGarbage, TypeOK, Cluster
<1>7. CASE Process
  BY <1>7
     DEF Process, DeliverCluster, DeliverWorkloads, TimerFires, Resync, Restart, Owned,
         ReadKinds, Pending
<1>8. CASE ObserveWorkloads \/ CheckHealth
  <2>1. UNCHANGED <<cluster, cached, lagging, queued>>
    BY <1>8 DEF ObserveWorkloads, CheckHealth
  <2>2. timer => timer'
    BY <1>8 DEF ObserveWorkloads, CheckHealth, Report, Return
  <2> QED BY <2>1, <2>2 DEF Pending
<1>9. CASE FlipReferences \/ FlipReadyz \/ UNCHANGED vars
  BY <1>9 DEF FlipReferences, FlipReadyz, vars, Pending
<1>10. ASSUME NEW w \in Workloads, PodBecomesReady(w) \/ PodLeaves(w) \/ PodIsLost(w)
       PROVE  Pending'
  BY <1>3, <1>10 DEF PodBecomesReady, PodLeaves, PodIsLost
<1> QED
  BY <1>1, <1>2, <1>4, <1>5, <1>6, <1>7, <1>8, <1>9, <1>10 DEF Next, Pass, User, Platform

LEMMA AvailableStep == AvailableAtEnd /\ [Next]_vars => AvailableAtEnd'
<1> SUFFICES ASSUME AvailableAtEnd, [Next]_vars PROVE AvailableAtEnd'
  OBVIOUS
<1> USE DEF server, caches, queue, pass
<1>1. CASE UNCHANGED <<pc, verdict>>
  BY <1>1 DEF AvailableAtEnd
<1>2. CASE pc' = "status" \/ verdict'.reason = "Progressing"
  BY <1>2 DEF AvailableAtEnd
<1>3. CASE Begin \/ ApplyObject \/ RemoveObject
  <2>1. pc # "status"
    BY <1>3 DEF Begin, ApplyObject, RemoveObject
  <2>2. verdict' = verdict \/ pc' = "status" \/ verdict' = NoVerdict
    BY <1>3 DEF Begin, ApplyObject, RemoveObject, Goto, Report, Return
  <2> QED BY <2>1, <2>2 DEF AvailableAtEnd, NoVerdict
<1>4. CASE ObserveWorkloads \/ CheckHealth \/ WriteStatus \/ Restart
  BY <1>2, <1>4
     DEF ObserveWorkloads, CheckHealth, WriteStatus, Restart, Report, Return, NoVerdict
<1> QED
  BY <1>1, <1>3, <1>4
     DEF Next, Pass, Process, User, Platform, vars, DeliverCluster, DeliverWorkloads,
         TimerFires, Resync, UpdateSpec, DeleteCluster, FlipReferences, FlipReadyz, Tamper,
         CollectGarbage, PodBecomesReady, PodLeaves, PodIsLost, SetReady

LEMMA ObserveUpToDate ==
    ASSUME TypeOK, UpToDate, lagging = {}, ObserveWorkloads, ~timer'
    PROVE  UpToDate'
<1> DEFINE spec == snapshot.spec
<1>1. /\ pc = "observe" /\ UNCHANGED <<cluster, objs, ready>>
  BY DEF ObserveWorkloads, server
<1>2. PICK seen \in [Observed(spec.mode) -> 0..MaxReplicas] :
          /\ \A w \in Observed(spec.mode) : seen[w] \in Counts(w)
          /\ pc' = IF Available(spec, seen) THEN "health" ELSE "status"
          /\ verdict' = [reason |-> "Progressing", ready |-> seen["apiDeployment"]]
          /\ step' = 0 /\ UNCHANGED <<snapshot, timer>>
  BY DEF ObserveWorkloads, Return
<1>3. \A w \in Observed(spec.mode) : seen[w] = ready[w]
  BY <1>2 DEF Counts, Stale
<1>4. "apiDeployment" \in Observed(spec.mode)
  BY DEF Observed
<1>5. /\ snapshot.spec = cluster.spec /\ objs = Desired(spec)
  BY <1>1 DEF UpToDate, DoneSoFar
<1>6. pc' = "health" => Available(spec, ready)
  BY <1>2, <1>3 DEF Available
<1>7. DoneSoFar'
  BY <1>1, <1>2, <1>5 DEF DoneSoFar
<1> QED BY <1>1, <1>2, <1>3, <1>4, <1>5, <1>6, <1>7 DEF UpToDate, Seen, Available

(* An Available verdict is written with nothing under way: the status then  *)
(* says what the pass has seen.                                            *)
LEMMA WriteSettles ==
    ASSUME TypeOK, UpToDate, cached = cluster, WriteStatus, ~timer'
    PROVE  UpToDate'
<1>1. /\ PatchEffect /\ verdict.reason = "Available"
      /\ pc = "status" /\ pc' = "idle" /\ verdict' = NoVerdict
      /\ UNCHANGED <<objs, ready>>
  BY DEF WriteStatus, Return
<1>2. /\ objs = Desired(cluster.spec) /\ Available(cluster.spec, ready)
      /\ verdict.ready = ready["apiDeployment"]
  BY <1>1 DEF UpToDate, DoneSoFar, Seen
<1>3. cluster' = [cluster EXCEPT !.status =
         [observedGeneration |-> cluster.generation, readyAPIs |-> verdict.ready,
          ready |-> [reason |-> "Available", generation |-> cluster.generation]]]
  BY <1>1 DEF PatchEffect, Merge, TypeOK, Cluster
<1>4. /\ cluster'.spec = cluster.spec /\ cluster'.generation = cluster.generation
      /\ cluster'.status.observedGeneration = cluster.generation
      /\ cluster'.status.readyAPIs = verdict.ready
      /\ cluster'.status.ready.reason = "Available"
  BY <1>3 DEF TypeOK, Cluster
<1>5. Settled'
  BY <1>1, <1>2, <1>4 DEF Settled, ReportedReady, Available
<1> QED BY <1>1, <1>5 DEF UpToDate, DoneSoFar, NoVerdict

LEMMA QuietStep == TypeOK /\ TypeOK' /\ StampInv /\ QuietInv /\ [Next]_vars => QuietInv'
<1> SUFFICES ASSUME TypeOK, TypeOK', StampInv, QuietInv, [Next]_vars, cluster'.live, ~Pending'
             PROVE  UpToDate'
  BY AvailableStep DEF QuietInv
<1> USE DEF server, caches, queue, pass
<1>live. cluster.live
  BY DEF Next, Pass, Process, User, Platform, vars, Begin, ApplyObject, RemoveObject,
         ObserveWorkloads, CheckHealth, WriteStatus, PatchEffect, DeliverCluster,
         DeliverWorkloads, TimerFires, Resync, Restart, UpdateSpec, DeleteCluster,
         FlipReferences, FlipReadyz, Tamper, CollectGarbage, PodBecomesReady, PodLeaves,
         PodIsLost, SetReady, TypeOK, Cluster
<1>1. CASE Begin
  <2>1. cached = cluster /\ UNCHANGED <<cluster, objs, ready>>
    BY <1>1 DEF Begin, Pending
  <2>2. /\ snapshot'.spec = cluster.spec
        /\ \/ pc' = "apply" /\ step' = 1 /\ UNCHANGED verdict
           \/ pc' = "status" /\ verdict'.reason = "InvalidConfiguration"
    BY <1>1, <1>live, <2>1 DEF Begin
  <2>3. verdict.reason # "Available"
    BY <1>1 DEF Begin, QuietInv, AvailableAtEnd
  <2> QED BY <2>1, <2>2, <2>3 DEF UpToDate, DoneSoFar, AsRendered
<1>2. CASE ~Begin
  <2>1. /\ ~Pending /\ UpToDate /\ AvailableAtEnd
        /\ cached = cluster /\ lagging = {} /\ ~timer'
    BY <1>live, <1>2, PendingStays DEF QuietInv, Pending
  <2>2. CASE ApplyObject
    <3>1. /\ pc = "apply" /\ UNCHANGED <<cluster, snapshot>>
          /\ pc' \in {"apply", "remove", "status"}
          /\ verdict' = verdict \/ verdict'.reason = "ReconcileFailed"
      BY <2>2 DEF ApplyObject, Goto, Report
    <3>2. DoneSoFar' /\ verdict'.reason # "Available"
      BY <2>1, <2>2, <3>1, ApplyKeepsDone DEF UpToDate, AvailableAtEnd
    <3> QED BY <2>1, <3>1, <3>2 DEF UpToDate
  <2>3. CASE RemoveObject
    <3>1. /\ pc = "remove" /\ UNCHANGED <<cluster, snapshot, verdict>>
          /\ pc' \in {"remove", "observe"}
      BY <2>1, <2>3 DEF RemoveObject, Goto, Return
    <3>2. DoneSoFar' /\ verdict'.reason # "Available"
      BY <2>1, <2>3, <3>1, RemoveKeepsDone DEF UpToDate, AvailableAtEnd
    <3> QED BY <2>1, <3>1, <3>2 DEF UpToDate
  <2>4. CASE ObserveWorkloads
    BY <2>1, <2>4, ObserveUpToDate
  <2>5. CASE CheckHealth
    <3>1. /\ pc = "health" /\ pc' = "status"
          /\ verdict'.ready = verdict.ready
          /\ UNCHANGED <<cluster, objs, ready, snapshot>>
      BY <2>5 DEF CheckHealth, Report
    <3> QED BY <2>1, <3>1 DEF UpToDate, DoneSoFar, Seen, Available
  <2>6. CASE WriteStatus
    BY <2>1, <2>6, WriteSettles
  <2>7. CASE Process
    BY <2>1, <2>7
       DEF Process, DeliverCluster, DeliverWorkloads, TimerFires, Resync, Restart, Pending
  <2>8. CASE UpdateSpec
    <3>1. cluster'.generation = cluster.generation + 1 /\ cached' = cached
      BY <2>8 DEF UpdateSpec, TypeOK, Cluster
    <3>2. cluster.generation \in Nat
      BY DEF TypeOK, Cluster
    <3> QED BY <2>1, <3>1, <3>2 DEF Pending
  <2>9. CASE DeleteCluster \/ CollectGarbage
    BY <1>live, <2>9 DEF DeleteCluster, CollectGarbage, TypeOK, Cluster
  <2>10. ASSUME NEW o \in Objects, Tamper(o) PROVE UpToDate'
    BY <2>10, Announced DEF Tamper, DeleteEffect, Exists, Pending
  <2>11. ASSUME NEW w \in Workloads, NEW n, SetReady(w, n) PROVE UpToDate'
    BY <2>11, Announced DEF SetReady, Objects, Pending
  <2>12. ASSUME NEW w \in Workloads, PodBecomesReady(w) \/ PodLeaves(w) \/ PodIsLost(w)
         PROVE  UpToDate'
    BY <2>11, <2>12 DEF PodBecomesReady, PodLeaves, PodIsLost
  <2>13. CASE FlipReferences \/ FlipReadyz \/ UNCHANGED vars
    <3>1. UNCHANGED <<cluster, objs, ready, pass>>
      BY <2>13 DEF FlipReferences, FlipReadyz, vars
    <3> QED BY <2>1, <3>1 DEF UpToDate, DoneSoFar, Settled, ReportedReady, Seen, Available
  <2> QED BY <1>2, <2>2, <2>3, <2>4, <2>5, <2>6, <2>7, <2>8, <2>9, <2>10, <2>12, <2>13
          DEF Next, Pass, User, Platform
<1> QED BY <1>1, <1>2

(* When nothing is left that would start a pass, the objects and the status *)
(* are as the spec says: for every spec, with stale caches, failures,      *)
(* crashes, lost pods and deleted objects at any step.                     *)
THEOREM RestIsAccurate == Spec => []QuietIsAccurate
<1>1. Init => StampInv /\ QuietInv
  BY DEF Init, StampInv, GenerationsAgree, NoStatus, QuietInv, AvailableAtEnd, NoVerdict, Pending
<1>2. QuietInv => QuietIsAccurate
  BY DEF QuietInv, Pending, UpToDate, QuietIsAccurate, Quiet
<1> QED BY <1>1, <1>2, TypeInit, TypeStep, StampStep, QuietStep, PTL DEF Spec

-----------------------------------------------------------------------------
(* The contract *)

(* The history is what it says: the caches and the pass hold requests that *)
(* were made, each under its own generation.                               *)
HistoryInv ==
    /\ asked \in Seq(Specs) /\ Len(asked) = cluster.generation
    /\ asked[cluster.generation] = cluster.spec
    /\ asked[cached.generation] = cached.spec
    /\ working \in Nat \ {0} /\ working <= cached.generation
    /\ pc # "idle" => working = snapshot.generation /\ asked[working] = snapshot.spec

Inv == TypeOK /\ StampInv /\ DesiredInv

LEMMA InvInit == Init => Inv
<1>1. Init => StampInv
  BY DEF Init, StampInv, GenerationsAgree, NoStatus
<1>2. Init => DesiredInv
  BY DEF Init, NoVerdict, DesiredInv, AvailableAtEnd, DoneSoFar
<1> QED BY <1>1, <1>2, TypeInit DEF Inv

LEMMA InvStep ==
    ASSUME "tamper" \notin Disturbances
    PROVE  Inv /\ [Next]_vars => Inv'
  BY TypeStep, StampStep, DesiredStep DEF Inv

(* Only a user changes the spec and the generation.                         *)
LEMMA GenerationStep ==
    ASSUME TypeOK, [Next]_vars
    PROVE  \/ cluster'.generation = cluster.generation /\ cluster'.spec = cluster.spec
           \/ UpdateSpec /\ cluster'.generation = cluster.generation + 1
<1> USE DEF server, caches, queue, pass
<1>1. CASE UpdateSpec
  BY <1>1 DEF UpdateSpec, TypeOK, Cluster
<1>2. CASE WriteStatus \/ DeleteCluster
  BY <1>2 DEF WriteStatus, PatchEffect, DeleteCluster, TypeOK, Cluster
<1>3. CASE UNCHANGED cluster
  BY <1>3
<1> QED
  BY <1>1, <1>2, <1>3
     DEF Next, Pass, Process, User, Platform, vars, Begin, ApplyObject, RemoveObject,
         ObserveWorkloads, CheckHealth, DeliverCluster, DeliverWorkloads, TimerFires,
         Resync, Restart, FlipReferences, FlipReadyz, Tamper, CollectGarbage,
         PodBecomesReady, PodLeaves, PodIsLost, SetReady

(* A pass works from what the cache held when it began.                     *)
LEMMA SnapshotStep ==
    ASSUME TypeOK, [Next]_vars, pc' # "idle"
    PROVE  \/ pc # "idle" /\ UNCHANGED snapshot
           \/ /\ Begin /\ UNCHANGED cached
              /\ snapshot' = [generation |-> cached.generation, spec |-> cached.spec]
<1> USE DEF server, caches, queue, pass
<1>1. CASE Begin
  BY <1>1 DEF Begin
<1>2. CASE ApplyObject \/ RemoveObject \/ ObserveWorkloads \/ CheckHealth
  BY <1>2 DEF ApplyObject, RemoveObject, ObserveWorkloads, CheckHealth, Goto, Report, Return
<1>3. CASE WriteStatus \/ Restart
  BY <1>3 DEF WriteStatus, Restart, Return
<1>4. CASE UNCHANGED pass
  BY <1>4
<1> QED
  BY <1>1, <1>2, <1>3, <1>4
     DEF Next, Pass, Process, User, Platform, vars, DeliverCluster, DeliverWorkloads,
         TimerFires, Resync, UpdateSpec, DeleteCluster, FlipReferences, FlipReadyz, Tamper,
         CollectGarbage, PodBecomesReady, PodLeaves, PodIsLost, SetReady

LEMMA CacheStep == [Next]_vars => cached' = cached \/ cached' = cluster
  BY DEF Next, Pass, Process, User, Platform, vars, server, caches, queue, pass, Begin,
         ApplyObject, RemoveObject, ObserveWorkloads, CheckHealth, WriteStatus,
         DeliverCluster, DeliverWorkloads, TimerFires, Resync, Restart, UpdateSpec,
         DeleteCluster, FlipReferences, FlipReadyz, Tamper, CollectGarbage,
         PodBecomesReady, PodLeaves, PodIsLost, SetReady

LEMMA HistoryStep ==
    ASSUME TypeOK, StampInv, HistoryInv, [HistoryNext]_historyVars
    PROVE  HistoryInv'
<1>1. [Next]_vars
  BY DEF HistoryNext, historyVars
<1>nat. /\ cluster.generation \in Nat \ {0} /\ cached.generation \in Nat \ {0}
        /\ cluster.spec \in Specs /\ cached.generation <= cluster.generation
  BY DEF TypeOK, Cluster, StampInv
<1>2. /\ asked' \in Seq(Specs) /\ Len(asked') = cluster'.generation
      /\ asked'[cluster'.generation] = cluster'.spec
      /\ \A g \in 1..cluster.generation : asked'[g] = asked[g]
  <2>1. CASE cluster'.generation = cluster.generation /\ cluster'.spec = cluster.spec
    <3>1. asked' = asked
      BY <2>1 DEF HistoryNext, historyVars
    <3> QED BY <2>1, <3>1 DEF HistoryInv
  <2>2. CASE UpdateSpec /\ cluster'.generation = cluster.generation + 1
    <3>1. cluster'.spec \in Specs
      BY <2>2 DEF UpdateSpec, TypeOK, Cluster
    <3>2. asked' = Append(asked, cluster'.spec)
      BY <1>nat, <2>2 DEF HistoryNext, historyVars, vars, server
    <3> QED BY <1>nat, <2>2, <3>1, <3>2 DEF HistoryInv
  <2> QED BY <1>1, <2>1, <2>2, GenerationStep
<1>3. /\ cached' = cached \/ cached' = cluster
      /\ cached.generation <= cached'.generation
      /\ asked'[cached'.generation] = cached'.spec
  BY <1>1, <1>2, <1>nat, CacheStep DEF HistoryInv
<1>4. CASE pc' = "idle"
  <2>1. working' = working
    BY <1>4 DEF HistoryNext, historyVars
  <2> QED BY <1>2, <1>3, <1>4, <1>nat, <2>1 DEF HistoryInv
<1>5. CASE pc' # "idle"
  <2>1. working' = snapshot'.generation \/ UNCHANGED <<pc, snapshot, working>>
    BY <1>5 DEF HistoryNext, historyVars, vars, pass
  <2>2. CASE pc # "idle" /\ UNCHANGED snapshot
    <3>1. working' = working
      BY <2>1, <2>2 DEF HistoryInv
    <3> QED BY <1>2, <1>3, <1>nat, <2>2, <3>1 DEF HistoryInv
  <2>3. CASE /\ Begin /\ UNCHANGED cached
             /\ snapshot' = [generation |-> cached.generation, spec |-> cached.spec]
    <3>1. working' = cached.generation
      BY <1>5, <2>1, <2>3 DEF Begin
    <3> QED BY <1>2, <1>3, <1>nat, <2>3, <3>1 DEF HistoryInv
  <2> QED BY <1>1, <1>5, <2>2, <2>3, SnapshotStep
<1> QED BY <1>4, <1>5

(* What the spec of a pass asks for, by the lists the pass walks.           *)
LEMMA DesiredApplied ==
    ASSUME NEW s \in Specs, NEW k \in 1..Len(ApplyOrder(s.mode))
    PROVE  /\ ApplyOrder(s.mode)[k] \in Objects
           /\ Desired(s)[ApplyOrder(s.mode)[k]] = Rendered(s, ApplyOrder(s.mode)[k])
           /\ Desired(s)[ApplyOrder(s.mode)[k]] # None
<1> DEFINE o == ApplyOrder(s.mode)[k]
<1>1. /\ o \in Objects /\ s.mode \in Modes
      /\ DOMAIN ApplyOrder(s.mode) = 1..Len(ApplyOrder(s.mode))
  BY SpecFields, ApplyOrderType
<1>2. Rendered(s, o) # None
  BY <1>1, RenderedType, ReconcilerAssumption
<1> QED BY <1>1, <1>2 DEF Desired

LEMMA DesiredRemoved ==
    ASSUME NEW s \in Specs, NEW k \in 1..Len(RemoveOrder(s.mode))
    PROVE  /\ RemoveOrder(s.mode)[k] \in Objects
           /\ Desired(s)[RemoveOrder(s.mode)[k]] = None
<1> DEFINE o == RemoveOrder(s.mode)[k]
<1>1. /\ o \in Objects /\ s.mode \in Modes
      /\ DOMAIN ApplyOrder(s.mode) = 1..Len(ApplyOrder(s.mode))
  BY SpecFields, ApplyOrderType, RemoveOrderType
<1>2. \A j \in 1..Len(ApplyOrder(s.mode)) : ApplyOrder(s.mode)[j] # o
  BY <1>1, OrdersPartition
<1> QED BY <1>1, <1>2 DEF Desired

(* A finished apply loop has brought about all that is wanted.              *)
LEMMA RenderedIsDesired ==
    ASSUME NEW s \in Specs, NEW os, AsRendered(os, s, Len(ApplyOrder(s.mode))),
           NEW o \in Objects, Desired(s)[o] # None
    PROVE  os[o] = Desired(s)[o]
<1>1. DOMAIN ApplyOrder(s.mode) = 1..Len(ApplyOrder(s.mode))
  BY SpecFields, ApplyOrderType
<1>2. PICK k \in 1..Len(ApplyOrder(s.mode)) : ApplyOrder(s.mode)[k] = o
  BY <1>1 DEF Desired
<1> QED BY <1>2, DesiredApplied DEF AsRendered

(* A condition becomes True, or True of another generation, by a verdict of *)
(* the pass, although a patch may leave the condition as it is.            *)
LEMMA PatchReports ==
    ASSUME TypeOK, StampInv, PatchEffect, ReportedReady',
           ~ReportedReady \/ cached.generation # cluster.status.observedGeneration
    PROVE  verdict.reason = "Available"
<1> DEFINE condition == [reason |-> verdict.reason, generation |-> cached.generation]
<1>1. PICK newMessage \in BOOLEAN :
        cluster' = [cluster EXCEPT !.status =
            [observedGeneration |-> Merge(@.observedGeneration,
                                          cached.status.observedGeneration,
                                          cached.generation),
             readyAPIs |-> Merge(@.readyAPIs, cached.status.readyAPIs, verdict.ready),
             ready |-> IF newMessage THEN condition
                       ELSE Merge(@.ready, cached.status.ready, condition)]]
  BY DEF PatchEffect
<1>2. cluster'.status.ready = condition \/ cluster'.status.ready = cluster.status.ready
  BY <1>1 DEF Merge, TypeOK, Cluster
<1>3. CASE cluster'.status.ready = cluster.status.ready
  BY <1>3, PatchStamps DEF ReportedReady, StampInv, GenerationsAgree
<1> QED BY <1>2, <1>3 DEF ReportedReady

(* Whatever the pass is up to, its spec is the goal of the contract.        *)
LEMMA GoalIsDesired ==
    ASSUME TypeOK, HistoryInv, pc # "idle"
    PROVE  /\ snapshot.spec \in Specs
           /\ Contract!Goal = Desired(snapshot.spec)
<1>1. snapshot.spec \in Specs /\ asked[working] = snapshot.spec
  BY DEF TypeOK, Snapshot, HistoryInv
<1> QED BY <1>1 DEF Contract!Goal, Wants

LEMMA ContractInit == HistoryInit => Contract!Init
<1> SUFFICES ASSUME HistoryInit PROVE Contract!Init
  OBVIOUS
<1>1. PICK s \in Specs :
        cluster = [live |-> TRUE, generation |-> 1, spec |-> s, status |-> NoStatus]
  BY DEF HistoryInit, Init
<1> QED BY <1>1 DEF HistoryInit, Init, Contract!Init, NoStatus, ReportedReady

(* The steps of the contract's variables that the steps of the pass are.    *)
LEMMA ApplyKeepsContract ==
    ASSUME TypeOK, HistoryInv, ApplyObject, HistoryNext
    PROVE  (\E o \in Objects : Contract!Apply(o)) \/ UNCHANGED Contract!contractVars
<1>1. /\ pc = "apply" /\ pc' # "idle" /\ UNCHANGED <<cluster, snapshot>>
  BY DEF ApplyObject, Goto, Report
<1>2. asked' = asked /\ working' = working
  BY <1>1 DEF HistoryNext, HistoryInv
<1> DEFINE o == ApplyOrder(snapshot.spec.mode)[step]
<1>3. /\ snapshot.spec \in Specs /\ Contract!Goal = Desired(snapshot.spec)
      /\ step \in 1..Len(ApplyOrder(snapshot.spec.mode))
  BY <1>1, GoalIsDesired, SpecFields, ApplyOrderType DEF TypeOK
<1>4. /\ o \in Objects /\ Contract!Goal[o] # None
      /\ Contract!Goal[o] = Rendered(snapshot.spec, o)
  BY <1>3, DesiredApplied
<1>5. objs' = [objs EXCEPT ![o] = Contract!Goal[o]] \/ UNCHANGED objs
  BY <1>4 DEF ApplyObject, ApplyEffect
<1> HIDE DEF o
<1> QED BY <1>1, <1>2, <1>4, <1>5 DEF Contract!Apply, Contract!contractVars, ReportedReady

LEMMA RemoveKeepsContract ==
    ASSUME TypeOK, HistoryInv, DesiredInv, RemoveObject, HistoryNext
    PROVE  (\E o \in Objects : Contract!Remove(o)) \/ UNCHANGED Contract!contractVars
<1>1. pc = "remove" /\ UNCHANGED cluster /\ (pc' # "idle" => UNCHANGED snapshot)
  BY DEF RemoveObject, Goto, Return
<1>2. asked' = asked /\ working' = working
  BY <1>1 DEF HistoryNext, HistoryInv
<1> DEFINE o == RemoveOrder(snapshot.spec.mode)[step]
<1>3. /\ snapshot.spec \in Specs /\ Contract!Goal = Desired(snapshot.spec)
      /\ step \in 1..Len(RemoveOrder(snapshot.spec.mode))
  BY <1>1, GoalIsDesired, SpecFields, RemoveOrderType DEF TypeOK
<1>4. o \in Objects /\ Contract!Goal[o] = None
  BY <1>3, DesiredRemoved
<1>5. cluster.live => Contract!AllApplied
  BY <1>1, <1>3, RenderedIsDesired DEF DesiredInv, DoneSoFar, Contract!AllApplied
<1>6. objs' = [objs EXCEPT ![o] = None] \/ UNCHANGED objs
  BY DEF RemoveObject, DeleteEffect
<1> HIDE DEF o
<1> QED BY <1>1, <1>2, <1>4, <1>5, <1>6 DEF Contract!Remove, Contract!contractVars, ReportedReady

LEMMA WriteKeepsContract ==
    ASSUME TypeOK, StampInv, HistoryInv, DesiredInv, WriteStatus, HistoryNext
    PROVE  \/ \E g \in DOMAIN asked, v \in BOOLEAN : Contract!Report(g, v)
           \/ UNCHANGED Contract!contractVars
<1>1. pc = "status" /\ pc' = "idle" /\ UNCHANGED objs
  BY DEF WriteStatus, Return
<1>2. working' = working
  BY <1>1 DEF HistoryNext
<1>3. CASE UNCHANGED cluster
  BY <1>1, <1>2, <1>3 DEF HistoryNext, Contract!contractVars, ReportedReady
<1>4. CASE cluster.live /\ PatchEffect
  <2>1. /\ cluster'.live = cluster.live /\ asked' = asked
        /\ cluster'.status.observedGeneration = cached.generation
    BY <1>4, PatchStamps DEF HistoryNext, PatchEffect, TypeOK, Cluster
  <2>2. /\ cached.generation \in DOMAIN asked /\ cached.generation <= Len(asked)
        /\ working <= cached.generation
        /\ cluster.status.observedGeneration <= cached.generation
    BY DEF HistoryInv, StampInv, TypeOK, Cluster
  <2>3. Contract!Goal = Desired(snapshot.spec)
    BY <1>1, GoalIsDesired
  <2>4. ReportedReady' /\ (~ReportedReady \/ cached.generation # cluster.status.observedGeneration)
          => objs = Contract!Goal
    BY <1>4, <2>3, PatchReports DEF DesiredInv, DoneSoFar
  <2>5. ReportedReady' \in BOOLEAN
    BY DEF ReportedReady
  <2>6. Contract!Report(cached.generation, ReportedReady')
    BY <1>1, <1>2, <1>4, <2>1, <2>2, <2>4 DEF Contract!Report
  <2> QED BY <2>2, <2>5, <2>6
<1> QED BY <1>3, <1>4 DEF WriteStatus

LEMMA ContractStep ==
    ASSUME "tamper" \notin Disturbances, Inv, HistoryInv, [HistoryNext]_historyVars
    PROVE  [Contract!Next]_Contract!contractVars
<1> USE DEF server, caches, queue, pass
<1>0. TypeOK /\ StampInv /\ DesiredInv
  BY DEF Inv
<1>1. CASE UNCHANGED historyVars
  BY <1>1 DEF historyVars, vars, Contract!contractVars, ReportedReady
<1>2. CASE HistoryNext
  <2>1. CASE ApplyObject
    BY <1>0, <1>2, <2>1, ApplyKeepsContract DEF Contract!Next
  <2>2. CASE RemoveObject
    BY <1>0, <1>2, <2>2, RemoveKeepsContract DEF Contract!Next
  <2>3. CASE WriteStatus
    BY <1>0, <1>2, <2>3, WriteKeepsContract DEF Contract!Next
  <2>4. CASE Begin
    <3>1. UNCHANGED <<cluster, objs, asked>>
      BY <1>2, <2>4 DEF Begin, HistoryNext
    <3>2. CASE pc' = "idle"
      BY <1>2, <3>1, <3>2 DEF HistoryNext, Contract!contractVars, ReportedReady
    <3>3. CASE pc' # "idle"
      <4>1. working' = cached.generation
        BY <1>2, <2>4, <3>3 DEF Begin, HistoryNext
      <4>2. /\ cached.generation \in DOMAIN asked /\ cached.generation <= Len(asked)
            /\ working <= cached.generation
        BY <1>0 DEF HistoryInv, StampInv, TypeOK, Cluster
      <4>3. Contract!Take(cached.generation)
        BY <3>1, <4>1, <4>2 DEF Contract!Take, ReportedReady
      <4> QED BY <4>2, <4>3 DEF Contract!Next
    <3> QED BY <3>2, <3>3
  <2>5. CASE UpdateSpec
    <3>1. PICK s \in Specs : cluster' = [cluster EXCEPT !.generation = @ + 1, !.spec = s]
      BY <2>5 DEF UpdateSpec
    <3>2. /\ cluster'.generation # cluster.generation /\ cluster'.spec = s
          /\ cluster'.live = cluster.live /\ cluster'.status = cluster.status
      BY <1>0, <3>1 DEF TypeOK, Cluster
    <3>3. asked' = Append(asked, s) /\ working' = working
      BY <1>2, <2>5, <3>2 DEF HistoryNext, UpdateSpec, HistoryInv
    <3>4. Contract!Ask(s)
      BY <2>5, <3>2, <3>3 DEF UpdateSpec, Contract!Ask, ReportedReady
    <3> QED BY <3>4 DEF Contract!Next
  <2>6. CASE DeleteCluster
    <3>1. /\ cluster'.generation = cluster.generation /\ cluster'.live = FALSE
          /\ cluster'.status = cluster.status
      BY <1>0, <2>6 DEF DeleteCluster, TypeOK, Cluster
    <3>2. asked' = asked /\ working' = working
      BY <1>2, <2>6, <3>1 DEF HistoryNext, DeleteCluster, HistoryInv
    <3> QED BY <2>6, <3>1, <3>2
            DEF DeleteCluster, Contract!Withdraw, Contract!Next, ReportedReady
  <2>7. CASE CollectGarbage
    <3>1. asked' = asked /\ working' = working
      BY <1>2, <2>7 DEF HistoryNext, CollectGarbage, HistoryInv
    <3> QED BY <2>7, <3>1
            DEF CollectGarbage, Contract!Collect, Contract!Next, ReportedReady
  <2>8. ASSUME UNCHANGED <<cluster, objs>>,
               pc' = "idle" \/ (pc # "idle" /\ UNCHANGED snapshot)
        PROVE  [Contract!Next]_Contract!contractVars
    <3>1. asked' = asked /\ working' = working
      BY <1>2, <2>8 DEF HistoryNext, HistoryInv
    <3> QED BY <2>8, <3>1 DEF Contract!contractVars, ReportedReady
  <2>9. CASE ObserveWorkloads \/ CheckHealth \/ Restart
    <3>1. /\ UNCHANGED <<cluster, objs>>
          /\ pc' = "idle" \/ (pc # "idle" /\ UNCHANGED snapshot)
      BY <2>9 DEF ObserveWorkloads, CheckHealth, Report, Return, Restart
    <3> QED BY <2>8, <3>1
  <2>10. CASE UNCHANGED <<cluster, objs, pass>>
    <3>1. /\ UNCHANGED <<cluster, objs>>
          /\ pc' = "idle" \/ (pc # "idle" /\ UNCHANGED snapshot)
      BY <2>10
    <3> QED BY <2>8, <3>1
  <2> QED
    BY <1>2, <2>1, <2>2, <2>3, <2>4, <2>5, <2>6, <2>7, <2>9, <2>10
       DEF HistoryNext, Next, Pass, Process, User, Platform, DeliverCluster,
           DeliverWorkloads, TimerFires, Resync, FlipReferences, FlipReadyz, Tamper,
           Disturb, PodBecomesReady, PodLeaves, PodIsLost, SetReady
<1> QED BY <1>1, <1>2

LEMMA HistoryIsSpec == HistorySpec => Spec
<1>1. HistoryInit => Init
  BY DEF HistoryInit
<1>2. [HistoryNext]_historyVars => [Next]_vars
  BY DEF HistoryNext, historyVars
<1> QED BY <1>1, <1>2, PTL DEF HistorySpec, Spec

LEMMA HistoryStart == HistoryInit => Inv /\ HistoryInv
<1> SUFFICES ASSUME HistoryInit PROVE Inv /\ HistoryInv
  OBVIOUS
<1>1. Inv /\ Init
  BY InvInit DEF HistoryInit
<1>2. /\ cluster.generation = 1 /\ cluster.spec \in Specs /\ cached = cluster
      /\ pc = "idle" /\ asked = <<cluster.spec>> /\ working = 1
  BY <1>1 DEF HistoryInit, Init
<1> QED BY <1>1, <1>2 DEF HistoryInv

(* Whatever the specs, the staleness of the caches, the failures and the    *)
(* crashes: the Go controller makes only the moves of the contract.        *)
THEOREM GoImplementsContract ==
    ASSUME "tamper" \notin Disturbances
    PROVE  HistorySpec => ImplementsContract
<1>1. HistoryInit => Inv /\ HistoryInv /\ Contract!Init
  BY HistoryStart, ContractInit
<1>2. Inv /\ HistoryInv /\ [HistoryNext]_historyVars
        => Inv' /\ HistoryInv' /\ [Contract!Next]_Contract!contractVars
  <2> SUFFICES ASSUME Inv, HistoryInv, [HistoryNext]_historyVars
               PROVE  Inv' /\ HistoryInv' /\ [Contract!Next]_Contract!contractVars
    OBVIOUS
  <2>1. [Next]_vars
    BY DEF HistoryNext, historyVars
  <2> QED BY <2>1, InvStep, HistoryStep, ContractStep DEF Inv
<1> QED BY <1>1, <1>2, PTL DEF HistorySpec, ImplementsContract, Contract!Spec

-----------------------------------------------------------------------------
(* What users may rely on *)

(* The numbers and functions the contract speaks of are such.              *)
AccountTyped ==
    /\ asked \in Seq(Specs)
    /\ working \in 1..Len(asked)
    /\ objs \in [Objects -> Manifests \cup {None}]

LEMMA AccountIsTyped == ASSUME Inv, HistoryInv PROVE AccountTyped
  BY DEF Inv, TypeOK, StampInv, Cluster, HistoryInv, AccountTyped

(* Requests are never forgotten, and the work never goes back to one.      *)
LEMMA RequestsStay ==
    ASSUME AccountTyped, [Contract!Next]_Contract!contractVars
    PROVE  /\ working <= working'
           /\ \A g \in 1..Len(asked) : g \in 1..Len(asked') /\ asked'[g] = asked[g]
  BY DEF AccountTyped, Contract!Next, Contract!Ask, Contract!Withdraw, Contract!Take,
         Contract!Apply, Contract!Remove, Contract!Report, Contract!Collect,
         Contract!contractVars

LEMMA NothingUnaskedStep ==
    ASSUME AccountTyped, AccountTyped', Contract!NothingUnasked,
           [Contract!Next]_Contract!contractVars
    PROVE  Contract!NothingUnasked'
<1> SUFFICES ASSUME NEW o \in Objects, objs'[o] # None
             PROVE  \E g \in 1..working' : objs'[o] = Wants[asked'[g]][o]
  BY DEF Contract!NothingUnasked
<1>1. CASE objs'[o] = objs[o]
  <2>1. PICK g \in 1..working : objs[o] = Wants[asked[g]][o]
    BY <1>1 DEF Contract!NothingUnasked
  <2>2. g \in 1..Len(asked) /\ g \in 1..working'
    BY RequestsStay DEF AccountTyped
  <2> QED BY <1>1, <2>1, <2>2, RequestsStay
<1>2. CASE objs'[o] = Wants[asked[working]][o] /\ UNCHANGED <<asked, working>>
  BY <1>2 DEF AccountTyped
<1> QED
  BY <1>1, <1>2
     DEF AccountTyped, Contract!Next, Contract!Ask, Contract!Withdraw, Contract!Take,
         Contract!Apply, Contract!Remove, Contract!Report, Contract!Collect, Contract!Goal,
         Contract!contractVars

LEMMA CompleteStep ==
    ASSUME AccountTyped, AccountTyped', cluster.live, Contract!Complete,
           [Contract!Next]_Contract!contractVars
    PROVE  Contract!Complete'
<1>1. PICK g \in 1..Len(asked) :
        \A o \in Objects : Wants[asked[g]][o] # None => objs[o] # None
  BY DEF Contract!Complete, AccountTyped
<1>2. CASE \A o \in Objects : objs[o] # None => objs'[o] # None
  BY <1>1, <1>2, RequestsStay DEF Contract!Complete, AccountTyped
<1>3. ASSUME NEW o \in Objects, Contract!Remove(o) PROVE Contract!Complete'
  <2>1. \A p \in Objects : Wants[asked[working]][p] # None => objs'[p] # None
    BY <1>3 DEF Contract!Remove, Contract!AllApplied, Contract!Goal, AccountTyped
  <2> QED BY <1>3, <2>1 DEF Contract!Remove, Contract!Complete, AccountTyped
<1> QED
  BY <1>2, <1>3
     DEF AccountTyped, Contract!Next, Contract!Ask, Contract!Withdraw, Contract!Take,
         Contract!Apply, Contract!Report, Contract!Collect, Contract!Goal,
         Contract!contractVars

LEMMA ObservedStep ==
    ASSUME TypeOK, [Contract!Next]_Contract!contractVars
    PROVE  cluster.status.observedGeneration <= cluster'.status.observedGeneration
  BY DEF TypeOK, Cluster, Status, Contract!Next, Contract!Ask, Contract!Withdraw,
         Contract!Take, Contract!Apply, Contract!Remove, Contract!Report,
         Contract!Collect, Contract!contractVars

(* However stale its caches and wherever it fails or crashes: no object is  *)
(* ever there that no request up to the one being worked for has asked for; *)
(* once all objects of some request exist, it never leaves a live cluster   *)
(* with those of none; and the reported generation never goes back.        *)
THEOREM GoKeepsPromises ==
    ASSUME "tamper" \notin Disturbances
    PROVE  HistorySpec => /\ []Contract!NothingUnasked
                          /\ Contract!CompleteStays
                          /\ Contract!ObservedGrows
<1> DEFINE All == Inv /\ HistoryInv /\ Contract!NothingUnasked
<1>1. HistoryInit => All
  <2>1. HistoryInit => Contract!NothingUnasked
    BY DEF HistoryInit, Init, Contract!NothingUnasked
  <2> QED BY <2>1, HistoryStart
<1>2. All /\ [HistoryNext]_historyVars => All'
  <2> SUFFICES ASSUME Inv, HistoryInv, Contract!NothingUnasked, [HistoryNext]_historyVars
               PROVE  All'
    OBVIOUS
  <2>1. Inv'
    <3>1. [Next]_vars
      BY DEF HistoryNext, historyVars
    <3> QED BY <3>1, InvStep
  <2>2. HistoryInv'
    BY HistoryStep DEF Inv
  <2>3. AccountTyped /\ AccountTyped'
    <3>1. AccountTyped
      BY AccountIsTyped
    <3>2. AccountTyped'
      BY <2>1, <2>2 DEF Inv, TypeOK, StampInv, Cluster, HistoryInv, AccountTyped
    <3> QED BY <3>1, <3>2
  <2>4. [Contract!Next]_Contract!contractVars
    BY ContractStep
  <2>5. Contract!NothingUnasked'
    BY <2>3, <2>4, NothingUnaskedStep
  <2> QED BY <2>1, <2>2, <2>5
<1>3. All /\ All' /\ [HistoryNext]_historyVars
        => /\ [cluster.live /\ Contract!Complete => Contract!Complete']_Contract!contractVars
           /\ [cluster.status.observedGeneration <= (cluster.status.observedGeneration)']_Contract!contractVars
  <2> SUFFICES ASSUME Inv, HistoryInv, Inv', HistoryInv', [HistoryNext]_historyVars
               PROVE  /\ cluster.live /\ Contract!Complete => Contract!Complete'
                      /\ cluster.status.observedGeneration <= cluster'.status.observedGeneration
    OBVIOUS
  <2>1. AccountTyped
    BY AccountIsTyped
  <2>2. AccountTyped'
    BY DEF Inv, TypeOK, StampInv, Cluster, HistoryInv, AccountTyped
  <2>3. [Contract!Next]_Contract!contractVars
    BY ContractStep
  <2> QED BY <2>1, <2>2, <2>3, CompleteStep, ObservedStep DEF Inv
<1>4. All => Contract!NothingUnasked
  OBVIOUS
<1> HIDE DEF All
<1> QED BY <1>1, <1>2, <1>3, <1>4, PTL
        DEF HistorySpec, Contract!CompleteStays, Contract!ObservedGrows
=============================================================================
