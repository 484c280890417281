-------------------------- MODULE CubeResourcesProofs --------------------------
(* Facts about the lists of objects and the builders that hold for every    *)
(* set of specs.  The proofs about both controllers rest on them.           *)
EXTENDS CubeResources, TLAPS

LEMMA ApplyOrderType ==
    ASSUME NEW mode \in Modes
    PROVE  /\ Len(ApplyOrder(mode)) \in Nat \ {0}
           /\ DOMAIN ApplyOrder(mode) = 1..Len(ApplyOrder(mode))
           /\ \A k \in 1..Len(ApplyOrder(mode)) : ApplyOrder(mode)[k] \in Objects
<1>1. CASE mode = "clustered"
  <2>1. Len(ApplyOrder(mode)) = 9 /\ DOMAIN ApplyOrder(mode) = 1..9
    BY <1>1 DEF ApplyOrder
  <2>2. \A k \in 1..9 : ApplyOrder(mode)[k] \in Objects
    BY <1>1 DEF ApplyOrder, Objects, Workloads, Deployments, StatefulSets, Services
  <2> QED BY <2>1, <2>2
<1>2. CASE mode = "single"
  <2>1. Len(ApplyOrder(mode)) = 7 /\ DOMAIN ApplyOrder(mode) = 1..7
    BY <1>2 DEF ApplyOrder
  <2>2. \A k \in 1..7 : ApplyOrder(mode)[k] \in Objects
    BY <1>2 DEF ApplyOrder, Objects, Workloads, Deployments, StatefulSets, Services
  <2> QED BY <2>1, <2>2
<1> QED BY <1>1, <1>2 DEF Modes

LEMMA RemoveOrderType ==
    ASSUME NEW mode \in Modes
    PROVE  /\ Len(RemoveOrder(mode)) \in Nat \ {0}
           /\ DOMAIN RemoveOrder(mode) = 1..Len(RemoveOrder(mode))
           /\ \A k \in 1..Len(RemoveOrder(mode)) : RemoveOrder(mode)[k] \in Objects
<1>1. CASE mode = "clustered"
  <2>1. Len(RemoveOrder(mode)) = 2 /\ DOMAIN RemoveOrder(mode) = 1..2
    BY <1>1 DEF RemoveOrder
  <2>2. \A k \in 1..2 : RemoveOrder(mode)[k] \in Objects
    BY <1>1 DEF RemoveOrder, Objects, Workloads, Deployments, StatefulSets, Services
  <2> QED BY <2>1, <2>2
<1>2. CASE mode = "single"
  <2>1. Len(RemoveOrder(mode)) = 4 /\ DOMAIN RemoveOrder(mode) = 1..4
    BY <1>2 DEF RemoveOrder
  <2>2. \A k \in 1..4 : RemoveOrder(mode)[k] \in Objects
    BY <1>2 DEF RemoveOrder, Objects, Workloads, Deployments, StatefulSets, Services
  <2> QED BY <2>1, <2>2
<1> QED BY <1>1, <1>2 DEF Modes

(* Every object of a topology is applied by a pass in its mode, and none is *)
(* removed by one.                                                         *)
LEMMA StoreIsApplied ==
    ASSUME NEW mode \in Modes, NEW o \in StoreObjects(mode)
    PROVE  \E k \in 1..Len(ApplyOrder(mode)) : ApplyOrder(mode)[k] = o
  BY DEF Modes, ApplyOrder, StoreObjects

LEMMA StoreIsKept ==
    ASSUME NEW mode \in Modes, NEW k \in 1..Len(RemoveOrder(mode))
    PROVE  RemoveOrder(mode)[k] \notin StoreObjects(mode)
  BY DEF Modes, RemoveOrder, StoreObjects

LEMMA StoreObjectsAreObjects ==
    ASSUME NEW mode \in Modes
    PROVE  StoreObjects(mode) \subseteq Objects
  BY DEF Modes, StoreObjects, Objects, Workloads, Deployments, StatefulSets, Services

(* A pass has every object either to apply or to remove. *)
LEMMA OrdersPartition ==
    ASSUME NEW mode \in Modes, NEW o \in Objects
    PROVE  \/ /\ \E k \in 1..Len(ApplyOrder(mode)) : ApplyOrder(mode)[k] = o
              /\ \A k \in 1..Len(RemoveOrder(mode)) : RemoveOrder(mode)[k] # o
           \/ /\ \E k \in 1..Len(RemoveOrder(mode)) : RemoveOrder(mode)[k] = o
              /\ \A k \in 1..Len(ApplyOrder(mode)) : ApplyOrder(mode)[k] # o
<1>1. CASE mode = "clustered"
  BY <1>1 DEF ApplyOrder, RemoveOrder, Objects, Workloads, Deployments, StatefulSets, Services
<1>2. CASE mode = "single"
  BY <1>2 DEF ApplyOrder, RemoveOrder, Objects, Workloads, Deployments, StatefulSets, Services
<1> QED BY <1>1, <1>2 DEF Modes

-----------------------------------------------------------------------------
(* Specs and manifests *)

LEMMA SpecFields ==
    ASSUME NEW s \in Specs
    PROVE  /\ s.mode \in Modes /\ s.valid \in BOOLEAN
           /\ s.api \in Nat /\ s.refresh \in Nat /\ s.workers \in Nat
  BY SpecsAssumption

LEMMA RenderedType ==
    ASSUME NEW s \in Specs, NEW o \in Objects
    PROVE  Rendered(s, o) \in Manifests
  BY SpecFields DEF Rendered, Manifests, Expected, CubeStoreHost

-----------------------------------------------------------------------------
(* The two loops of a pass *)

(* Among os the first n objects of a pass are as its spec has them. *)
AsRendered(os, spec, n) ==
    \A o \in Objects : \A k \in 1..n :
        ApplyOrder(spec.mode)[k] = o => os[o] = Rendered(spec, o)

(* Among os the first n obsolete objects are gone. *)
AsRemoved(os, spec, n, gone) ==
    \A o \in Objects : \A k \in 1..n : RemoveOrder(spec.mode)[k] = o => os[o] = gone

LEMMA OneMoreRendered ==
    ASSUME NEW spec, spec.mode \in Modes, NEW k \in 1..Len(ApplyOrder(spec.mode)),
           NEW S, NEW os \in [Objects -> S], AsRendered(os, spec, k - 1), NEW next,
           next = [os EXCEPT ![ApplyOrder(spec.mode)[k]] =
                                 Rendered(spec, ApplyOrder(spec.mode)[k])]
    PROVE  AsRendered(next, spec, k)
<1> SUFFICES ASSUME NEW o \in Objects, NEW j \in 1..k, ApplyOrder(spec.mode)[j] = o
             PROVE  next[o] = Rendered(spec, o)
  BY DEF AsRendered
<1>1. CASE j = k
  BY <1>1
<1>2. CASE j # k
  <2>1. j \in 1..(k - 1)
    BY <1>2
  <2> QED BY <2>1 DEF AsRendered
<1> QED BY <1>1, <1>2

LEMMA OneMoreRemoved ==
    ASSUME NEW spec, spec.mode \in Modes, NEW k \in 1..Len(RemoveOrder(spec.mode)),
           NEW S, NEW os \in [Objects -> S], NEW gone, AsRemoved(os, spec, k - 1, gone),
           AsRendered(os, spec, Len(ApplyOrder(spec.mode))), NEW next,
           next = [os EXCEPT ![RemoveOrder(spec.mode)[k]] = gone]
    PROVE  /\ AsRemoved(next, spec, k, gone)
           /\ AsRendered(next, spec, Len(ApplyOrder(spec.mode)))
<1>1. ASSUME NEW o \in Objects, NEW j \in 1..k, RemoveOrder(spec.mode)[j] = o
      PROVE  next[o] = gone
  <2>1. CASE j = k
    BY <1>1, <2>1
  <2>2. CASE j # k
    <3>1. j \in 1..(k - 1)
      BY <2>2
    <3> QED BY <1>1, <3>1 DEF AsRemoved
  <2> QED BY <2>1, <2>2
<1>2. ASSUME NEW o \in Objects, NEW j \in 1..Len(ApplyOrder(spec.mode)),
             ApplyOrder(spec.mode)[j] = o
      PROVE  next[o] = Rendered(spec, o)
  <2>1. os[o] = Rendered(spec, o)
    BY <1>2 DEF AsRendered
  <2>2. RemoveOrder(spec.mode)[k] # o
    BY <1>2, OrdersPartition
  <2> QED BY <2>1, <2>2
<1> QED BY <1>1, <1>2 DEF AsRemoved, AsRendered

(* Both loops done, every object is as the spec has it.                     *)
LEMMA BothLoopsDone ==
    ASSUME NEW spec, spec.mode \in Modes, NEW os, NEW gone,
           AsRendered(os, spec, Len(ApplyOrder(spec.mode))),
           AsRemoved(os, spec, Len(RemoveOrder(spec.mode)), gone)
    PROVE  \A o \in Objects :
             IF o \in {ApplyOrder(spec.mode)[k] : k \in DOMAIN ApplyOrder(spec.mode)}
             THEN os[o] = Rendered(spec, o) ELSE os[o] = gone
<1> SUFFICES ASSUME NEW o \in Objects
             PROVE  IF o \in {ApplyOrder(spec.mode)[k] : k \in DOMAIN ApplyOrder(spec.mode)}
                    THEN os[o] = Rendered(spec, o) ELSE os[o] = gone
  OBVIOUS
<1>1. DOMAIN ApplyOrder(spec.mode) = 1..Len(ApplyOrder(spec.mode))
  BY ApplyOrderType
<1>2. CASE \E k \in 1..Len(ApplyOrder(spec.mode)) : ApplyOrder(spec.mode)[k] = o
  BY <1>1, <1>2 DEF AsRendered
<1>3. CASE /\ \E k \in 1..Len(RemoveOrder(spec.mode)) : RemoveOrder(spec.mode)[k] = o
           /\ \A k \in 1..Len(ApplyOrder(spec.mode)) : ApplyOrder(spec.mode)[k] # o
  BY <1>1, <1>3 DEF AsRemoved
<1> QED BY <1>2, <1>3, OrdersPartition
=============================================================================
