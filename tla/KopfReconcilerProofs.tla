------------------------- MODULE KopfReconcilerProofs -------------------------
(* What KopfReconciler guarantees for every set of specs and callers.       *)
EXTENDS KopfReconcilerHistory, CubeResourcesProofs, TLAPS

-----------------------------------------------------------------------------
(* One call.  Until its status is set, a call has a spec to work with, and *)
(* in the apply loop a list of objects somebody asked for.                 *)

CallTyped(r) ==
    /\ r \in Call
    /\ r.pc \in {"validate", "plan", "get", "create", "patch", "remove", "observe"} =>
         r.spec \in Specs
    /\ r.pc = "validate" => r.plan = <<>>
    /\ r.pc = "plan" => r.step = 1
    /\ r.pc \in {"get", "create", "patch"} => r.step \in 1..Len(r.plan)
    /\ r.pc = "remove" => r.step \in 1..Len(RemoveOrder(r.spec.mode))
    /\ r.pc # "status" => r.reason = "Unset"

IInv ==
    /\ cluster \in Cluster /\ seen \in Seen
    /\ objs \in [Objects -> Manifests \cup {None}]
    /\ ready \in [Workloads -> Nat]
    /\ refs \in BOOLEAN /\ faults \in Nat
    /\ handled \in Specs \cup {None}
    /\ DOMAIN call = Callers
    /\ call = [c \in Callers |-> call[c]]
    /\ \A c \in Callers : CallTyped(call[c])

LEMMA IInvTypes == IInv => TypeOK
<1> SUFFICES ASSUME IInv PROVE TypeOK
  OBVIOUS
<1>1. call \in [Callers -> Call]
  BY DEF IInv, CallTyped
<1>2. ASSUME NEW c \in Callers, call[c].pc \in {"get", "create", "patch"}
      PROVE  call[c].step \in DOMAIN call[c].plan
  BY <1>2 DEF IInv, CallTyped, Call
<1>3. ASSUME NEW c \in Callers, call[c].pc = "remove"
      PROVE  call[c].step \in DOMAIN RemoveOrder(call[c].spec.mode)
  BY <1>3, SpecFields, ApplyOrderType, RemoveOrderType DEF IInv, CallTyped
<1> QED BY <1>1, <1>2, <1>3 DEF IInv, TypeOK

LEMMA NoPlan == <<>> \in Seq(Built)
  OBVIOUS

LEMMA NoCallTyped == CallTyped(NoCall)
  BY NoPlan DEF NoCall, CallTyped, Call, Labels

(* A step that changes one call only has to keep that one in order.        *)
LEMMA OneCall ==
    ASSUME IInv, NEW c \in Callers, NEW r, CallTyped(r), call' = [call EXCEPT ![c] = r]
    PROVE  /\ DOMAIN call' = Callers
           /\ call' = [d \in Callers |-> call'[d]]
           /\ \A d \in Callers : CallTyped(call'[d])
  BY DEF IInv

LEMMA AbortTyped ==
    ASSUME IInv, NEW c \in Callers, Abort(c)
    PROVE  /\ DOMAIN call' = Callers
           /\ call' = [d \in Callers |-> call'[d]]
           /\ \A d \in Callers : CallTyped(call'[d])
  BY NoCallTyped, OneCall DEF Abort

LEMMA SetStatusTyped ==
    ASSUME IInv, NEW c \in Callers, NEW reason \in Reasons, NEW count \in Nat,
           SetStatus(c, reason, count)
    PROVE  /\ DOMAIN call' = Callers
           /\ call' = [d \in Callers |-> call'[d]]
           /\ \A d \in Callers : CallTyped(call'[d])
<1> DEFINE r == [call[c] EXCEPT !.pc = "status", !.step = 0, !.plan = <<>>,
                                !.reason = reason, !.ready = count]
<1>1. call[c] \in Call
  BY DEF IInv, CallTyped
<1>2. CallTyped(r)
  BY <1>1, NoPlan DEF CallTyped, Call, Labels
<1>3. call' = [call EXCEPT ![c] = r]
  BY DEF SetStatus, IInv
<1> QED BY <1>2, <1>3, OneCall

LEMMA ViewType ==
    ASSUME IInv, NEW c \in Callers, call[c].spec \in Specs
    PROVE  View(c) \in Specs
  BY DEF View, IInv, Seen

LEMMA GotoReadingTyped ==
    ASSUME IInv, NEW c \in Callers, call[c].spec \in Specs,
           call[c].pc # "status", NEW label \in {"remove", "observe"}, GotoReading(c, label)
    PROVE  /\ DOMAIN call' = Callers
           /\ call' = [d \in Callers |-> call'[d]]
           /\ \A d \in Callers : CallTyped(call'[d])
<1> DEFINE r == [call[c] EXCEPT !.pc = label, !.step = 1, !.spec = View(c), !.plan = <<>>]
<1>1. call[c] \in Call /\ call[c].reason = "Unset"
  BY DEF IInv, CallTyped
<1>2. View(c) \in Specs /\ View(c).mode \in Modes
  BY ViewType, SpecFields
<1>3. 1 \in 1..Len(RemoveOrder(View(c).mode))
  BY <1>2, ApplyOrderType, RemoveOrderType
<1>4. r \in Call /\ r.pc = label /\ r.spec = View(c) /\ r.step = 1 /\ r.reason = "Unset"
  BY <1>1, <1>2, NoPlan DEF Call, Labels
<1>5. CallTyped(r)
  BY <1>2, <1>3, <1>4 DEF CallTyped
<1>6. call' = [call EXCEPT ![c] = r]
  BY DEF GotoReading, IInv
<1> QED BY <1>5, <1>6, OneCall

LEMMA GotoTyped ==
    ASSUME IInv, NEW c \in Callers, call[c].spec \in Specs, call[c].pc # "status",
           NEW label \in {"plan", "get", "create", "patch", "remove"}, NEW k \in Nat,
           Goto(c, label, k),
           label = "plan" => k = 1,
           label \in {"get", "create", "patch"} => k \in 1..Len(call[c].plan),
           label = "remove" => k \in 1..Len(RemoveOrder(call[c].spec.mode))
    PROVE  /\ DOMAIN call' = Callers
           /\ call' = [d \in Callers |-> call'[d]]
           /\ \A d \in Callers : CallTyped(call'[d])
<1> DEFINE r == [call[c] EXCEPT !.pc = label, !.step = k]
<1>1. call[c] \in Call /\ call[c].reason = "Unset"
  BY DEF IInv, CallTyped
<1>2. /\ r \in Call /\ r.pc = label /\ r.step = k /\ r.plan = call[c].plan
      /\ r.spec = call[c].spec /\ r.reason = "Unset"
  BY <1>1 DEF Call, Labels
<1>3. CallTyped(r)
  BY <1>2 DEF CallTyped
<1>4. call' = [call EXCEPT ![c] = r]
  BY DEF Goto, IInv
<1> QED BY <1>3, <1>4, OneCall

LEMMA PlannedType ==
    ASSUME IInv, NEW c \in Callers, call[c].pc \in {"get", "create", "patch"}
    PROVE  /\ call[c].plan \in Seq(Built) /\ Len(call[c].plan) \in Nat
           /\ call[c].step \in 1..Len(call[c].plan) /\ call[c].spec \in Specs
           /\ Planned(c).object \in Objects /\ Planned(c).manifest \in Manifests
<1>1. /\ call[c].plan \in Seq(Built) /\ call[c].step \in 1..Len(call[c].plan)
      /\ call[c].spec \in Specs
  BY DEF IInv, CallTyped, Call
<1>2. Planned(c) \in Built
  BY <1>1 DEF Planned
<1> QED BY <1>1, <1>2 DEF Built

LEMMA AppliedTyped ==
    ASSUME IInv, NEW c \in Callers, call[c].pc \in {"create", "patch"}, Applied(c)
    PROVE  /\ objs' \in [Objects -> Manifests \cup {None}]
           /\ DOMAIN call' = Callers
           /\ call' = [d \in Callers |-> call'[d]]
           /\ \A d \in Callers : CallTyped(call'[d])
<1> DEFINE k == call[c].step
<1>1. /\ call[c].spec \in Specs /\ k \in 1..Len(call[c].plan) /\ Len(call[c].plan) \in Nat
      /\ Planned(c).object \in Objects /\ Planned(c).manifest \in Manifests
  BY PlannedType
<1>2. objs' \in [Objects -> Manifests \cup {None}]
  BY <1>1 DEF Applied, Write, IInv
<1>3. CASE k < Len(call[c].plan)
  <2>1. Goto(c, "get", k + 1)
    BY <1>3 DEF Applied
  <2>2. k + 1 \in Nat /\ k + 1 \in 1..Len(call[c].plan)
    BY <1>1, <1>3
  <2> HIDE DEF k
  <2> QED BY <1>1, <1>2, <2>1, <2>2, GotoTyped
<1>4. CASE ~(k < Len(call[c].plan))
  <2>1. GotoReading(c, "remove")
    BY <1>4 DEF Applied
  <2> QED BY <1>1, <1>2, <2>1, GotoReadingTyped
<1> QED BY <1>3, <1>4

-----------------------------------------------------------------------------
(* The steps *)

LEMMA IInvInit == Init => IInv
<1> SUFFICES ASSUME Init PROVE IInv
  OBVIOUS
<1>1. PICK s \in Specs :
        /\ cluster = [generation |-> 1, spec |-> s,
                      status |-> [observedGeneration |-> 0, readyAPIs |-> 0, reason |-> "Unset"]]
        /\ seen = [generation |-> 1, spec |-> s]
  BY DEF Init
<1>2. cluster \in Cluster /\ seen \in Seen
  BY <1>1 DEF Cluster, Status, Seen
<1>3. objs \in [Objects -> Manifests \cup {None}] /\ ready \in [Workloads -> Nat]
  BY DEF Init
<1>4. refs \in BOOLEAN /\ faults \in Nat /\ handled \in Specs \cup {None}
  BY KopfAssumption DEF Init
<1>5. call = [c \in Callers |-> NoCall]
  BY DEF Init
<1>6. /\ DOMAIN call = Callers /\ call = [c \in Callers |-> call[c]]
      /\ \A c \in Callers : CallTyped(call[c])
  BY <1>5, NoCallTyped
<1> QED BY <1>2, <1>3, <1>4, <1>6 DEF IInv

LEMMA FaultType == IInv /\ Fault => faults' \in Nat
  BY DEF IInv, Fault

LEMMA BeginKeeps == ASSUME IInv, NEW c \in Callers, Begin(c) PROVE IInv'
<1> DEFINE wish == IF c = "change" THEN seen.spec ELSE None
           begun == [NoCall EXCEPT !.pc = "validate", !.generation = seen.generation,
                                   !.spec = seen.spec, !.asked = wish]
<1>1. seen.spec \in Specs /\ seen.generation \in Nat
  BY DEF IInv, Seen
<1>2. CallTyped(begun)
  BY <1>1, NoPlan DEF NoCall, CallTyped, Call, Labels
<1>3. call' = [call EXCEPT ![c] = begun]
  BY DEF Begin
<1>4. /\ DOMAIN call' = Callers /\ call' = [d \in Callers |-> call'[d]]
      /\ \A d \in Callers : CallTyped(call'[d])
  <2> HIDE DEF begun
  <2> QED BY <1>2, <1>3, OneCall
<1>5. UNCHANGED <<cluster, objs, ready, refs, seen, handled, faults>>
  BY DEF Begin
<1> QED BY <1>4, <1>5 DEF IInv

LEMMA ValidateKeeps == ASSUME IInv, NEW c \in Callers, Validate(c) PROVE IInv'
<1>1. call[c].spec \in Specs /\ call[c].pc # "status"
  BY DEF Validate, IInv, CallTyped
<1>2. /\ DOMAIN call' = Callers /\ call' = [d \in Callers |-> call'[d]]
      /\ \A d \in Callers : CallTyped(call'[d])
  <2>1. CASE Abort(c)
    BY <2>1, AbortTyped
  <2>2. CASE Goto(c, "plan", 1)
    BY <1>1, <2>2, GotoTyped
  <2>3. CASE SetStatus(c, "InvalidConfiguration", 0)
    BY <2>3, SetStatusTyped DEF Reasons
  <2> QED BY <2>1, <2>2, <2>3 DEF Validate
<1>3. faults' \in Nat
  BY FaultType DEF Validate, IInv
<1> QED BY <1>2, <1>3 DEF Validate, IInv

(* The list as far as n, as one round of builders leaves it.               *)
Extended(c, n) ==
    [k \in 1..n |-> IF k <= Len(call[c].plan) THEN call[c].plan[k]
                    ELSE Build(View(c), ApplyOrder(View(c).mode)[k])]

PlanMade(c) ==
    /\ call' = [call EXCEPT ![c].plan = Extended(c, Len(ApplyOrder(View(c).mode))),
                            ![c].pc = "get"]
    /\ UNCHANGED faults

PlanGrows(c) ==
    \E n \in 1..BuiltBeforeStore : /\ call' = [call EXCEPT ![c].plan = Extended(c, n)]
                                   /\ UNCHANGED faults

LEMMA PlanCases ==
    ASSUME IInv, NEW c \in Callers, Plan(c)
    PROVE  PlanMade(c) \/ PlanGrows(c) \/ (Abort(c) /\ UNCHANGED faults)
<1>1. Len(call[c].plan) \in Nat
  BY DEF IInv, CallTyped, Call
<1>2. \A n \in Len(call[c].plan) + 1 .. BuiltBeforeStore : n \in 1..BuiltBeforeStore
  BY <1>1 DEF BuiltBeforeStore
<1> QED BY <1>2 DEF Plan, Extended, PlanMade, PlanGrows

LEMMA ExtendedType ==
    ASSUME IInv, NEW c \in Callers, call[c].spec \in Specs,
           NEW n \in 1..Len(ApplyOrder(View(c).mode))
    PROVE  Extended(c, n) \in Seq(Built) /\ Len(Extended(c, n)) = n
<1>1. /\ View(c) \in Specs /\ View(c).mode \in Modes /\ View(c).valid \in BOOLEAN
      /\ call[c].plan \in Seq(Built) /\ Len(ApplyOrder(View(c).mode)) \in Nat
      /\ Len(call[c].plan) \in Nat
  BY ViewType, SpecFields, ApplyOrderType DEF IInv, CallTyped, Call
<1>2. ASSUME NEW k \in 1..n PROVE Extended(c, n)[k] \in Built
  <2>1. CASE k <= Len(call[c].plan)
    <3>1. call[c].plan[k] \in Built
      BY <1>1, <1>2, <2>1
    <3> QED BY <2>1, <3>1 DEF Extended
  <2>2. CASE ~(k <= Len(call[c].plan))
    <3>1. ApplyOrder(View(c).mode)[k] \in Objects
      BY <1>1, ApplyOrderType
    <3>2. Build(View(c), ApplyOrder(View(c).mode)[k]) \in Built
      BY <1>1, <3>1, RenderedType DEF Build, Built
    <3> QED BY <2>2, <3>2 DEF Extended
  <2> QED BY <2>1, <2>2
<1>3. Extended(c, n) \in [1..n -> Built]
  <2>1. DOMAIN Extended(c, n) = 1..n /\ Extended(c, n) = [k \in 1..n |-> Extended(c, n)[k]]
    BY DEF Extended
  <2> QED BY <1>2, <2>1
<1> QED BY <1>1, <1>3

LEMMA PlanKeeps == ASSUME IInv, NEW c \in Callers, Plan(c) PROVE IInv'
<1>1. /\ call[c] \in Call /\ call[c].spec \in Specs /\ call[c].reason = "Unset"
      /\ call[c].pc = "plan" /\ call[c].step = 1
  BY DEF Plan, IInv, CallTyped
<1>2. View(c).mode \in Modes /\ Len(ApplyOrder(View(c).mode)) \in Nat \ {0}
  BY <1>1, ViewType, SpecFields, ApplyOrderType
<1>3. Len(ApplyOrder(View(c).mode)) >= BuiltBeforeStore
  BY <1>2 DEF Modes, ApplyOrder, BuiltBeforeStore
<1>4. /\ DOMAIN call' = Callers /\ call' = [d \in Callers |-> call'[d]]
      /\ \A d \in Callers : CallTyped(call'[d])
  <2>1. CASE Abort(c)
    BY <2>1, AbortTyped
  <2>2. CASE PlanMade(c)
    <3> DEFINE plan == Extended(c, Len(ApplyOrder(View(c).mode)))
               r == [call[c] EXCEPT !.plan = plan, !.pc = "get"]
    <3>1. plan \in Seq(Built) /\ Len(plan) = Len(ApplyOrder(View(c).mode))
      BY <1>1, <1>2, ExtendedType
    <3>2. call' = [call EXCEPT ![c] = r]
      BY <2>2 DEF PlanMade, IInv
    <3>3. call[c].step \in 1..Len(plan)
      BY <1>1, <1>2, <3>1
    <3>4. CallTyped(r)
      <4> HIDE DEF plan
      <4> QED BY <1>1, <3>1, <3>3 DEF CallTyped, Call, Labels
    <3> HIDE DEF r
    <3> QED BY <3>2, <3>4, OneCall
  <2>3. CASE PlanGrows(c)
    <3>1. PICK n \in 1..BuiltBeforeStore : call' = [call EXCEPT ![c].plan = Extended(c, n)]
      BY <2>3 DEF PlanGrows
    <3> DEFINE r == [call[c] EXCEPT !.plan = Extended(c, n)]
    <3>2. Extended(c, n) \in Seq(Built)
      BY <1>1, <1>2, <1>3, ExtendedType DEF BuiltBeforeStore
    <3>3. call' = [call EXCEPT ![c] = r]
      BY <3>1 DEF IInv
    <3>4. CallTyped(r)
      BY <1>1, <3>2 DEF CallTyped, Call, Labels
    <3> HIDE DEF r
    <3> QED BY <3>3, <3>4, OneCall
  <2> QED BY <2>1, <2>2, <2>3, PlanCases
<1>5. faults' \in Nat
  BY PlanCases DEF PlanMade, PlanGrows, IInv
<1> QED BY <1>4, <1>5 DEF Plan, IInv

LEMMA GetKeeps == ASSUME IInv, NEW c \in Callers, GetObject(c) PROVE IInv'
<1>1. /\ call[c].spec \in Specs /\ call[c].step \in 1..Len(call[c].plan)
      /\ call[c].step \in Nat /\ call[c].pc # "status"
  BY PlannedType DEF GetObject
<1>2. /\ DOMAIN call' = Callers /\ call' = [d \in Callers |-> call'[d]]
      /\ \A d \in Callers : CallTyped(call'[d])
  <2>1. CASE Abort(c)
    BY <2>1, AbortTyped
  <2>2. CASE Goto(c, "patch", call[c].step)
    BY <1>1, <2>2, GotoTyped
  <2>3. CASE Goto(c, "create", call[c].step)
    BY <1>1, <2>3, GotoTyped
  <2> QED BY <2>1, <2>2, <2>3 DEF GetObject
<1>3. faults' \in Nat
  BY FaultType DEF GetObject, IInv
<1> QED BY <1>2, <1>3 DEF GetObject, IInv

LEMMA CreateKeeps == ASSUME IInv, NEW c \in Callers, CreateObject(c) PROVE IInv'
<1>1. /\ objs' \in [Objects -> Manifests \cup {None}]
      /\ DOMAIN call' = Callers /\ call' = [d \in Callers |-> call'[d]]
      /\ \A d \in Callers : CallTyped(call'[d])
  <2>1. CASE Applied(c)
    BY <2>1, AppliedTyped DEF CreateObject
  <2>2. CASE Abort(c) /\ UNCHANGED objs
    BY <2>2, AbortTyped DEF IInv
  <2> QED BY <2>1, <2>2 DEF CreateObject, WriteFails
<1>2. faults' \in Nat
  BY FaultType DEF CreateObject, WriteFails, IInv
<1> QED BY <1>1, <1>2 DEF CreateObject, IInv

LEMMA PatchKeeps == ASSUME IInv, NEW c \in Callers, PatchObject(c) PROVE IInv'
<1>1. /\ objs' \in [Objects -> Manifests \cup {None}]
      /\ DOMAIN call' = Callers /\ call' = [d \in Callers |-> call'[d]]
      /\ \A d \in Callers : CallTyped(call'[d])
  <2>1. CASE Applied(c)
    BY <2>1, AppliedTyped DEF PatchObject
  <2>2. CASE SetStatus(c, "InvalidConfiguration", 0) /\ UNCHANGED objs
    BY <2>2, SetStatusTyped DEF Reasons, IInv
  <2>3. CASE Abort(c) /\ UNCHANGED objs
    BY <2>3, AbortTyped DEF IInv
  <2> QED BY <2>1, <2>2, <2>3 DEF PatchObject, WriteFails
<1>2. faults' \in Nat
  BY FaultType DEF PatchObject, WriteFails, IInv
<1> QED BY <1>1, <1>2 DEF PatchObject, IInv

LEMMA RemoveKeeps == ASSUME IInv, NEW c \in Callers, RemoveObject(c) PROVE IInv'
<1> DEFINE order == RemoveOrder(call[c].spec.mode)
           k == call[c].step
<1>1. /\ call[c].spec \in Specs /\ call[c].spec.mode \in Modes
      /\ k \in 1..Len(order) /\ Len(order) \in Nat /\ order[k] \in Objects
  BY SpecFields, ApplyOrderType, RemoveOrderType DEF RemoveObject, IInv, CallTyped
<1>2. /\ objs' \in [Objects -> Manifests \cup {None}]
      /\ ready' \in [Workloads -> Nat]
  BY DEF RemoveObject, IInv
<1>3. /\ DOMAIN call' = Callers /\ call' = [d \in Callers |-> call'[d]]
      /\ \A d \in Callers : CallTyped(call'[d])
  <2>1. CASE Abort(c)
    BY <2>1, AbortTyped
  <2>2. CASE GotoReading(c, "observe")
    BY <1>1, <2>2, GotoReadingTyped DEF RemoveObject
  <2>3. CASE k < Len(order) /\ Goto(c, "remove", k + 1)
    <3>1. k + 1 \in Nat /\ k + 1 \in 1..Len(order)
      BY <1>1, <2>3
    <3> HIDE DEF k
    <3> QED BY <1>1, <2>3, <3>1, GotoTyped DEF RemoveObject
  <2> QED BY <2>1, <2>2, <2>3 DEF RemoveObject
<1>4. faults' \in Nat
  BY FaultType DEF RemoveObject, IInv
<1> QED BY <1>2, <1>3, <1>4 DEF RemoveObject, IInv

LEMMA ObserveKeeps == ASSUME IInv, NEW c \in Callers, ObserveWorkloads(c) PROVE IInv'
<1>1. ready["apiDeployment"] \in Nat
  BY DEF IInv, Workloads, Deployments
<1>2. /\ DOMAIN call' = Callers /\ call' = [d \in Callers |-> call'[d]]
      /\ \A d \in Callers : CallTyped(call'[d])
  <2>1. CASE Abort(c)
    BY <2>1, AbortTyped
  <2>2. CASE SetStatus(c, "InvalidConfiguration", 0)
    BY <2>2, SetStatusTyped DEF Reasons
  <2>3. CASE SetStatus(c, "Progressing", ready["apiDeployment"])
    BY <1>1, <2>3, SetStatusTyped DEF Reasons
  <2>4. CASE call' = [call EXCEPT ![c].pc = "health", ![c].ready = ready["apiDeployment"]]
    <3> DEFINE r == [call[c] EXCEPT !.pc = "health", !.ready = ready["apiDeployment"]]
    <3>1. call[c] \in Call /\ call[c].reason = "Unset"
      BY DEF ObserveWorkloads, IInv, CallTyped
    <3>2. CallTyped(r)
      BY <1>1, <3>1 DEF CallTyped, Call, Labels
    <3>3. call' = [call EXCEPT ![c] = r]
      BY <2>4 DEF IInv
    <3> QED BY <3>2, <3>3, OneCall
  <2> QED BY <2>1, <2>2, <2>3, <2>4 DEF ObserveWorkloads
<1>3. faults' \in Nat
  BY FaultType DEF ObserveWorkloads, IInv
<1> QED BY <1>2, <1>3 DEF ObserveWorkloads, IInv

LEMMA HealthKeeps == ASSUME IInv, NEW c \in Callers, CheckHealth(c) PROVE IInv'
<1>1. call[c].ready \in Nat
  BY DEF IInv, CallTyped, Call
<1>2. /\ DOMAIN call' = Callers /\ call' = [d \in Callers |-> call'[d]]
      /\ \A d \in Callers : CallTyped(call'[d])
  <2>1. CASE SetStatus(c, "Available", call[c].ready)
    BY <1>1, <2>1, SetStatusTyped DEF Reasons
  <2>2. CASE SetStatus(c, "APIHealthCheckFailed", call[c].ready)
    BY <1>1, <2>2, SetStatusTyped DEF Reasons
  <2> QED BY <2>1, <2>2 DEF CheckHealth
<1>3. faults' \in Nat
  BY FaultType DEF CheckHealth, IInv
<1> QED BY <1>2, <1>3 DEF CheckHealth, IInv

LEMMA FinishKeeps == ASSUME IInv, NEW c \in Callers, Finish(c) PROVE IInv'
<1>1. call[c] \in Call
  BY DEF IInv, CallTyped
<1>2. cluster' \in Cluster
  <2>1. CASE UNCHANGED cluster
    BY <2>1 DEF IInv
  <2>2. CASE cluster' = [cluster EXCEPT !.status =
                           [observedGeneration |-> call[c].generation,
                            readyAPIs |-> call[c].ready, reason |-> call[c].reason]]
    BY <1>1, <2>2 DEF IInv, Cluster, Status, Call
  <2> QED BY <2>1, <2>2 DEF Finish
<1>3. handled' \in Specs \cup {None}
  BY <1>1 DEF Finish, IInv, Call
<1>4. /\ DOMAIN call' = Callers /\ call' = [d \in Callers |-> call'[d]]
      /\ \A d \in Callers : CallTyped(call'[d])
  BY AbortTyped DEF Finish
<1>5. faults' \in Nat
  BY FaultType DEF Finish, IInv
<1> QED BY <1>2, <1>3, <1>4, <1>5 DEF Finish, IInv

LEMMA IInvStep == IInv /\ [Next]_vars => IInv'
<1> SUFFICES ASSUME IInv, [Next]_vars PROVE IInv'
  OBVIOUS
<1>1. ASSUME NEW c \in Callers, Reconcile(c) PROVE IInv'
  BY <1>1, BeginKeeps, ValidateKeeps, PlanKeeps, GetKeeps, CreateKeeps, PatchKeeps, RemoveKeeps,
     ObserveKeeps, HealthKeeps, FinishKeeps DEF Reconcile
<1>2. CASE Deliver
  BY <1>2 DEF Deliver, Latest, IInv, Cluster, Seen
<1>3. CASE Restart
  <2>1. call' = [c \in Callers |-> NoCall] /\ seen' \in Seen
    BY <1>3 DEF Restart, Latest, IInv, Cluster, Seen
  <2>2. /\ DOMAIN call' = Callers /\ call' = [c \in Callers |-> call'[c]]
        /\ \A c \in Callers : CallTyped(call'[c])
    BY <2>1, NoCallTyped
  <2>3. faults' \in Nat
    BY <1>3, FaultType DEF Restart
  <2> QED BY <1>3, <2>1, <2>2, <2>3 DEF Restart, IInv
<1>4. CASE UpdateSpec
  <2>1. PICK s \in Specs : cluster' = [cluster EXCEPT !.generation = @ + 1, !.spec = s]
    BY <1>4 DEF UpdateSpec
  <2>2. cluster' \in Cluster
    <3>1. cluster.generation \in Nat \ {0} /\ cluster.generation + 1 \in Nat \ {0}
      BY DEF IInv, Cluster
    <3>2. cluster' = [generation |-> cluster.generation + 1, spec |-> s, status |-> cluster.status]
      BY <2>1 DEF IInv, Cluster
    <3> QED BY <3>1, <3>2 DEF IInv, Cluster
  <2> QED BY <1>4, <2>2 DEF UpdateSpec, IInv
<1>5. CASE ReferencesAppear
  BY <1>5 DEF ReferencesAppear, IInv
<1>6. ASSUME NEW w \in Workloads, PodBecomesReady(w) PROVE IInv'
  BY <1>6 DEF PodBecomesReady, IInv
<1>7. ASSUME NEW w \in Workloads, PodLeaves(w) PROVE IInv'
  <2>1. ready[w] \in Nat /\ w \in Objects /\ objs[w] \in Manifests \cup {None}
    BY DEF IInv, Objects
  <2>2. Wanted(w) \in Nat
    BY <2>1 DEF Wanted, Exists, Manifests
  <2>3. ready' \in [Workloads -> Nat]
    BY <1>7, <2>1, <2>2 DEF PodLeaves, IInv
  <2> QED BY <1>7, <2>3 DEF PodLeaves, IInv
<1>8. CASE UNCHANGED vars
  BY <1>8 DEF vars, IInv
<1> QED BY <1>1, <1>2, <1>3, <1>4, <1>5, <1>6, <1>7, <1>8 DEF Next

(* The types of the Kopf controller, and that no call walks past the end   *)
(* of its lists, whatever the other caller does to the spec it reads.      *)
THEOREM KopfTypes == Spec => []TypeOK
  BY IInvInit, IInvStep, IInvTypes, PTL DEF Spec

-----------------------------------------------------------------------------
(* A call that nothing crosses.  What it has done until now, it has done    *)
(* for the one spec it sees.                                               *)

LEMMA AllDone ==
    ASSUME NEW spec, spec.mode \in Modes, NEW os \in [Objects -> Manifests \cup {None}],
           AsRendered(os, spec, Len(ApplyOrder(spec.mode))),
           AsRemoved(os, spec, Len(RemoveOrder(spec.mode)), None)
    PROVE  os = Desired(spec)
<1>1. \A o \in Objects :
        IF o \in {ApplyOrder(spec.mode)[k] : k \in DOMAIN ApplyOrder(spec.mode)}
        THEN os[o] = Rendered(spec, o) ELSE os[o] = None
  BY BothLoopsDone
<1> QED BY <1>1 DEF Desired

(* The list plan holds what the builders make of spec.                     *)
PlanFor(plan, spec) ==
    \A k \in 1..Len(plan) : plan[k] = Build(spec, ApplyOrder(spec.mode)[k])

(* What the call r that sees spec has done among os.                       *)
WorksFor(os, r, spec) ==
    /\ r.pc \in {"plan", "get", "create", "patch"} => PlanFor(r.plan, spec)
    /\ r.pc \in {"get", "create", "patch"} =>
         Len(r.plan) = Len(ApplyOrder(spec.mode)) /\ AsRendered(os, spec, r.step - 1)
    /\ r.pc = "remove" =>
         /\ r.spec = spec
         /\ AsRendered(os, spec, Len(ApplyOrder(spec.mode)))
         /\ AsRemoved(os, spec, r.step - 1, None)
    /\ r.pc \in {"observe", "health"} => os = Desired(r.spec)
    /\ r.reason = "Available" => r.pc = "status" /\ os = Desired(r.spec)

WorkInv == IInv /\ \A c \in Callers \ crossed : WorksFor(objs, call[c], View(c))

LEMMA OneCallerSteps ==
    ASSUME IInv, NEW c \in Callers, Reconcile(c)
    PROVE  \A d \in Callers \ {c} : call'[d] = call[d]
  BY DEF Reconcile, Begin, Validate, Plan, GetObject, CreateObject, PatchObject, Applied,
         WriteFails, RemoveObject, ObserveWorkloads, CheckHealth, Finish, Goto, GotoReading,
         SetStatus, Abort, IInv

(* A call that has not begun its work has nothing to answer for.           *)
LEMMA AtRest ==
    ASSUME NEW r, CallTyped(r), r.pc \in {"idle", "validate"}, NEW os, NEW spec
    PROVE  WorksFor(os, r, spec)
  BY DEF CallTyped, WorksFor

LEMMA AbortWorks ==
    ASSUME IInv, NEW c \in Callers, Abort(c)
    PROVE  WorksFor(objs', call'[c], View(c)')
<1>1. call'[c] = NoCall
  BY DEF Abort, IInv
<1> QED BY <1>1, NoCallTyped, AtRest DEF NoCall

LEMMA StatusWorks ==
    ASSUME IInv, NEW c \in Callers, NEW reason, NEW count, SetStatus(c, reason, count),
           reason = "Available" => objs' = Desired(call[c].spec)
    PROVE  WorksFor(objs', call'[c], View(c)')
<1>1. call'[c].pc = "status" /\ call'[c].reason = reason /\ call'[c].spec = call[c].spec
  BY DEF SetStatus, IInv, CallTyped, Call
<1> QED BY <1>1 DEF WorksFor

(* The steps of a call, but for those that end it or set its status.       *)
LEMMA ValidateWorks ==
    ASSUME IInv, NEW c \in Callers, Validate(c)
    PROVE  WorksFor(objs', call'[c], View(c)')
<1>1. CASE Abort(c)
  BY <1>1, AbortWorks
<1>2. CASE SetStatus(c, "InvalidConfiguration", 0)
  BY <1>2, StatusWorks
<1>3. CASE Goto(c, "plan", 1)
  <2>1. /\ call'[c].pc = "plan" /\ call'[c].plan = <<>> /\ call'[c].reason = "Unset"
    BY <1>3 DEF Goto, Validate, IInv, CallTyped, Call
  <2>2. PlanFor(<<>>, View(c)')
    BY DEF PlanFor
  <2> QED BY <2>1, <2>2 DEF WorksFor
<1> QED BY <1>1, <1>2, <1>3 DEF Validate

LEMMA ExtendedFor ==
    ASSUME IInv, NEW c \in Callers, call[c].spec \in Specs, PlanFor(call[c].plan, View(c)),
           NEW n \in 1..Len(ApplyOrder(View(c).mode))
    PROVE  PlanFor(Extended(c, n), View(c))
<1> SUFFICES ASSUME NEW k \in 1..n
             PROVE  Extended(c, n)[k] = Build(View(c), ApplyOrder(View(c).mode)[k])
  BY ExtendedType DEF PlanFor
<1>1. Len(call[c].plan) \in Nat
  BY DEF IInv, CallTyped, Call
<1>2. CASE k <= Len(call[c].plan)
  BY <1>1, <1>2 DEF Extended, PlanFor
<1>3. CASE ~(k <= Len(call[c].plan))
  BY <1>1, <1>3 DEF Extended
<1> QED BY <1>2, <1>3

LEMMA PlanWorks ==
    ASSUME IInv, NEW c \in Callers, Plan(c), WorksFor(objs, call[c], View(c))
    PROVE  WorksFor(objs', call'[c], View(c)')
<1>1. /\ call[c] \in Call /\ call[c].spec \in Specs /\ call[c].reason = "Unset"
      /\ call[c].pc = "plan" /\ call[c].step = 1 /\ PlanFor(call[c].plan, View(c))
  BY DEF Plan, IInv, CallTyped, WorksFor
<1>2. View(c).mode \in Modes /\ Len(ApplyOrder(View(c).mode)) \in Nat \ {0}
  BY <1>1, ViewType, SpecFields, ApplyOrderType
<1>3. Len(ApplyOrder(View(c).mode)) >= BuiltBeforeStore
  BY <1>2 DEF Modes, ApplyOrder, BuiltBeforeStore
<1>4. CASE Abort(c)
  BY <1>4, AbortWorks
<1>5. CASE PlanMade(c)
  <2> DEFINE plan == Extended(c, Len(ApplyOrder(View(c).mode)))
  <2>1. /\ call'[c].pc = "get" /\ call'[c].plan = plan /\ call'[c].step = 1
        /\ call'[c].reason = "Unset" /\ call'[c].spec = call[c].spec
    BY <1>1, <1>5 DEF PlanMade, IInv, Call
  <2>2. PlanFor(plan, View(c)) /\ Len(plan) = Len(ApplyOrder(View(c).mode))
    BY <1>1, <1>2, ExtendedFor, ExtendedType
  <2>3. View(c)' = View(c)
    BY <2>1 DEF View, Plan
  <2>4. AsRendered(objs', View(c), 1 - 1)
    BY DEF AsRendered
  <2> HIDE DEF plan
  <2> QED BY <2>1, <2>2, <2>3, <2>4 DEF WorksFor
<1>6. CASE PlanGrows(c)
  <2>1. PICK n \in 1..BuiltBeforeStore : call' = [call EXCEPT ![c].plan = Extended(c, n)]
    BY <1>6 DEF PlanGrows
  <2>2. PlanFor(Extended(c, n), View(c))
    BY <1>1, <1>2, <1>3, ExtendedFor DEF BuiltBeforeStore
  <2>3. /\ call'[c].pc = "plan" /\ call'[c].plan = Extended(c, n)
        /\ call'[c].reason = "Unset" /\ call'[c].spec = call[c].spec
    BY <1>1, <2>1 DEF IInv, Call
  <2>4. View(c)' = View(c)
    BY <2>3 DEF View, Plan
  <2> QED BY <2>2, <2>3, <2>4 DEF WorksFor
<1> QED BY <1>4, <1>5, <1>6, PlanCases

LEMMA GetWorks ==
    ASSUME IInv, NEW c \in Callers, GetObject(c), WorksFor(objs, call[c], View(c))
    PROVE  WorksFor(objs', call'[c], View(c)')
<1>1. CASE Abort(c)
  BY <1>1, AbortWorks
<1>2. CASE Goto(c, "patch", call[c].step) \/ Goto(c, "create", call[c].step)
  <2>1. /\ call[c].pc = "get" /\ call'[c].pc \in {"patch", "create"}
        /\ call'[c].step = call[c].step /\ call'[c].plan = call[c].plan
        /\ call'[c].spec = call[c].spec /\ call'[c].reason = call[c].reason
        /\ objs' = objs /\ call[c].reason = "Unset"
    BY <1>2 DEF GetObject, Goto, IInv, CallTyped, Call
  <2>2. View(c)' = View(c)
    BY <2>1 DEF View, GetObject
  <2> QED BY <2>1, <2>2 DEF WorksFor
<1> QED BY <1>1, <1>2 DEF GetObject

LEMMA AppliedWorks ==
    ASSUME IInv, NEW c \in Callers, call[c].pc \in {"create", "patch"}, Applied(c),
           UNCHANGED seen, WorksFor(objs, call[c], View(c))
    PROVE  WorksFor(objs', call'[c], View(c)')
<1>1. PICK spec \in Specs : spec = View(c)
  BY PlannedType, ViewType
<1> DEFINE order == ApplyOrder(spec.mode)
           k     == call[c].step
<1>2. /\ call[c] \in Call /\ call[c].reason = "Unset" /\ PlanFor(call[c].plan, spec)
      /\ Len(call[c].plan) = Len(order) /\ AsRendered(objs, spec, k - 1)
  BY <1>1 DEF IInv, CallTyped, WorksFor
<1>3. /\ spec.mode \in Modes /\ k \in 1..Len(order) /\ Len(order) \in Nat
      /\ objs \in [Objects -> Manifests \cup {None}]
  BY <1>2, SpecFields, PlannedType, ApplyOrderType DEF IInv
<1>4. Planned(c).object = order[k] /\ Planned(c).manifest = Rendered(spec, order[k])
  <2>1. Planned(c) = Build(spec, order[k])
    BY <1>2, <1>3 DEF Planned, PlanFor
  <2> QED BY <2>1 DEF Build
<1>5. objs' = [objs EXCEPT ![order[k]] = Rendered(spec, order[k])]
  BY <1>4 DEF Applied, Write
<1>6. AsRendered(objs', spec, k)
  BY <1>2, <1>3, <1>5, OneMoreRendered
<1>7. CASE k < Len(call[c].plan)
  <2>1. /\ call'[c].pc = "get" /\ call'[c].step = k + 1 /\ call'[c].plan = call[c].plan
        /\ call'[c].spec = call[c].spec /\ call'[c].reason = "Unset"
    <3>1. Goto(c, "get", k + 1)
      BY <1>7 DEF Applied
    <3> QED BY <1>2, <3>1 DEF Goto, IInv, Call
  <2>2. View(c)' = spec
    BY <1>1, <2>1 DEF View
  <2>3. (k + 1) - 1 = k
    BY <1>3
  <2> QED BY <1>2, <1>6, <2>1, <2>2, <2>3 DEF WorksFor
<1>8. CASE ~(k < Len(call[c].plan))
  <2>1. /\ call'[c].pc = "remove" /\ call'[c].step = 1 /\ call'[c].spec = spec
        /\ call'[c].reason = "Unset"
    <3>1. GotoReading(c, "remove")
      BY <1>8 DEF Applied
    <3> QED BY <1>1, <1>2, <3>1 DEF GotoReading, IInv, Call
  <2>2. View(c)' = spec
    BY <1>1, <2>1 DEF View
  <2>3. k = Len(order) /\ AsRemoved(objs', spec, 1 - 1, None)
    BY <1>2, <1>3, <1>8 DEF AsRemoved
  <2> QED BY <1>6, <2>1, <2>2, <2>3 DEF WorksFor
<1> QED BY <1>7, <1>8

LEMMA CreateWorks ==
    ASSUME IInv, NEW c \in Callers, CreateObject(c), WorksFor(objs, call[c], View(c))
    PROVE  WorksFor(objs', call'[c], View(c)')
  BY AppliedWorks, AbortWorks DEF CreateObject, WriteFails

LEMMA PatchWorks ==
    ASSUME IInv, NEW c \in Callers, PatchObject(c), WorksFor(objs, call[c], View(c))
    PROVE  WorksFor(objs', call'[c], View(c)')
<1>1. CASE Applied(c)
  BY <1>1, AppliedWorks DEF PatchObject
<1>2. CASE SetStatus(c, "InvalidConfiguration", 0)
  BY <1>2, StatusWorks
<1>3. CASE Abort(c)
  BY <1>3, AbortWorks
<1> QED BY <1>1, <1>2, <1>3 DEF PatchObject, WriteFails

LEMMA RemoveWorks ==
    ASSUME IInv, IInv', NEW c \in Callers, RemoveObject(c), WorksFor(objs, call[c], View(c))
    PROVE  WorksFor(objs', call'[c], View(c)')
<1>1. PICK spec \in Specs : spec = View(c)
  BY ViewType DEF RemoveObject, IInv, CallTyped
<1> DEFINE order == RemoveOrder(spec.mode)
           k     == call[c].step
<1>2. /\ call[c] \in Call /\ call[c].reason = "Unset" /\ call[c].spec = spec
      /\ AsRendered(objs, spec, Len(ApplyOrder(spec.mode)))
      /\ AsRemoved(objs, spec, k - 1, None)
  BY <1>1 DEF RemoveObject, IInv, CallTyped, WorksFor
<1>3. /\ spec.mode \in Modes /\ k \in 1..Len(order) /\ Len(order) \in Nat
      /\ objs \in [Objects -> Manifests \cup {None}]
      /\ objs' \in [Objects -> Manifests \cup {None}]
  BY <1>2, SpecFields, RemoveOrderType DEF RemoveObject, IInv, CallTyped
<1>4. CASE Abort(c)
  BY <1>4, AbortWorks
<1>5. ASSUME objs' = [objs EXCEPT ![order[k]] = None]
      PROVE  /\ AsRemoved(objs', spec, k, None)
             /\ AsRendered(objs', spec, Len(ApplyOrder(spec.mode)))
  BY <1>2, <1>3, <1>5, OneMoreRemoved
<1>6. CASE objs' = [objs EXCEPT ![order[k]] = None] /\ Goto(c, "remove", k + 1)
  <2>1. /\ call'[c].pc = "remove" /\ call'[c].step = k + 1
        /\ call'[c].spec = spec /\ call'[c].reason = "Unset"
    BY <1>2, <1>6 DEF Goto, IInv, Call
  <2>2. View(c)' = spec
    BY <1>1, <2>1 DEF View, RemoveObject
  <2>3. (k + 1) - 1 = k
    BY <1>3
  <2> QED BY <1>5, <1>6, <2>1, <2>2, <2>3 DEF WorksFor
<1>7. CASE /\ objs' = [objs EXCEPT ![order[k]] = None]
           /\ ~(k < Len(order)) /\ GotoReading(c, "observe")
  <2>1. call'[c].pc = "observe" /\ call'[c].spec = spec /\ call'[c].reason = "Unset"
    BY <1>1, <1>2, <1>7 DEF GotoReading, IInv, Call
  <2>2. k = Len(order)
    BY <1>3, <1>7
  <2>3. objs' = Desired(spec)
    BY <1>3, <1>5, <1>7, <2>2, AllDone
  <2> QED BY <2>1, <2>3 DEF WorksFor
<1> QED BY <1>2, <1>4, <1>6, <1>7 DEF RemoveObject

LEMMA ObserveWorks ==
    ASSUME IInv, NEW c \in Callers, ObserveWorkloads(c), WorksFor(objs, call[c], View(c))
    PROVE  WorksFor(objs', call'[c], View(c)')
<1>1. CASE Abort(c)
  BY <1>1, AbortWorks
<1>2. CASE \/ SetStatus(c, "InvalidConfiguration", 0)
           \/ SetStatus(c, "Progressing", ready["apiDeployment"])
  BY <1>2, StatusWorks
<1>3. CASE call' = [call EXCEPT ![c].pc = "health", ![c].ready = ready["apiDeployment"]]
  <2>1. /\ call'[c].pc = "health" /\ call'[c].spec = call[c].spec /\ call'[c].reason = "Unset"
        /\ objs' = objs /\ call[c].pc = "observe"
    BY <1>3 DEF ObserveWorkloads, IInv, CallTyped, Call
  <2> QED BY <2>1 DEF WorksFor
<1> QED BY <1>1, <1>2, <1>3 DEF ObserveWorkloads

LEMMA HealthWorks ==
    ASSUME IInv, NEW c \in Callers, CheckHealth(c), WorksFor(objs, call[c], View(c))
    PROVE  WorksFor(objs', call'[c], View(c)')
<1>1. objs' = Desired(call[c].spec)
  BY DEF CheckHealth, WorksFor
<1> QED BY <1>1, StatusWorks DEF CheckHealth

LEMMA OwnStep ==
    ASSUME IInv, IInv', NEW c \in Callers, Reconcile(c),
           call[c].pc \in {"idle", "validate"} \/ WorksFor(objs, call[c], View(c))
    PROVE  WorksFor(objs', call'[c], View(c)')
<1>1. WorksFor(objs, call[c], View(c))
  BY AtRest DEF IInv
<1>2. CASE Begin(c)
  <2>1. call'[c].pc = "validate" /\ CallTyped(call'[c])
    BY <1>2 DEF Begin, IInv, NoCall
  <2> QED BY <2>1, AtRest
<1>3. CASE Finish(c)
  BY <1>3, AbortWorks DEF Finish
<1> QED BY <1>1, <1>2, <1>3, ValidateWorks, PlanWorks, GetWorks, CreateWorks, PatchWorks,
           RemoveWorks, ObserveWorks, HealthWorks DEF Reconcile

(* Another step leaves a call alone, or crosses it.                        *)
LEMMA OtherStep ==
    ASSUME IInv, WorkInv, HistoryNext, NEW c \in Callers \ crossed', ~Reconcile(c)
    PROVE  WorksFor(objs', call'[c], View(c)')
<1>1. call'[c] = call[c] \/ call'[c] = NoCall
  BY OneCallerSteps
     DEF HistoryNext, Next, Deliver, Restart, UpdateSpec, ReferencesAppear, PodBecomesReady,
         PodLeaves
<1>2. CASE call'[c].pc \in {"idle", "validate"}
  <2>1. CallTyped(call'[c])
    BY <1>1, NoCallTyped DEF IInv
  <2> QED BY <1>2, <2>1, AtRest
<1>3. CASE call'[c].pc \notin {"idle", "validate"}
  <2>1. call'[c] = call[c]
    BY <1>1, <1>3 DEF NoCall
  <2>2. c \notin crossed /\ ~Crosses(c)
    BY <1>3, <2>1 DEF HistoryNext
  <2>3. objs' = objs /\ View(c)' = View(c)
    BY <2>1, <2>2 DEF Crosses, View
  <2> QED BY <2>1, <2>2, <2>3 DEF WorkInv
<1> QED BY <1>2, <1>3

LEMMA WorkInvInit == HistoryInit => WorkInv
  BY IInvInit, NoCallTyped, AtRest DEF HistoryInit, Init, WorkInv, NoCall

LEMMA WorkInvStep == WorkInv /\ [HistoryNext]_historyVars => WorkInv'
<1> SUFFICES ASSUME WorkInv, [HistoryNext]_historyVars PROVE WorkInv'
  OBVIOUS
<1>1. IInv /\ IInv'
  <2>1. [Next]_vars
    BY DEF HistoryNext, historyVars
  <2> QED BY <2>1, IInvStep DEF WorkInv
<1>2. CASE UNCHANGED historyVars
  BY <1>2 DEF historyVars, vars, WorkInv, IInv, View
<1>3. ASSUME HistoryNext, NEW c \in Callers \ crossed'
      PROVE  WorksFor(objs', call'[c], View(c)')
  <2>1. CASE Reconcile(c)
    <3>1. CASE call'[c].pc = "idle"
      <4>1. CallTyped(call'[c])
        BY <1>1 DEF IInv
      <4> QED BY <3>1, <4>1, AtRest
    <3>2. CASE call'[c].pc # "idle"
      <4>1. call[c].pc \in {"idle", "validate"} \/ c \notin crossed
        BY <1>3, <3>2 DEF HistoryNext
      <4>2. call[c].pc \in {"idle", "validate"} \/ WorksFor(objs, call[c], View(c))
        BY <4>1 DEF WorkInv
      <4> QED BY <1>1, <2>1, <4>2, OwnStep
    <3> QED BY <3>1, <3>2
  <2>2. CASE ~Reconcile(c)
    BY <1>1, <1>3, <2>2, OtherStep
  <2> QED BY <2>1, <2>2
<1> QED BY <1>1, <1>2, <1>3 DEF WorkInv

(* A call reports Available of objects that are all as one spec has them,   *)
(* unless something crossed it: with both callers, the live view, changes   *)
(* of the mode, failures and restarts.                                     *)
THEOREM ReportsAreTrue == HistorySpec => []UncrossedReportTruly
<1>1. WorkInv => UncrossedReportTruly
  BY DEF WorkInv, WorksFor, UncrossedReportTruly
<1> QED BY <1>1, WorkInvInit, WorkInvStep, PTL DEF HistorySpec

-----------------------------------------------------------------------------
(* The last store *)

NothingRemoved == \A o \in Objects : objs[o] # None => objs'[o] # None

LEMMA AppliedExists ==
    ASSUME IInv, NEW c \in Callers, call[c].pc \in {"create", "patch"}, Applied(c)
    PROVE  NothingRemoved
<1>1. Planned(c).object \in Objects /\ Planned(c).manifest # None
  BY PlannedType, KopfAssumption
<1> QED BY <1>1 DEF Applied, Write, IInv, NothingRemoved

LEMMA StepRemovals ==
    ASSUME IInv, [Next]_vars
    PROVE  NothingRemoved \/ \E c \in Callers : RemoveObject(c)
<1>1. ASSUME UNCHANGED objs PROVE NothingRemoved
  BY <1>1 DEF NothingRemoved
<1>2. ASSUME NEW c \in Callers, Reconcile(c) PROVE NothingRemoved \/ RemoveObject(c)
  <2>1. CASE CreateObject(c) \/ PatchObject(c)
    <3>1. (call[c].pc \in {"create", "patch"} /\ Applied(c)) \/ UNCHANGED objs
      BY <2>1 DEF CreateObject, PatchObject
    <3> QED BY <1>1, <1>2, <3>1, AppliedExists
  <2> QED BY <1>1, <1>2, <2>1
          DEF Reconcile, Begin, Validate, Plan, GetObject, ObserveWorkloads, CheckHealth, Finish
<1> QED BY <1>1, <1>2
        DEF Next, Deliver, Restart, UpdateSpec, ReferencesAppear, PodBecomesReady, PodLeaves, vars

(* A removal of an uncrossed call spares the store the call has applied.   *)
LEMMA RemovalSpares ==
    ASSUME WorkInv, NEW c \in Callers \ crossed, RemoveObject(c)
    PROVE  HasStore'
<1>1. PICK spec \in Specs : spec = call[c].spec
  BY DEF RemoveObject, WorkInv, IInv, CallTyped
<1>2. /\ spec.mode \in Modes /\ call[c].step \in 1..Len(RemoveOrder(spec.mode))
      /\ AsRendered(objs, spec, Len(ApplyOrder(spec.mode))) /\ DOMAIN objs = Objects
  BY <1>1, SpecFields DEF RemoveObject, WorkInv, IInv, CallTyped, WorksFor
<1>3. objs' = objs \/ objs' = [objs EXCEPT ![RemoveOrder(spec.mode)[call[c].step]] = None]
  BY <1>1 DEF RemoveObject
<1>4. ASSUME NEW o \in StoreObjects(spec.mode) PROVE objs'[o] # None
  <2>1. o \in Objects /\ o # RemoveOrder(spec.mode)[call[c].step]
    BY <1>2, StoreObjectsAreObjects, StoreIsKept
  <2>2. objs[o] = Rendered(spec, o) /\ Rendered(spec, o) \in Manifests
    BY <1>2, <2>1, StoreIsApplied, RenderedType DEF AsRendered
  <2>3. objs[o] # None
    BY <2>2, KopfAssumption
  <2> QED BY <1>2, <1>3, <2>1, <2>3
<1> QED BY <1>2, <1>4 DEF HasStore, Exists

LEMMA StepTakesStore ==
    ASSUME WorkInv, [HistoryNext]_historyVars, HasStore, ~HasStore'
    PROVE  \E c \in crossed : RemoveObject(c)
<1>1. [Next]_vars
  BY DEF HistoryNext, historyVars
<1>2. ~NothingRemoved
  <2>1. PICK mode \in Modes : \A o \in StoreObjects(mode) : objs[o] # None
    BY DEF HasStore, Exists
  <2>2. \A o \in StoreObjects(mode) : o \in Objects
    BY StoreObjectsAreObjects
  <2> QED BY <2>1, <2>2 DEF HasStore, Exists, NothingRemoved
<1> QED BY <1>1, <1>2, StepRemovals, RemovalSpares DEF WorkInv

(* Losing the last complete store takes a removal of a call that something  *)
(* has crossed: with both callers, the live view and every change of the    *)
(* mode allowed.  The run kopfswitch shows that it does happen.             *)
THEOREM StoreNeedsCrossing == HistorySpec => OnlyCrossedTakeStore
<1>1. WorkInv /\ [HistoryNext]_historyVars
        => [HasStore /\ ~HasStore' => \E c \in crossed : RemoveObject(c)]_historyVars
  BY StepTakesStore
<1> QED BY <1>1, WorkInvInit, WorkInvStep, PTL DEF HistorySpec, OnlyCrossedTakeStore
=============================================================================
