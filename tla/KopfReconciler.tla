---------------------------- MODULE KopfReconciler ----------------------------
(***************************************************************************)
(* The Python controller of one CubeCluster.  Kopf calls reconcile from    *)
(* two places that do not know of each other: the change handler, once per *)
(* change of the spec and again after a temporary error, and the timer,    *)
(* over and over.  Both are plain functions, so each call runs in a thread *)
(* of its own while the other one may be running, too.                     *)
(*                                                                         *)
(* A change handler works with the spec it was called for.  Kopf gives a   *)
(* timer a view of the latest one it has seen: where reconcile reads the   *)
(* spec again, it may read another.  LiveView tells whether it does.       *)
(* Reads of the managed objects are live requests.  The reads of one       *)
(* validation, of one builder and of one readiness check are one step.     *)
(***************************************************************************)
EXTENDS CubeResources

CONSTANTS
    None,             \* no manifest, no spec
    MaxGeneration,    \* bound on the spec changes a user makes
    MaxFaults,        \* bound on failed requests and restarts
    Callers,          \* the decorated functions that call reconcile
    LiveView,         \* whether the spec of a running timer changes
    RefsExist         \* whether the referenced objects exist from the start

ASSUME KopfAssumption ==
    /\ MaxGeneration \in Nat \ {0} /\ MaxFaults \in Nat
    /\ Callers \subseteq {"change", "timer"}
    /\ LiveView \in BOOLEAN /\ RefsExist \in BOOLEAN
    /\ None \notin Manifests \cup Specs
    /\ Specs # {}

VARIABLES
    cluster,  \* the CubeCluster on the API server
    objs,     \* the managed objects on the API server
    ready,    \* status.readyReplicas of each workload
    refs,     \* the referenced ConfigMap, Secret and claim exist
    seen,     \* the generation and spec Kopf's watch has delivered
    handled,  \* the spec the change handler has last succeeded with
    call,     \* the call of reconcile of each caller
    faults    \* failed requests and restarts so far

vars == <<cluster, objs, ready, refs, seen, handled, call, faults>>

Reasons == {"InvalidConfiguration", "Progressing", "APIHealthCheckFailed", "Available"}
Status  == [observedGeneration: Nat, readyAPIs: Nat, reason: Reasons \cup {"Unset"}]
Cluster == [generation: Nat \ {0}, spec: Specs, status: Status]
Seen    == [generation: Nat \ {0}, spec: Specs]

Labels == {"idle", "validate", "plan", "get", "create", "patch", "remove", "observe",
           "health", "status"}

(* The objects desired_objects builds before it asks for the mode.         *)
BuiltBeforeStore == 5

(* A desired object, as its builder has made it of a valid or invalid spec. *)
Built == [object: Objects, manifest: Manifests, valid: BOOLEAN]

(* asked is what a change handler was called for, spec what the call began *)
(* with or has read since the apply loop, plan its list of desired objects *)
(* as far as it is made.                                                   *)
Call == [pc: Labels, step: Nat, generation: Nat, asked: Specs \cup {None},
         plan: Seq(Built), spec: Specs \cup {None},
         reason: Reasons \cup {"Unset"}, ready: Nat]

NoCall == [pc |-> "idle", step |-> 0, generation |-> 0, asked |-> None, plan |-> <<>>,
           spec |-> None, reason |-> "Unset", ready |-> 0]

Exists(o) == objs[o] # None

-----------------------------------------------------------------------------
(* Steps of a call *)

(* What the watch has yet to deliver, or has delivered. *)
Latest == [generation |-> cluster.generation, spec |-> cluster.spec]

(* What a call sees when it reads its spec argument. *)
View(c) == IF c = "timer" /\ LiveView THEN seen.spec ELSE call[c].spec

(* A watch event that changes what the call sees is on its way.            *)
ViewIsStale(c) == c = "timer" /\ LiveView /\ seen # Latest

(* What the builder of an object makes of a spec.                          *)
Build(spec, o) == [object |-> o, manifest |-> Rendered(spec, o), valid |-> spec.valid]

Goto(c, label, k) == call' = [call EXCEPT ![c].pc = label, ![c].step = k]

(* The apply loop is over, or the removal, and the call reads the mode and *)
(* the counts of the spec of now.                                          *)
GotoReading(c, label) ==
    call' = [call EXCEPT ![c].pc = label, ![c].step = 1, ![c].spec = View(c), ![c].plan = <<>>]

(* set_status: Kopf sends it when the function has returned.               *)
SetStatus(c, reason, count) ==
    call' = [call EXCEPT ![c].pc = "status", ![c].step = 0, ![c].plan = <<>>,
                         ![c].reason = reason, ![c].ready = count]

Fault == faults < MaxFaults /\ faults' = faults + 1

(* TemporaryError, or an exception Kopf treats as one: no status; the      *)
(* caller is called again later.                                           *)
Abort(c) == call' = [call EXCEPT ![c] = NoCall]

(* Mutant: on_update does not ask for changes of the spec any more. *)
DueOnlyOnce(c) == c = "timer" \/ handled = None

Due(c) == c = "timer" \/ handled # seen.spec

(* The call begins and reads its generation.                               *)
Begin(c) ==
    /\ call[c].pc = "idle"
    /\ Due(c)
    /\ call' = [call EXCEPT ![c] =
          [NoCall EXCEPT !.pc = "validate", !.generation = seen.generation, !.spec = seen.spec,
                         !.asked = IF c = "change" THEN seen.spec ELSE None]]
    /\ UNCHANGED <<cluster, objs, ready, refs, seen, handled, faults>>

(* validate_references, whose requests take their time. *)
Validate(c) ==
    /\ call[c].pc = "validate"
    /\ \/ refs /\ View(c).valid /\ Goto(c, "plan", 1) /\ UNCHANGED faults
       \/ ~(refs /\ View(c).valid) /\ SetStatus(c, "InvalidConfiguration", 0) /\ UNCHANGED faults
       \/ Fault /\ Abort(c)
    /\ UNCHANGED <<cluster, objs, ready, refs, seen, handled>>

(* desired_objects builds one object after the other from the spec of now; *)
(* the last time it asks for the mode is before the objects of the store,  *)
(* whose builders are one step.  Nothing but a watch event can make two    *)
(* builders see different specs, so otherwise all of them are one step.    *)
(* A spec that has not been validated may lack what a builder looks up.    *)
Plan(c) ==
    /\ call[c].pc = "plan"
    /\ LET order == ApplyOrder(View(c).mode)
           built == call[c].plan
           Extended(n) == [k \in 1..n |-> IF k <= Len(built) THEN built[k]
                                          ELSE Build(View(c), order[k])]
       IN \/ /\ call' = [call EXCEPT ![c].plan = Extended(Len(order)), ![c].pc = "get"]
             /\ UNCHANGED faults
          \/ \E n \in Len(built) + 1 .. BuiltBeforeStore :
                /\ ViewIsStale(c)
                /\ call' = [call EXCEPT ![c].plan = Extended(n)]
                /\ UNCHANGED faults
          \/ ~View(c).valid /\ Abort(c) /\ UNCHANGED faults
    /\ UNCHANGED <<cluster, objs, ready, refs, seen, handled>>

(* The object the apply loop has come to. *)
Planned(c) == call[c].plan[call[c].step]

(* apply_object asks whether the object is there. *)
GetObject(c) ==
    /\ call[c].pc = "get"
    /\ \/ /\ Goto(c, IF Exists(Planned(c).object) THEN "patch" ELSE "create", call[c].step)
          /\ UNCHANGED faults
       \/ Fault /\ Abort(c)
    /\ UNCHANGED <<cluster, objs, ready, refs, seen, handled>>

(* A write fails, or the API server refuses what the builder has made of   *)
(* an invalid spec.                                                        *)
WriteFails(c) == Abort(c) /\ (Fault \/ (~Planned(c).valid /\ UNCHANGED faults))

Write(c) == objs' = [objs EXCEPT ![Planned(c).object] = Planned(c).manifest]

(* Mutant: the apply loop runs past the end of the list. *)
AppliedOffByOne(c) ==
    /\ Write(c)
    /\ IF call[c].step <= Len(call[c].plan)
       THEN Goto(c, "get", call[c].step + 1)
       ELSE GotoReading(c, "remove")

(* The object is written and the loop goes on. *)
Applied(c) ==
    /\ Write(c)
    /\ IF call[c].step < Len(call[c].plan)
       THEN Goto(c, "get", call[c].step + 1)
       ELSE GotoReading(c, "remove")

(* An object that has appeared since makes the create fail with 409.       *)
CreateObject(c) ==
    /\ call[c].pc = "create"
    /\ \/ ~Exists(Planned(c).object) /\ Applied(c) /\ UNCHANGED faults
       \/ Exists(Planned(c).object) /\ Abort(c) /\ UNCHANGED <<objs, faults>>
       \/ WriteFails(c) /\ UNCHANGED objs
    /\ UNCHANGED <<cluster, ready, refs, seen, handled>>

(* Mutant: an object that is there is left as it is. *)
PatchNothing(c) ==
    /\ call[c].pc = "patch"
    /\ IF call[c].step < Len(call[c].plan)
       THEN Goto(c, "get", call[c].step + 1)
       ELSE GotoReading(c, "remove")
    /\ UNCHANGED <<cluster, objs, ready, refs, seen, handled, faults>>

(* An object that has gone since makes the patch fail with 404, which      *)
(* reconcile takes for a missing reference.                                *)
PatchObject(c) ==
    /\ call[c].pc = "patch"
    /\ \/ Exists(Planned(c).object) /\ Applied(c) /\ UNCHANGED faults
       \/ /\ ~Exists(Planned(c).object)
          /\ SetStatus(c, "InvalidConfiguration", 0)
          /\ UNCHANGED <<objs, faults>>
       \/ WriteFails(c) /\ UNCHANGED objs
    /\ UNCHANGED <<cluster, ready, refs, seen, handled>>

(* Mutant: the branches of the mode are swapped. *)
RemoveObjectOfOwnMode(c) ==
    /\ call[c].pc = "remove"
    /\ LET order == RemoveOrder(IF call[c].spec.mode = "single" THEN "clustered" ELSE "single")
           o     == order[call[c].step]
       IN /\ objs' = [objs EXCEPT ![o] = None]
          /\ ready' = [w \in Workloads |-> IF w = o THEN 0 ELSE ready[w]]
          /\ IF call[c].step < Len(order)
             THEN Goto(c, "remove", call[c].step + 1)
             ELSE GotoReading(c, "observe")
    /\ UNCHANGED <<cluster, refs, seen, handled, faults>>

(* delete_if_present: 404 counts as success. *)
RemoveObject(c) ==
    /\ call[c].pc = "remove"
    /\ LET order == RemoveOrder(call[c].spec.mode)
           o     == order[call[c].step]
       IN \/ /\ objs' = [objs EXCEPT ![o] = None]
             /\ ready' = [w \in Workloads |-> IF w = o THEN 0 ELSE ready[w]]
             /\ IF call[c].step < Len(order)
                THEN Goto(c, "remove", call[c].step + 1)
                ELSE GotoReading(c, "observe")
             /\ UNCHANGED faults
          \/ Fault /\ Abort(c) /\ UNCHANGED <<objs, ready>>
    /\ UNCHANGED <<cluster, refs, seen, handled>>

Available(spec) == \A w \in Observed(spec.mode) : ready[w] >= Expected(spec, w)

(* workload_readiness: 404 for a workload is taken for a missing           *)
(* reference.                                                              *)
ObserveWorkloads(c) ==
    /\ call[c].pc = "observe"
    /\ LET spec == call[c].spec
       IN \/ /\ \A w \in Observed(spec.mode) : Exists(w)
             /\ IF Available(spec)
                THEN call' = [call EXCEPT ![c].pc = "health",
                                          ![c].ready = ready["apiDeployment"]]
                ELSE SetStatus(c, "Progressing", ready["apiDeployment"])
             /\ UNCHANGED faults
          \/ /\ \E w \in Observed(spec.mode) : ~Exists(w)
             /\ SetStatus(c, "InvalidConfiguration", 0)
             /\ UNCHANGED faults
          \/ Fault /\ Abort(c)
    /\ UNCHANGED <<cluster, objs, ready, refs, seen, handled>>

(* api_healthy *)
CheckHealth(c) ==
    /\ call[c].pc = "health"
    /\ \/ /\ ready["apiDeployment"] > 0
          /\ SetStatus(c, "Available", call[c].ready)
          /\ UNCHANGED faults
       \/ /\ (ready["apiDeployment"] = 0 /\ UNCHANGED faults) \/ Fault
          /\ SetStatus(c, "APIHealthCheckFailed", call[c].ready)
    /\ UNCHANGED <<cluster, objs, ready, refs, seen, handled>>

(* Kopf remembers the spec a change handler has succeeded with, then       *)
(* patches the status with what the call has set; either may fail.         *)
Finish(c) ==
    LET reported == [observedGeneration |-> call[c].generation,
                     readyAPIs |-> call[c].ready, reason |-> call[c].reason]
        Remember == handled' = IF c = "change" THEN call[c].asked ELSE handled
    IN /\ call[c].pc = "status"
       /\ Abort(c)
       /\ \/ cluster' = [cluster EXCEPT !.status = reported] /\ Remember /\ UNCHANGED faults
          \/ Fault /\ UNCHANGED cluster /\ Remember
          \/ Fault /\ UNCHANGED <<cluster, handled>>
       /\ UNCHANGED <<objs, ready, refs, seen>>

-----------------------------------------------------------------------------
(* Kopf, users and the platform *)

Deliver ==
    /\ seen # Latest
    /\ seen' = Latest
    /\ UNCHANGED <<cluster, objs, ready, refs, handled, call, faults>>

(* The one replica restarts; the resume handler is due for every cluster.  *)
Restart ==
    /\ Fault
    /\ call' = [c \in Callers |-> NoCall]
    /\ seen' = Latest
    /\ handled' = None
    /\ UNCHANGED <<cluster, objs, ready, refs>>

UpdateSpec ==
    /\ cluster.generation < MaxGeneration
    /\ \E s \in Specs \ {cluster.spec} :
          cluster' = [cluster EXCEPT !.generation = @ + 1, !.spec = s]
    /\ UNCHANGED <<objs, ready, refs, seen, handled, call, faults>>

ReferencesAppear ==
    /\ ~refs
    /\ refs' = TRUE
    /\ UNCHANGED <<cluster, objs, ready, seen, handled, call, faults>>

Wanted(w) == IF Exists(w) THEN objs[w].replicas ELSE 0

PodBecomesReady(w) ==
    /\ ready[w] < Wanted(w)
    /\ ready' = [ready EXCEPT ![w] = @ + 1]
    /\ UNCHANGED <<cluster, objs, refs, seen, handled, call, faults>>

PodLeaves(w) ==
    /\ ready[w] > Wanted(w)
    /\ ready' = [ready EXCEPT ![w] = @ - 1]
    /\ UNCHANGED <<cluster, objs, refs, seen, handled, call, faults>>

-----------------------------------------------------------------------------
(* Specification *)

(* A cluster has just been created and the operator has seen it.           *)
Init ==
    /\ \E s \in Specs :
         /\ cluster = [generation |-> 1, spec |-> s,
                       status |-> [observedGeneration |-> 0, readyAPIs |-> 0, reason |-> "Unset"]]
         /\ seen = [generation |-> 1, spec |-> s]
    /\ objs = [o \in Objects |-> None]
    /\ ready = [w \in Workloads |-> 0]
    /\ refs = RefsExist
    /\ handled = None
    /\ call = [c \in Callers |-> NoCall]
    /\ faults = 0

Reconcile(c) == \/ Begin(c) \/ Validate(c) \/ Plan(c) \/ GetObject(c) \/ CreateObject(c) \/ PatchObject(c)
                \/ RemoveObject(c) \/ ObserveWorkloads(c) \/ CheckHealth(c) \/ Finish(c)

Next == \/ \E c \in Callers : Reconcile(c)
        \/ Deliver \/ Restart \/ UpdateSpec \/ ReferencesAppear
        \/ \E w \in Workloads : PodBecomesReady(w) \/ PodLeaves(w)

Spec == Init /\ [][Next]_vars

(* Threads run, the timer fires again and again, failed handlers are       *)
(* retried, the watch delivers and pods start.                             *)
Fairness ==
    /\ \A c \in Callers : WF_vars(Reconcile(c))
    /\ WF_vars(Deliver)
    /\ \A w \in Workloads : WF_vars(PodBecomesReady(w)) /\ WF_vars(PodLeaves(w))

FairSpec == Spec /\ Fairness

-----------------------------------------------------------------------------
(* Properties *)

(* Every variable holds the kind of value its comment says, and an index   *)
(* stays within the list it walks.                                         *)
TypeOK ==
    /\ cluster \in Cluster /\ seen \in Seen
    /\ objs \in [Objects -> Manifests \cup {None}]
    /\ ready \in [Workloads -> Nat]
    /\ refs \in BOOLEAN /\ faults \in Nat
    /\ handled \in Specs \cup {None}
    /\ call \in [Callers -> Call]
    /\ \A c \in Callers :
         /\ call[c].pc \in {"get", "create", "patch"} => call[c].step \in DOMAIN call[c].plan
         /\ call[c].pc = "remove" => call[c].step \in DOMAIN RemoveOrder(call[c].spec.mode)

Desired(spec) ==
    [o \in Objects |->
        IF \E k \in DOMAIN ApplyOrder(spec.mode) : ApplyOrder(spec.mode)[k] = o
        THEN Rendered(spec, o) ELSE None]

Settled ==
    /\ objs = Desired(cluster.spec)
    /\ cluster.status = [observedGeneration |-> cluster.generation,
                         readyAPIs |-> ready["apiDeployment"], reason |-> "Available"]
    /\ Available(cluster.spec)

Rejected ==
    cluster.status = [observedGeneration |-> cluster.generation, readyAPIs |-> 0,
                      reason |-> "InvalidConfiguration"]

(* Whatever the change handler and the timer did to each other's work, the *)
(* objects and the status end up as the last spec says and stay so.        *)
Converges ==
    <>[](refs => IF cluster.spec.valid THEN Settled ELSE Rejected)

(* The change handler gets through with the last spec, although the timer  *)
(* may create the objects it is about to create.                           *)
ChangesAreHandled == <>[](handled = cluster.spec)

HasStore == \E mode \in Modes : \A o \in StoreObjects(mode) : Exists(o)

(* A mode switch never takes away the last complete store topology; what   *)
(* it deletes is the obsolete one.                                         *)
StoreContinuity == [][HasStore => HasStore']_vars
=============================================================================
