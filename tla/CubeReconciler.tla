---------------------------- MODULE CubeReconciler ----------------------------
(***************************************************************************)
(* The Go controller of one CubeCluster: one worker goroutine that runs    *)
(* Reconcile passes, the informer caches it reads from, the workqueue that *)
(* triggers it, and the API server, kubelets and users it works against.   *)
(*                                                                         *)
(* Reads of the pass go to caches that lag behind the server; writes go to *)
(* the server directly and may fail, or succeed and be reported as failed. *)
(* A pass is cut into steps at every call that leaves the process: one     *)
(* step per applied object, per deleted object, for the health request and *)
(* for the status patch.  Between steps the environment moves.             *)
(***************************************************************************)
EXTENDS CubeResources

CONSTANTS
    None,             \* no manifest: the object does not exist
    Startable,        \* workloads whose pods start; those of others are stuck
    MaxReplicas,      \* bound on the replica counts of Specs
    MaxGeneration,    \* bound on the spec changes a user makes
    Disturbances,     \* the kinds of disturbance a run allows
    MaxDisturbances   \* how many of them may happen in a behaviour

DisturbanceKinds ==
    {"fault",      \* a request to the API server or to /readyz fails
     "crash",      \* the manager process restarts
     "pod",        \* a ready pod is lost
     "readyz",     \* the Cube API stops answering /readyz
     "reference",  \* the ConfigMap, Secret or claim disappears
     "tamper",     \* somebody else deletes a managed object
     "delete",     \* the CubeCluster is deleted
     "resync",     \* the informers' periodic resync
     "lag"}        \* workload reads may be stale; uses up no budget

ASSUME ReconcilerAssumption ==
    /\ MaxGeneration \in Nat \ {0}
    /\ MaxDisturbances \in Nat
    /\ MaxReplicas \in Nat
    /\ Startable \subseteq Workloads
    /\ \A s \in Specs : {s.api, s.refresh, s.workers, 1} \subseteq 0..MaxReplicas
    /\ Disturbances \subseteq DisturbanceKinds
    /\ None \notin Manifests
    /\ Specs # {}

VARIABLES
    cluster,   \* the CubeCluster on the API server
    objs,      \* the managed objects on the API server
    ready,     \* status.readyReplicas of each workload on the API server
    refs,      \* the referenced ConfigMap, Secret and claim exist
    apiUp,     \* the Cube API answers /readyz with a 2xx
    budget,    \* disturbances still allowed
    cached,    \* the CubeCluster in the informer cache
    lagging,   \* the workload informers whose caches are behind the server
    queued,    \* the cluster's key is in the workqueue
    timer,     \* the key is waiting in the workqueue's delay heap
    pc, step,  \* where the pass is, and its index in a loop
    snapshot,  \* the generation and spec the pass read at its start
    verdict    \* the arguments the pass hands to setStatus

server == <<cluster, objs, ready, refs, apiUp, budget>>
caches == <<cached, lagging>>
queue  == <<queued, timer>>
pass   == <<pc, step, snapshot, verdict>>
vars   == <<server, caches, queue, pass>>

-----------------------------------------------------------------------------
(* Data *)

(* The reasons setStatus is called with.  Only "Available" makes the       *)
(* condition True; its message is fixed, those of the others carry counts  *)
(* or an error text.                                                       *)
Reasons == {"InvalidConfiguration", "ReconcileFailed", "Progressing",
            "APIHealthCheckFailed", "Available"}

Condition == [reason: Reasons \cup {"Unset"}, generation: Nat]
Status    == [observedGeneration: Nat, readyAPIs: Nat, ready: Condition]
Cluster   == [live: BOOLEAN, generation: Nat \ {0}, spec: Specs, status: Status]

Verdict  == [reason: Reasons, ready: Nat]
Snapshot == [generation: Nat, spec: Specs]

NoStatus   == [observedGeneration |-> 0, readyAPIs |-> 0,
               ready |-> [reason |-> "Unset", generation |-> 0]]
NoVerdict  == [reason |-> "Progressing", ready |-> 0]
NoSnapshot == [generation |-> 0, spec |-> CHOOSE s \in Specs : TRUE]

(* The kinds of the managed objects, and those SetupWithManager owns.      *)
KindOf(o) ==
    CASE o \in Deployments  -> "Deployment"
      [] o \in StatefulSets -> "StatefulSet"
      [] o \in Services     -> "Service"
      [] o = "apiPDB"       -> "PodDisruptionBudget"
      [] OTHER              -> "NetworkPolicy"

(* Mutant: SetupWithManager forgets the disruption budgets. *)
OwnedWithoutBudgets == {"Deployment", "StatefulSet", "Service", "NetworkPolicy"}

Owned == {"Deployment", "StatefulSet", "Service", "PodDisruptionBudget",
          "NetworkPolicy"}

(* The kinds the pass reads back.                                          *)
ReadKinds == {"Deployment", "StatefulSet"}

Exists(o) == objs[o] # None

Desired(spec) ==
    [o \in Objects |->
        IF o \in {ApplyOrder(spec.mode)[k] : k \in DOMAIN ApplyOrder(spec.mode)}
        THEN Rendered(spec, o) ELSE None]

-----------------------------------------------------------------------------
(* The pass *)

(* A disturbance uses up budget. *)
Disturb(kind) ==
    /\ kind \in Disturbances
    /\ budget > 0
    /\ budget' = budget - 1

(* What the informers make of a change of object o.  A kind the pass reads  *)
(* back first lags; an event of another kind has no effect but to enqueue  *)
(* the cluster, and waiting in the queue stands for its delay as well.     *)
Announce(o, changed) ==
    IF changed /\ KindOf(o) \in ReadKinds
    THEN lagging' = lagging \cup {KindOf(o)} /\ UNCHANGED queued
    ELSE queued' = (queued \/ (changed /\ KindOf(o) \in Owned)) /\ UNCHANGED lagging

(* The pass ends.  RequeueAfter and the rate limit after an error both put  *)
(* the key into the delay heap, where it stays until it is due.            *)
Return(again) ==
    /\ pc' = "idle" /\ step' = 0 /\ verdict' = NoVerdict /\ snapshot' = NoSnapshot
    /\ timer' = (timer \/ again)

Goto(label, k) ==
    /\ pc' = label /\ step' = k
    /\ UNCHANGED <<snapshot, verdict, timer>>

(* The pass has its verdict and goes on to setStatus. *)
Report(reason, count) ==
    /\ pc' = "status" /\ step' = 0
    /\ verdict' = [reason |-> reason, ready |-> count]
    /\ UNCHANGED <<snapshot, timer>>

(* Mutant: NotFound is ignored and the pass goes on with what it knows. *)
BeginOnDeleted ==
    /\ pc = "idle" /\ queued
    /\ queued' = FALSE
    /\ snapshot' = [generation |-> cached.generation, spec |-> cached.spec]
    /\ pc' = "apply" /\ step' = 1 /\ UNCHANGED verdict
    /\ UNCHANGED <<server, caches, timer>>

(* validateReferences: the shape checks, and Gets of the referenced        *)
(* objects.                                                                *)
ReferencesValid(spec) == refs /\ spec.valid

(* The worker takes the key, reads the cluster and validates it; all of    *)
(* these reads are served from the caches of the process.                  *)
Begin ==
    /\ pc = "idle" /\ queued
    /\ queued' = FALSE
    /\ \/ ~cached.live /\ UNCHANGED pass
       \/ /\ cached.live
          /\ snapshot' = [generation |-> cached.generation, spec |-> cached.spec]
          /\ IF ReferencesValid(cached.spec)
             THEN pc' = "apply" /\ step' = 1 /\ UNCHANGED verdict
             ELSE /\ pc' = "status" /\ step' = 0
                  /\ verdict' = [reason |-> "InvalidConfiguration", ready |-> 0]
    /\ UNCHANGED <<server, caches, timer>>

(* Mutant: the loop renders each object from the cluster as it is now. *)
ApplyEffectOfNow(o) ==
    /\ objs' = [objs EXCEPT ![o] = Rendered(cached.spec, o)]
    /\ Announce(o, objs[o] # Rendered(cached.spec, o))

(* A server-side apply; one that changes nothing raises no event. *)
ApplyEffect(o) ==
    /\ objs' = [objs EXCEPT ![o] = Rendered(snapshot.spec, o)]
    /\ Announce(o, objs[o] # Rendered(snapshot.spec, o))

(* Mutant: the loop runs past the last object. *)
ApplyObjectOffByOne ==
    /\ pc = "apply"
    /\ LET order == ApplyOrder(snapshot.spec.mode)
       IN /\ ApplyEffect(order[step])
          /\ IF step <= Len(order) THEN Goto("apply", step + 1) ELSE Goto("remove", 1)
    /\ UNCHANGED <<cluster, ready, refs, apiUp, budget, cached>>

(* Mutant: a failed apply is logged and the loop goes on. *)
ApplyObjectIgnoringErrors ==
    /\ pc = "apply"
    /\ LET order == ApplyOrder(snapshot.spec.mode)
       IN /\ \/ ApplyEffect(order[step]) /\ UNCHANGED budget
             \/ Disturb("fault") /\ UNCHANGED <<objs, lagging, queued>>
          /\ IF step < Len(order) THEN Goto("apply", step + 1) ELSE Goto("remove", 1)
    /\ UNCHANGED <<cluster, ready, refs, apiUp, cached>>

ApplyObject ==
    /\ pc = "apply"
    /\ LET order == ApplyOrder(snapshot.spec.mode)
       IN \/ /\ ApplyEffect(order[step])
             /\ IF step < Len(order) THEN Goto("apply", step + 1) ELSE Goto("remove", 1)
             /\ UNCHANGED budget
          \/ /\ Disturb("fault")
             /\ ApplyEffect(order[step]) \/ UNCHANGED <<objs, lagging, queued>>
             /\ Report("ReconcileFailed", 0)
    /\ UNCHANGED <<cluster, ready, refs, apiUp, cached>>

(* An object disappears together with its pods. *)
DeleteEffect(o) ==
    /\ objs' = [objs EXCEPT ![o] = None]
    /\ ready' = [w \in Workloads |-> IF w = o THEN 0 ELSE ready[w]]
    /\ Announce(o, Exists(o))

(* NotFound counts as success; another error ends the pass without a       *)
(* status.                                                                 *)
RemoveObject ==
    /\ pc = "remove"
    /\ LET order == RemoveOrder(snapshot.spec.mode)
       IN \/ /\ DeleteEffect(order[step])
             /\ IF step < Len(order) THEN Goto("remove", step + 1) ELSE Goto("observe", 0)
             /\ UNCHANGED budget
          \/ /\ Disturb("fault")
             /\ DeleteEffect(order[step]) \/ UNCHANGED <<objs, ready, lagging, queued>>
             /\ Return(TRUE)
    /\ UNCHANGED <<cluster, refs, apiUp, cached>>

Available(spec, seen) ==
    \A w \in Observed(spec.mode) : seen[w] >= Expected(spec, w)

(* What a Get of a workload may return: any count there may have been, or  *)
(* NotFound, through an informer that is behind.                           *)
Stale(w)   == KindOf(w) \in lagging /\ "lag" \in Disturbances
Former(w)  == {n \in 0..MaxReplicas : \E s \in Specs : n <= Expected(s, w)}
Counts(w)  == IF Stale(w) THEN Former(w) ELSE {ready[w]}
MayMiss(w) == Stale(w) \/ ~Exists(w)
MayFind(w) == Stale(w) \/ Exists(w)

(* workloadsAvailable: a workload the cache does not hold is an error that *)
(* ends the pass without a status.                                         *)
ObserveWorkloads ==
    /\ pc = "observe"
    /\ LET spec == snapshot.spec
       IN \/ (\E w \in Observed(spec.mode) : MayMiss(w)) /\ Return(TRUE)
          \/ /\ \A w \in Observed(spec.mode) : MayFind(w)
             /\ \E seen \in [Observed(spec.mode) -> 0..MaxReplicas] :
                  /\ \A w \in Observed(spec.mode) : seen[w] \in Counts(w)
                  /\ pc' = IF Available(spec, seen) THEN "health" ELSE "status"
                  /\ verdict' = [reason |-> "Progressing", ready |-> seen["apiDeployment"]]
                  /\ step' = 0 /\ UNCHANGED <<snapshot, timer>>
    /\ UNCHANGED <<server, caches, queued>>

(* /readyz is answered through the API Service by a ready API pod. *)
ReadyzAnswers == apiUp /\ Exists("apiService") /\ ready["apiDeployment"] > 0

CheckHealth ==
    /\ pc = "health"
    /\ \/ ReadyzAnswers /\ Report("Available", verdict.ready) /\ UNCHANGED budget
       \/ ~ReadyzAnswers /\ Report("APIHealthCheckFailed", verdict.ready) /\ UNCHANGED budget
       \/ Disturb("fault") /\ Report("APIHealthCheckFailed", verdict.ready)
    /\ UNCHANGED <<cluster, objs, ready, refs, apiUp, caches, queued>>

(* A field of a merge patch is sent when it differs from the base. *)
Merge(current, base, new) == IF new = base THEN current ELSE new

(* Mutant: the condition carries the generation the pass started from. *)
PatchEffectFromSnapshot ==
    cluster' = [cluster EXCEPT !.status =
        [observedGeneration |-> Merge(@.observedGeneration,
                                      cached.status.observedGeneration, cached.generation),
         readyAPIs |-> Merge(@.readyAPIs, cached.status.readyAPIs, verdict.ready),
         ready |-> [reason |-> verdict.reason, generation |-> snapshot.generation]]]

(* setStatus stamps the generation of the cluster it has just re-read from *)
(* the cache and patches the server with the difference to that base.  The *)
(* patch names no resourceVersion, so it never conflicts.  The condition   *)
(* is one field; it also differs when only its message does.               *)
PatchEffect ==
    LET base == cached.status
        condition == [reason |-> verdict.reason, generation |-> cached.generation]
    IN \E newMessage \in IF verdict.reason = "Available" THEN {FALSE} ELSE BOOLEAN :
         cluster' = [cluster EXCEPT !.status =
            [observedGeneration |-> Merge(@.observedGeneration, base.observedGeneration,
                                          cached.generation),
             readyAPIs |-> Merge(@.readyAPIs, base.readyAPIs, verdict.ready),
             ready |-> IF newMessage THEN condition
                       ELSE Merge(@.ready, base.ready, condition)]]

(* Mutant: Reconcile returns an empty Result after a False verdict, too. *)
WriteStatusWithoutPolling ==
    /\ pc = "status"
    /\ IF cached.live /\ cluster.live
       THEN PatchEffect /\ Return(FALSE)
       ELSE Return(TRUE) /\ UNCHANGED cluster
    /\ UNCHANGED <<objs, ready, refs, apiUp, budget, caches, queued>>

WriteStatus ==
    /\ pc = "status"
    /\ \/ /\ cached.live /\ cluster.live
          /\ PatchEffect
          /\ Return(verdict.reason # "Available")
          /\ UNCHANGED budget
       \/ /\ ~(cached.live /\ cluster.live)           \* NotFound
          /\ Return(TRUE)
          /\ UNCHANGED <<cluster, budget>>
       \/ /\ cached.live /\ cluster.live /\ Disturb("fault")
          /\ PatchEffect \/ UNCHANGED cluster
          /\ Return(TRUE)
    /\ UNCHANGED <<objs, ready, refs, apiUp, caches, queued>>

-----------------------------------------------------------------------------
(* Caches, workqueue and the process *)

(* Mutant: the watch is given GenerationChangedPredicate. *)
DeliverClusterOnNewGeneration ==
    /\ cached # cluster
    /\ cached' = cluster
    /\ queued' = (queued \/ cached.generation # cluster.generation
                        \/ cached.live # cluster.live)
    /\ UNCHANGED <<server, lagging, timer, pass>>

(* The CubeCluster watch has no predicate: a change of the status enqueues *)
(* the cluster like a change of the spec.                                  *)
DeliverCluster ==
    /\ cached # cluster
    /\ cached' = cluster
    /\ queued' = TRUE
    /\ UNCHANGED <<server, lagging, timer, pass>>

DeliverWorkloads(kind) ==
    /\ kind \in lagging
    /\ lagging' = lagging \ {kind}
    /\ queued' = (queued \/ kind \in Owned)
    /\ UNCHANGED <<server, cached, timer, pass>>

TimerFires ==
    /\ timer
    /\ timer' = FALSE
    /\ queued' = TRUE
    /\ UNCHANGED <<server, caches, pass>>

Resync ==
    /\ Disturb("resync")
    /\ queued' = TRUE
    /\ UNCHANGED <<cluster, objs, ready, refs, apiUp, caches, timer, pass>>

(* The manager dies and another instance takes the lease: it lists         *)
(* everything before its worker starts, and every listed object enqueues.  *)
Restart ==
    /\ Disturb("crash")
    /\ cached' = cluster /\ lagging' = {}
    /\ queued' = TRUE /\ timer' = FALSE
    /\ pc' = "idle" /\ step' = 0 /\ snapshot' = NoSnapshot /\ verdict' = NoVerdict
    /\ UNCHANGED <<cluster, objs, ready, refs, apiUp>>

-----------------------------------------------------------------------------
(* Users, kubelets, the garbage collector *)

UpdateSpec ==
    /\ cluster.live
    /\ cluster.generation < MaxGeneration
    /\ \E s \in Specs \ {cluster.spec} :
          cluster' = [cluster EXCEPT !.generation = @ + 1, !.spec = s]
    /\ UNCHANGED <<objs, ready, refs, apiUp, budget, caches, queue, pass>>

DeleteCluster ==
    /\ cluster.live
    /\ Disturb("delete")
    /\ cluster' = [cluster EXCEPT !.live = FALSE]
    /\ UNCHANGED <<objs, ready, refs, apiUp, caches, queue, pass>>

(* Every managed object carries a controller reference to the cluster.     *)
(* The collector takes them one by one; a pass that is still at work can   *)
(* create others afterwards, and those are another step.                   *)
CollectGarbage ==
    /\ ~cluster.live
    /\ \E o \in Objects : Exists(o)
    /\ objs' = [o \in Objects |-> None]
    /\ ready' = [w \in Workloads |-> 0]
    /\ LET kinds == {KindOf(o) : o \in {x \in Objects : Exists(x)}}
       IN /\ lagging' = lagging \cup (kinds \cap ReadKinds)
          /\ queued' = (queued \/ kinds \cap (Owned \ ReadKinds) # {})
    /\ UNCHANGED <<cluster, refs, apiUp, budget, cached, timer, pass>>

Tamper(o) ==
    /\ Exists(o)
    /\ Disturb("tamper")
    /\ DeleteEffect(o)
    /\ UNCHANGED <<cluster, refs, apiUp, cached, timer, pass>>

(* What is missing or down may come back at any time, at no cost.          *)
FlipReferences ==
    /\ \/ refs /\ Disturb("reference")
       \/ ~refs /\ UNCHANGED budget
    /\ refs' = ~refs
    /\ UNCHANGED <<cluster, objs, ready, apiUp, caches, queue, pass>>

FlipReadyz ==
    /\ \/ apiUp /\ Disturb("readyz")
       \/ ~apiUp /\ UNCHANGED budget
    /\ apiUp' = ~apiUp
    /\ UNCHANGED <<cluster, objs, ready, refs, caches, queue, pass>>

SetReady(w, n) ==
    /\ ready' = [ready EXCEPT ![w] = n]
    /\ Announce(w, TRUE)
    /\ UNCHANGED <<cluster, objs, refs, apiUp, cached, timer, pass>>

Wanted(w) == IF Exists(w) THEN objs[w].replicas ELSE 0

(* Mutant: the API containers have no readiness probe. *)
ProbePassesAlways(w) == TRUE

(* The readiness probe of the API containers asks /readyz, too.            *)
ProbePasses(w) == w = "apiDeployment" => apiUp

PodBecomesReady(w) ==
    /\ w \in Startable
    /\ ready[w] < Wanted(w) /\ ProbePasses(w)
    /\ SetReady(w, ready[w] + 1)
    /\ UNCHANGED budget

PodLeaves(w) ==
    /\ ready[w] > Wanted(w) \/ (ready[w] > 0 /\ ~ProbePasses(w))
    /\ SetReady(w, ready[w] - 1)
    /\ UNCHANGED budget

PodIsLost(w) ==
    /\ ready[w] > 0
    /\ Disturb("pod")
    /\ SetReady(w, ready[w] - 1)

-----------------------------------------------------------------------------
(* Specification *)

(* A cluster has just been created and the manager has started.            *)
Init ==
    /\ \E s \in Specs :
         cluster = [live |-> TRUE, generation |-> 1, spec |-> s, status |-> NoStatus]
    /\ objs = [o \in Objects |-> None]
    /\ ready = [w \in Workloads |-> 0]
    /\ refs \in {TRUE, "reference" \notin Disturbances}
    /\ apiUp = TRUE
    /\ budget = MaxDisturbances
    /\ cached = cluster /\ lagging = {}
    /\ queued = TRUE /\ timer = FALSE
    /\ pc = "idle" /\ step = 0 /\ snapshot = NoSnapshot /\ verdict = NoVerdict

Pass == Begin \/ ApplyObject \/ RemoveObject \/ ObserveWorkloads \/ CheckHealth
        \/ WriteStatus

Process == DeliverCluster \/ (\E kind \in ReadKinds : DeliverWorkloads(kind))
           \/ TimerFires \/ Resync \/ Restart

User == UpdateSpec \/ DeleteCluster \/ FlipReferences \/ FlipReadyz
        \/ \E o \in Objects : Tamper(o)

Platform == \/ CollectGarbage
            \/ \E w \in Workloads : PodBecomesReady(w) \/ PodLeaves(w) \/ PodIsLost(w)

Next == Pass \/ Process \/ User \/ Platform

Spec == Init /\ [][Next]_vars

(* The worker goroutine keeps running, watches and timers deliver, the     *)
(* kubelets, the workload controllers and the garbage collector do their   *)
(* work.  Users and disturbances owe nothing.                              *)
Fairness ==
    /\ WF_vars(Pass)
    /\ WF_vars(DeliverCluster)
    /\ \A kind \in ReadKinds : WF_vars(DeliverWorkloads(kind))
    /\ WF_vars(TimerFires)
    /\ WF_vars(CollectGarbage)
    /\ \A w \in Workloads : WF_vars(PodBecomesReady(w)) /\ WF_vars(PodLeaves(w))

FairSpec == Spec /\ Fairness

-----------------------------------------------------------------------------
(* Properties *)

(* Every variable holds the kind of value its comment says.                *)
TypeOK ==
    /\ cluster \in Cluster /\ cached \in Cluster
    /\ objs \in [Objects -> Manifests \cup {None}]
    /\ ready \in [Workloads -> Nat]
    /\ refs \in BOOLEAN /\ apiUp \in BOOLEAN /\ budget \in Nat
    /\ lagging \subseteq ReadKinds
    /\ queued \in BOOLEAN /\ timer \in BOOLEAN
    /\ pc \in {"idle", "apply", "remove", "observe", "health", "status"}
    /\ step \in Nat
    /\ pc = "apply" => step \in DOMAIN ApplyOrder(snapshot.spec.mode)
    /\ pc = "remove" => step \in DOMAIN RemoveOrder(snapshot.spec.mode)
    /\ snapshot \in Snapshot
    /\ verdict \in Verdict

ReportedReady == cluster.status.ready.reason = "Available"

HasStore == \E mode \in Modes : \A o \in StoreObjects(mode) : Exists(o)

(* Switching the Cube Store mode back and forth, with passes that fail,    *)
(* crash or work from an old spec in between, never takes away the last    *)
(* complete store topology of a live cluster: Reconcile removes one only   *)
(* after it has applied the other (lines 67-78).                           *)
StoreContinuity == [][HasStore /\ cluster.live => HasStore']_vars

(* A True condition is written only when the objects on the server are     *)
(* exactly those of the spec the pass worked from, nothing obsolete left.  *)
ReadyOnlyWhenApplied ==
    [][cluster'.status # cluster.status /\ verdict.reason = "Available"
         => objs = Desired(snapshot.spec)]_vars

(* status.observedGeneration and the condition's observedGeneration name   *)
(* the same generation, although either may be left out of a patch whose   *)
(* base is a stale cached object.                                          *)
GenerationsAgree ==
    cluster.status.observedGeneration = cluster.status.ready.generation

Quiet == pc = "idle" /\ ~queued /\ ~timer /\ cached = cluster /\ lagging = {}

Settled ==
    /\ objs = Desired(cluster.spec)
    /\ Available(cluster.spec, ready)
    /\ ReportedReady
    /\ cluster.status.observedGeneration = cluster.generation
    /\ cluster.status.readyAPIs = ready["apiDeployment"]

(* When nothing is left that would start a pass, there is nothing left to  *)
(* do: the objects are the desired ones and the status tells the truth     *)
(* about them.  A False condition polls; a True one relies on the watches. *)
QuietIsAccurate == Quiet /\ cluster.live => Settled

Rejected ==
    /\ cluster.status.ready.reason = "InvalidConfiguration"
    /\ cluster.status.observedGeneration = cluster.generation
    /\ cluster.status.readyAPIs = 0

(* Once users and faults leave it alone, the cluster and its status end up *)
(* as its last spec says and stay so.                                      *)
Converges ==
    <>[](cluster.live /\ refs /\ apiUp =>
            IF cluster.spec.valid THEN Settled ELSE Rejected)

(* A Cube API that stops answering /readyz for good does not stay reported *)
(* as ready: no timer runs while the condition is True, the pods' probe    *)
(* has to bring the news.                                                  *)
OutageIsReported == <>[](cluster.live /\ ~apiUp => ~ReportedReady)

(* The objects of a deleted cluster all go, also those that a pass with an *)
(* old snapshot creates after the deletion.                                *)
DeletedIsCollected ==
    <>[](~cluster.live => \A o \in Objects : ~Exists(o))

(* observedGeneration is the last reconciled generation: a status write    *)
(* may name only the generation whose spec the pass worked from.           *)
ObservedIsReconciled ==
    [][cluster'.status.observedGeneration # cluster.status.observedGeneration
         => cluster'.status.observedGeneration = snapshot.generation]_vars

(* A True condition and readyAPIs are one verdict: a cluster that is Ready *)
(* reports at least one ready API.                                         *)
ReadyHasReadyAPIs ==
    ReportedReady => cluster.status.readyAPIs > 0
=============================================================================
