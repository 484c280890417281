---------------------------- MODULE CubeResources ----------------------------
(***************************************************************************)
(* The pure half of the Go controller: which Kubernetes objects a          *)
(* CubeCluster stands for, in which order they are applied and removed,    *)
(* and what the builders put into them.                                    *)
(*                                                                         *)
(* A spec is reduced to the fields the control flow tells apart: the Cube  *)
(* Store mode, whether the shape checks of validateReferences accept it,   *)
(* and the three replica counts after defaulting.  A manifest is reduced   *)
(* to the fields the builders derive from the spec: the replica count, the *)
(* store host given to the Cube containers and the number of worker        *)
(* addresses given to the store containers.  Fields that are passed        *)
(* through (images, resources, annotations) follow the same path.          *)
(***************************************************************************)
EXTENDS Naturals, Sequences

CONSTANT Specs

Modes == {"single", "clustered"}

ASSUME SpecsAssumption ==
    Specs \subseteq [mode: Modes, valid: BOOLEAN, api: Nat \ {0},
                     refresh: Nat \ {0}, workers: Nat \ {0}]

Deployments  == {"apiDeployment", "refreshDeployment", "storeDeployment"}
StatefulSets == {"routerStatefulSet", "workerStatefulSet"}
Services     == {"apiService", "storeService", "routerService", "workerService"}
Workloads    == Deployments \cup StatefulSets
Objects      == Workloads \cup Services \cup {"apiPDB", "networkPolicy"}

(* The objects of one store topology. *)
StoreObjects(mode) ==
    IF mode = "clustered"
    THEN {"routerService", "workerService", "routerStatefulSet", "workerStatefulSet"}
    ELSE {"storeService", "storeDeployment"}

(* What objects() returns, in the order Reconcile applies it. *)
ApplyOrder(mode) ==
    IF mode = "clustered"
    THEN <<"apiService", "apiDeployment", "refreshDeployment", "apiPDB", "networkPolicy",
           "routerService", "workerService", "routerStatefulSet", "workerStatefulSet">>
    ELSE <<"apiService", "apiDeployment", "refreshDeployment", "apiPDB", "networkPolicy",
           "storeService", "storeDeployment">>

(* Mutant: the Services of the clustered topology are left behind. *)
RemoveOrderOfWorkloads(mode) ==
    IF mode = "clustered"
    THEN <<"storeDeployment", "storeService">>
    ELSE <<"routerStatefulSet", "workerStatefulSet">>

(* What removeObsoleteStore deletes, in order. *)
RemoveOrder(mode) ==
    IF mode = "clustered"
    THEN <<"storeDeployment", "storeService">>
    ELSE <<"routerStatefulSet", "workerStatefulSet", "routerService", "workerService">>

(* The workloads whose ready replicas workloadsAvailable compares. *)
Observed(mode) ==
    {"apiDeployment", "refreshDeployment"} \cup
    (IF mode = "clustered" THEN StatefulSets ELSE {"storeDeployment"})

Expected(spec, w) ==
    CASE w = "apiDeployment"     -> spec.api
      [] w = "refreshDeployment" -> spec.refresh
      [] w = "workerStatefulSet" -> spec.workers
      [] OTHER                   -> 1

CubeStoreHost(spec) == IF spec.mode = "clustered" THEN "router" ELSE "store"

Manifests == [replicas: Nat, host: {"", "store", "router"}, peers: Nat]

(* What the builder of object o renders from a spec. *)
Rendered(spec, o) ==
    [replicas |-> IF o \in Workloads THEN Expected(spec, o) ELSE 0,
     host     |-> IF o \in {"apiDeployment", "refreshDeployment"}
                  THEN CubeStoreHost(spec) ELSE "",
     peers    |-> IF o \in StatefulSets THEN spec.workers ELSE 0]
=============================================================================
