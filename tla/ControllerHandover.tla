-------------------------- MODULE ControllerHandover --------------------------
(***************************************************************************)
(* The two controllers one after the other on the same CubeCluster, as the *)
(* architecture asks for: the old one is stopped before the other starts.  *)
(* A pass of the Go controller, whose one worker has nobody beside it, is  *)
(* one step here, ended by a failure or a stop after any number of its     *)
(* writes.  Kopf's change handler and timer run at the same time, so each  *)
(* of their writes is a step.  The reads, the counts and the status are    *)
(* left to CubeReconciler and KopfReconciler.                              *)
(*                                                                         *)
(* The API server remembers for every field who owns it.  The Go           *)
(* controller applies on the server's side with force, which takes the     *)
(* fields it mentions and drops those that it alone has mentioned before.  *)
(* The Kopf controller sends merge patches, which keep every map key they  *)
(* do not mention and replace lists as a whole.  Kopf also keeps a         *)
(* finalizer on the cluster, because a timer watches it.                   *)
(***************************************************************************)
EXTENDS Naturals, Sequences

CONSTANTS
    Specs,
    None,             \* no object, no value
    MaxGeneration,    \* bound on the spec changes a user makes
    MaxDisturbances   \* bound on the starts of a controller and failed requests of Kopf

R == INSTANCE CubeResources WITH Specs <- {}

Objects     == R!Objects
Controllers == {"go", "kopf"}
Callers     == {"change", "timer"}
Stores      == {"storeDeployment", "routerStatefulSet", "workerStatefulSet"}

(* The fields that tell the controllers apart: the owner reference, which  *)
(* both set; the annotation, a key of a map; and what the remote storage   *)
(* puts into the lists of the store containers.                            *)
MapKeys  == {"annotation"}
ListKeys == {"owner", "S3_BUCKET", "REMOTE_DIR"}
Keys     == MapKeys \cup ListKeys
Fields   == [value: {None, "set", "a", "b"}, owners: SUBSET Controllers]

(* The fields in which a spec may differ: the store mode, the annotation   *)
(* of the API Service, the kind of remote storage and whether it is        *)
(* completely described, the scratch size, and the exposure of the         *)
(* Service.  A size is lenient if Python takes it for a quantity and       *)
(* Kubernetes does not ("100K", "1_000Gi", "Infinity"), malformed if       *)
(* neither does.  What the schema of the resource refuses does not occur.  *)
ASSUME HandoverAssumption ==
    /\ Specs \subseteq [mode: {"single", "clustered"}, annotation: {None, "a", "b"},
                        storage: {"s3", "persistentVolume"}, described: BOOLEAN,
                        scratch: {"unset", "positive", "zero", "negative", "lenient", "malformed"},
                        type: {"ClusterIP", "NodePort", "LoadBalancer"}, nodePort: BOOLEAN]
    /\ Specs # {}
    /\ MaxGeneration \in Nat \ {0} /\ MaxDisturbances \in Nat
    /\ None \notin {"go", "kopf", "set", "a", "b"} \cup [Keys -> Fields]

VARIABLES
    running,     \* the controller that is installed, or None
    cluster,     \* the CubeCluster: its spec, whether it is being deleted, Kopf's finalizer
    generation,  \* of the spec
    objs,        \* the managed objects, with the owners of their fields
    calls,       \* the calls of reconcile that Kopf has under way
    verdict,     \* what each controller has made of the present spec
    complete,    \* a pass for the present spec did all its writes, undisturbed, just now
    disturbances \* starts and failed requests so far

vars == <<running, cluster, generation, objs, calls, verdict, complete, disturbances>>

-----------------------------------------------------------------------------
(* What the controllers want *)

ExposureIsSound(s) == s.nodePort => s.type \in {"NodePort", "LoadBalancer"}

(* Mutant: a load balancer is not known to have a node port, too. *)
GoAcceptsNodePortOnly(s) ==
    s.scratch \notin {"lenient", "malformed"} /\ (s.nodePort => s.type = "NodePort") /\ s.described

GoAccepts(s) ==
    s.scratch \notin {"lenient", "malformed"} /\ ExposureIsSound(s) /\ s.described

KopfAccepts(s) ==
    s.scratch \in {"unset", "positive", "lenient"} /\ ExposureIsSound(s) /\ s.described

(* Mutant: the policy is created without an owner reference. *)
ValueWithoutOwner(s, o, k) ==
    CASE k = "owner" /\ o # "networkPolicy"                                       -> "set"
      [] k = "annotation" /\ o = "apiService"                                     -> s.annotation
      [] k = "S3_BUCKET" /\ o \in Stores /\ s.storage = "s3"                      -> "set"
      [] k = "REMOTE_DIR" /\ o \in Stores /\ s.storage = "persistentVolume"       -> "set"
      [] OTHER                                                                    -> None

Value(s, o, k) ==
    CASE k = "owner"                                                        -> "set"
      [] k = "annotation" /\ o = "apiService"                               -> s.annotation
      [] k = "S3_BUCKET" /\ o \in Stores /\ s.storage = "s3"                -> "set"
      [] k = "REMOTE_DIR" /\ o \in Stores /\ s.storage = "persistentVolume" -> "set"
      [] OTHER                                                              -> None

-----------------------------------------------------------------------------
(* How they write it *)

Unset == [value |-> None, owners |-> {}]

(* Mutant: a field that is not mentioned any more loses its owner only. *)
ServerSideDisowned(old, v) ==
    IF v = None THEN [old EXCEPT !.owners = @ \ {"go"}]
    ELSE IF old.value = v THEN [old EXCEPT !.owners = @ \cup {"go"}]
    ELSE [value |-> v, owners |-> {"go"}]

(* Mutant: fields that are not mentioned any more are kept. *)
ServerSideKept(old, v) ==
    IF v = None THEN old
    ELSE IF old.value = v THEN [old EXCEPT !.owners = @ \cup {"go"}]
    ELSE [value |-> v, owners |-> {"go"}]

(* One field under server-side apply with force.                           *)
ServerSide(old, v) ==
    IF v = None
    THEN IF old.owners \subseteq {"go"} THEN Unset ELSE [old EXCEPT !.owners = @ \ {"go"}]
    ELSE IF old.value = v THEN [old EXCEPT !.owners = @ \cup {"go"}]
    ELSE [value |-> v, owners |-> {"go"}]

(* One field under a merge patch, or in a new object.                      *)
Merged(old, v, k) ==
    IF v = old.value \/ (v = None /\ k \in MapKeys) THEN old
    ELSE IF v = None THEN Unset
    ELSE [value |-> v, owners |-> {"kopf"}]

Written(c, s, o) ==
    LET old == IF objs[o] = None THEN [k \in Keys |-> Unset] ELSE objs[o]
    IN [k \in Keys |-> IF c = "go" THEN ServerSide(old[k], Value(s, o, k))
                                   ELSE Merged(old[k], Value(s, o, k), k)]

(* Mutant: the obsolete store goes first. *)
StepsRemovingFirst(s) == R!RemoveOrder(s.mode) \o R!ApplyOrder(s.mode)

(* The writes of a pass in their order. *)
Steps(s) == R!ApplyOrder(s.mode) \o R!RemoveOrder(s.mode)

(* The API server refuses a pod template with a negative size limit or one *)
(* that is no quantity, and a node port where there is none.               *)
Refused(s, o) == \/ s.scratch \in {"negative", "lenient", "malformed"} /\ o \in Stores
                 \/ ~ExposureIsSound(s) /\ o = "apiService"

Reach(s) == {n \in 0..Len(Steps(s)) :
                \A i \in 1..n : i <= Len(R!ApplyOrder(s.mode)) => ~Refused(s, Steps(s)[i])}

-----------------------------------------------------------------------------
(* A pass of the Go controller *)

Pass ==
    /\ running = "go"
    /\ cluster.phase \in {"live", "terminating"}
    /\ LET s       == cluster.spec
           done(n) == {Steps(s)[i] : i \in 1..n}
           wanted  == {R!ApplyOrder(s.mode)[i] : i \in DOMAIN R!ApplyOrder(s.mode)}
       IN \/ /\ GoAccepts(s)
             /\ \E n \in Reach(s) :
                  /\ objs' = [o \in Objects |-> IF o \notin done(n) THEN objs[o]
                                                ELSE IF o \in wanted THEN Written("go", s, o)
                                                ELSE None]
                  /\ complete' = (n = Len(Steps(s)))
                  /\ verdict' = IF n = Len(Steps(s)) THEN [verdict EXCEPT !["go"] = "applied"]
                                ELSE verdict
          \/ /\ ~GoAccepts(s)
             /\ verdict' = [verdict EXCEPT !["go"] = "rejected"]
             /\ complete' = FALSE
             /\ UNCHANGED objs
    /\ UNCHANGED <<running, cluster, generation, calls, disturbances>>

-----------------------------------------------------------------------------
(* The calls of the Kopf controller *)

(* plan has the spec each object of the apply loop is built from, spec is  *)
(* the one the call has read last; crossed tells whether, since it began,  *)
(* another call has changed an object or the spec has changed under it.    *)
Call == [pc: {"apply", "remove"}, step: Nat \ {0}, plan: Seq(Specs), spec: Specs, crossed: BOOLEAN]

NoCalls == [c \in Callers |-> None]

(* The reads of one call: the present spec, or the one it has read before, *)
(* which is all a change handler ever sees.                                *)
Views(c) == IF c = "timer" THEN {calls[c].spec, cluster.spec} ELSE {calls[c].spec}

(* A call begins and validates the spec.  (Which of the two is due, and    *)
(* when, is in KopfReconciler.)                                            *)
KopfBegin(c) ==
    /\ running = "kopf" /\ cluster.phase = "live" /\ cluster.finalizer
    /\ calls[c] = None
    /\ LET s == cluster.spec
       IN \/ /\ KopfAccepts(s)
             /\ calls' = [calls EXCEPT ![c] =
                   [pc |-> "apply", step |-> 1, spec |-> s, crossed |-> FALSE,
                    plan |-> [k \in DOMAIN R!ApplyOrder(s.mode) |-> s]]]
             /\ UNCHANGED verdict
          \/ /\ ~KopfAccepts(s)
             /\ verdict' = [verdict EXCEPT !["kopf"] = "rejected"]
             /\ UNCHANGED calls
    /\ complete' = FALSE
    /\ UNCHANGED <<running, cluster, generation, objs, disturbances>>

(* The spec changes under a timer while the builders, whose first five do  *)
(* not ask for the mode, make the list: what they have made stays, the     *)
(* rest comes from a spec that nobody has validated.                       *)
KopfRereads(c) ==
    /\ calls[c] # None /\ calls[c].pc = "apply" /\ calls[c].step = 1
    /\ \E s \in Views(c) \ {calls[c].spec}, n \in 0..5 :
          calls' = [calls EXCEPT ![c].spec = s, ![c].crossed = TRUE,
                                 ![c].plan = [k \in DOMAIN R!ApplyOrder(s.mode) |->
                                                 IF k <= n THEN calls[c].plan[k] ELSE s]]
    /\ complete' = FALSE
    /\ UNCHANGED <<running, cluster, generation, objs, verdict, disturbances>>

(* A call goes on to next; whoever else is at work has been crossed if an  *)
(* object has changed.                                                     *)
Proceed(c, next) ==
    calls' = [d \in Callers |->
                IF d = c THEN next
                ELSE IF calls[d] # None /\ objs' # objs THEN [calls[d] EXCEPT !.crossed = TRUE]
                ELSE calls[d]]

KopfApply(c) ==
    /\ calls[c] # None /\ calls[c].pc = "apply"
    /\ LET r == calls[c]
           o == R!ApplyOrder(r.spec.mode)[r.step]
           s == r.plan[r.step]
       IN /\ ~Refused(s, o)
          /\ objs' = [objs EXCEPT ![o] = Written("kopf", s, o)]
          /\ IF r.step < Len(r.plan)
             THEN Proceed(c, [r EXCEPT !.step = @ + 1])
             ELSE \E view \in Views(c) :
                    Proceed(c, [r EXCEPT !.pc = "remove", !.step = 1, !.spec = view, !.plan = <<>>,
                                         !.crossed = @ \/ view # r.spec])
    /\ complete' = FALSE
    /\ UNCHANGED <<running, cluster, generation, verdict, disturbances>>

KopfRemove(c) ==
    /\ calls[c] # None /\ calls[c].pc = "remove"
    /\ LET r     == calls[c]
           order == R!RemoveOrder(r.spec.mode)
       IN /\ objs' = [objs EXCEPT ![order[r.step]] = None]
          /\ IF r.step < Len(order)
             THEN /\ Proceed(c, [r EXCEPT !.step = @ + 1])
                  /\ complete' = FALSE
                  /\ UNCHANGED verdict
             ELSE /\ Proceed(c, None)
                  /\ complete' = (~r.crossed /\ r.spec = cluster.spec)
                  /\ verdict' = IF complete' THEN [verdict EXCEPT !["kopf"] = "applied"]
                                ELSE verdict
    /\ UNCHANGED <<running, cluster, generation, disturbances>>

Disturbance == disturbances < MaxDisturbances /\ disturbances' = disturbances + 1

(* A call ends without a result: a write is refused, or anything else      *)
(* fails.                                                                  *)
KopfFail(c) ==
    /\ calls[c] # None
    /\ \/ /\ calls[c].pc = "apply"
          /\ Refused(calls[c].plan[calls[c].step],
                     R!ApplyOrder(calls[c].spec.mode)[calls[c].step])
          /\ UNCHANGED disturbances
       \/ Disturbance
    /\ calls' = [calls EXCEPT ![c] = None]
    /\ complete' = FALSE
    /\ UNCHANGED <<running, cluster, generation, objs, verdict>>

(* Kopf adds its finalizer before it handles a cluster in any other way,   *)
(* and takes it off a deleted one when neither caller is at work for it.   *)
AddFinalizer ==
    /\ running = "kopf" /\ cluster.phase = "live" /\ ~cluster.finalizer
    /\ cluster' = [cluster EXCEPT !.finalizer = TRUE]
    /\ UNCHANGED <<running, generation, objs, calls, verdict, complete, disturbances>>

RemoveFinalizer ==
    /\ running = "kopf" /\ cluster.phase = "terminating" /\ calls = NoCalls
    /\ cluster' = [cluster EXCEPT !.finalizer = FALSE, !.phase = "gone"]
    /\ complete' = FALSE
    /\ UNCHANGED <<running, generation, objs, calls, verdict, disturbances>>

-----------------------------------------------------------------------------
(* Administrators, users and the garbage collector *)

Stop ==
    /\ running # None
    /\ running' = None
    /\ calls' = NoCalls
    /\ complete' = FALSE
    /\ UNCHANGED <<cluster, generation, objs, verdict, disturbances>>

Start(c) ==
    /\ running = None
    /\ Disturbance
    /\ running' = c
    /\ UNCHANGED <<cluster, generation, objs, calls, verdict, complete>>

UpdateSpec ==
    /\ cluster.phase = "live" /\ generation < MaxGeneration
    /\ generation' = generation + 1
    /\ \E s \in Specs \ {cluster.spec} : cluster' = [cluster EXCEPT !.spec = s]
    /\ verdict' = [c \in Controllers |-> "none"]
    /\ complete' = FALSE
    /\ UNCHANGED <<running, objs, calls, disturbances>>

Delete ==
    /\ cluster.phase = "live"
    /\ cluster' = [cluster EXCEPT !.phase = IF cluster.finalizer THEN "terminating" ELSE "gone"]
    /\ complete' = FALSE
    /\ UNCHANGED <<running, generation, objs, calls, verdict, disturbances>>

Collect ==
    /\ cluster.phase = "gone"
    /\ objs' = [o \in Objects |-> IF objs[o] # None /\ objs[o]["owner"] # Unset THEN None ELSE objs[o]]
    /\ objs' # objs
    /\ UNCHANGED <<running, cluster, generation, calls, verdict, complete, disturbances>>

-----------------------------------------------------------------------------

Init ==
    /\ running = None
    /\ \E s \in Specs : cluster = [spec |-> s, phase |-> "live", finalizer |-> FALSE]
    /\ generation = 1
    /\ objs = [o \in Objects |-> None]
    /\ calls = NoCalls
    /\ verdict = [c \in Controllers |-> "none"]
    /\ complete = FALSE
    /\ disturbances = 0

KopfStep(c) == KopfFail(c) \/ KopfRereads(c) \/ KopfApply(c) \/ KopfRemove(c)

Next ==
    \/ Pass
    \/ \E c \in Callers : KopfBegin(c) \/ KopfStep(c)
    \/ \E c \in Controllers : Start(c)
    \/ AddFinalizer \/ RemoveFinalizer
    \/ Stop \/ UpdateSpec \/ Delete \/ Collect

Spec == Init /\ [][Next]_vars

(* What is under way for a deleted cluster goes on: calls end, Kopf lets   *)
(* go of the cluster and the garbage collector runs.                       *)
CleanUp == \/ cluster.phase # "live" /\ \E c \in Callers : KopfStep(c)
           \/ RemoveFinalizer
           \/ Collect

Fairness == WF_vars(CleanUp)

FairSpec == Spec /\ Fairness

-----------------------------------------------------------------------------
(* Properties *)

(* Every variable holds the kind of value its comment says, and a field    *)
(* has a value exactly as long as somebody owns it.                        *)
TypeOK ==
    /\ running \in Controllers \cup {None}
    /\ cluster \in [spec: Specs, phase: {"live", "terminating", "gone"}, finalizer: BOOLEAN]
    /\ generation \in 1..MaxGeneration
    /\ DOMAIN objs = Objects
    /\ \A o \in Objects : objs[o] # None =>
         /\ objs[o] \in [Keys -> Fields]
         /\ \A k \in Keys : objs[o][k].value = None <=> objs[o][k].owners = {}
    /\ calls \in [Callers -> Call \cup {None}]
    /\ \A c \in Callers : calls[c] # None =>
         calls[c].step \in IF calls[c].pc = "apply" THEN DOMAIN calls[c].plan
                           ELSE DOMAIN R!RemoveOrder(calls[c].spec.mode)
    /\ verdict \in [Controllers -> {"none", "rejected", "applied"}]
    /\ complete \in BOOLEAN
    /\ disturbances \in 0..MaxDisturbances

Wanted(o) == \E i \in DOMAIN R!ApplyOrder(cluster.spec.mode) :
                R!ApplyOrder(cluster.spec.mode)[i] = o

Leftover(o, k) == objs[o][k].value # Value(cluster.spec, o, k)

(* After a complete pass, or a call of Kopf that nothing has crossed,      *)
(* exactly the objects of the spec are there, with every field the spec    *)
(* asks for.  What is there besides is, under the Go controller, a field   *)
(* that a Kopf patch has written, and under Kopf a key of a map; so with   *)
(* the Go controller alone nothing is left over.                           *)
LeftoversAreKnown ==
    complete =>
        \A o \in Objects :
            /\ objs[o] # None <=> Wanted(o)
            /\ Wanted(o) => \A k \in Keys : Leftover(o, k) =>
                 /\ Value(cluster.spec, o, k) = None
                 /\ running = "go" => objs[o][k].owners = {"kopf"}
                 /\ running = "kopf" => k \in MapKeys

(* What one controller has made of a spec, the other does not refuse to    *)
(* begin with, except for a scratch size of zero, which Go applies and     *)
(* Kopf rejects.  (The sizes that only Python takes for quantities do not  *)
(* get past the API server.)                                               *)
OnlyZeroScratchDivides ==
    /\ verdict["go"] = "applied" /\ verdict["kopf"] = "rejected" => cluster.spec.scratch = "zero"
    /\ ~(verdict["kopf"] = "applied" /\ verdict["go"] = "rejected")

HasStore == \E mode \in {"single", "clustered"} : \A o \in R!StoreObjects(mode) : objs[o] # None

(* A live cluster loses its last complete store, if it does, only to a     *)
(* removal of a Kopf call that the other caller or a change of the spec    *)
(* has crossed: never to the Go controller, wherever Kopf was stopped      *)
(* before, and never to a Kopf call left alone, wherever Go was.           *)
StoreNeedsCrossing ==
    [][HasStore /\ ~HasStore' /\ cluster'.phase # "gone" =>
          \E c \in Callers : calls[c] # None /\ calls[c].crossed /\ KopfRemove(c)]_vars

(* A deleted cluster is gone with all its objects in the end, unless Kopf  *)
(* has left its finalizer on it and does not run any more.                 *)
DeletedIsCollected ==
    <>[](cluster.phase # "live" =>
            \/ cluster.phase = "gone" /\ \A o \in Objects : objs[o] = None
            \/ cluster.finalizer /\ running # "kopf")
=============================================================================
