# Specifications of the CubeCluster operator

TLA+ models of the `cube-microk8s-operator` repository: the Go controller that runs a
Cube deployment from a `CubeCluster` resource, its Python (Kopf) counterpart and the handover
between the two, the service that ingests agent execution spans with the two clients that feed
it, and the collector of Kubernetes samples. TLC checks them on small instances; TLAPS
proves the main safety properties for every instance.

Contents: [the system](#the-system) · [modules](#modules) · [the Go controller](#the-go-controller) ·
[agent ingestion](#agent-ingestion) · [the demo clients](#the-demo-clients) ·
[the Kopf controller](#the-kopf-controller) · [handover](#handover) ·
[the telemetry collector](#the-telemetry-collector) · [runs](#runs) ·
[fairness](#fairness) · [proofs](#proofs) · [divergences](#divergences-from-the-documentation) ·
[what is left out](#what-is-left-out) · [plan](#plan)

## The system

| Component | State it keeps | Operations | Talks to |
|---|---|---|---|
| Go controller, `internal/controller`, `cmd/manager` | none of its own; informer caches and a workqueue; everything else is on the API server | `Reconcile`: read, validate, apply 7 or 9 objects, remove the obsolete store, read workloads, ask `/readyz`, patch the status | API server (server-side apply, cached reads, watches of the cluster and five owned kinds), the Cube API |
| Kopf controller, `python/cube_kopf` | Kopf's record of the last handled spec, in an annotation | `reconcile`, called by the create/update/resume handler and by a timer, in threads | API server (live reads, create, patch, delete), the Cube API |
| Agent ingestion, `internal/telemetry/executions.go` | table `agent_executions` in Postgres | validate and insert a span, prune expired rows once a minute | producers over HTTP, Postgres |
| Demo clients, `demo/mcp_execution.py`, `demo/agent-executions.py` | the tool's result, the recorded spans and the event file on disk; position in the list of spans, attempts | call an MCP tool, save, record, publish with retries; submit a synthetic trace and assert every answer; have Cube verify | MCP server, ingestion service, Cube |
| Telemetry collector, `internal/telemetry/collector.go` | table `kubernetes_telemetry` | per interval: list nodes and pods, copy them and prune in one transaction | API server, Postgres |
| Cube data model, `demo/kind/model` | none | declarative measures | the two tables |
| Bootstrap and Terraform, `scripts/bootstrap-microk8s.sh`, `main.tf` | the machines | provision, join nodes one by one | OpenStack, MicroK8s |
| Kind demo, end-to-end scripts, OLM bundle, manifests, CRD | none | linear scripts and declarations | kubectl, OLM |

**How they interact.** Both controllers are driven by the same resource and write the same
status; only one of them is meant to be installed. They touch the workloads only through
the API server, so everything they know about pods is a count somebody else wrote. The
ingestion service knows its producers only by the spans they send, and its two activities,
the handlers and the retention goroutine, meet in the database alone.

**Where it is hard, and what makes it correct.**

* *Go controller.* It decides on cached, possibly old, copies of the cluster and of the
  workloads; its steps can fail one by one, the process may die between any two, and the
  user may change the spec at any time. It polls (10 s, 30 s) while the condition is False and
  **stops polling once it is True**; from then on a watch event has to bring every change.
  Correct means: a mode switch never leaves the cluster without a store; a True condition is
  written only for objects that are completely applied; the fields of one status belong
  together; whenever nothing is left to do, the objects and the status are right; it gets
  there; an outage is noticed; a deleted cluster leaves nothing behind.
* *Kopf controller.* Its two callers run `reconcile` for one object at the same time, with
  specs that may differ, and apply by get, then create or patch. Correct means: what they do to
  each other's work is repaired, a change is handled in the end, the objects converge.
* *Ingestion.* Attempts are lost, delayed, duplicated; a commit may be answered by an error;
  a request validated before a prune may insert after it; an event ID may be reused. Correct
  means: one immutable span per event ID, a 204 only for what is stored, published spans stay
  for their retention and no longer, a re-sent span is never a conflict, a trace has no holes.
* *Demo clients.* What they record must have happened: they run a tool that may fail at any
  point, write files, and retry in the dark. Correct means: no success without its result file,
  verification that fails only when it should, a second run that gets the same answers, an end.
* *Handover.* Each controller meets what the other has left, after any of its writes, in
  objects whose fields have owners. Correct means: no handover takes the store, what stays behind is
  known and harmless, what one has applied the other accepts, a deleted cluster goes.
* *Collector.* Two requests, a clock and a transaction, any of which may fail or hang, and
  sometimes a second collector. Correct means: readers see whole collections in the right
  order, nothing reported as collected is lost early, nothing expired stays for ever.

`PROJECT.json` lists every hazard at its source line with the properties that cover it.

## Modules

| Module | What it is |
|---|---|
| `CubeResources` | pure: which objects a spec stands for, apply and removal order, what the builders derive. Used by both controllers. |
| `CubeResourcesProofs` | lemmas about these lists and builders and about the two loops over them, for both controllers' proofs |
| `ControllerContract` | abstract specification of a controller: what it promises to the users of a cluster; the Go controller implements it |
| `CubeReconciler` | the Go controller, its caches and queue, API server, users, kubelets, garbage collector |
| `CubeReconcilerHistory` | the same with two history variables; refines `ControllerContract` |
| `CubeReconcilerProofs` | their theorems |
| `SpanLedger` | abstract specification of ingestion: an append-once ledger with retention |
| `SpanLedgerProofs` | the ledger keeps its promise |
| `AgentIngest` | producers, network, handler, table, pruning, restarts; refines `SpanLedger` |
| `AgentIngestProofs` | the refinement and what follows from it |
| `TraceProducers` | extends `AgentIngest` with the two demo clients |
| `TraceProducersProofs` | its theorems, on top of those of `AgentIngest` |
| `KopfReconciler` | the Python controller with its two concurrent callers |
| `KopfReconcilerHistory` | the same with a history variable: the calls that something has crossed |
| `KopfReconcilerProofs` | its types, and what a call guarantees unless it is crossed |
| `ControllerHandover` | either controller in turn, with field ownership, finalizer and deletion; uses `CubeResources` |
| `ControllerHandoverProofs` | its theorems |
| `TelemetryCollector` | the collector's loop and transaction, with overlapping processes |
| `TelemetryCollectorProofs` | its theorems |
| `MCCubeReconciler`, `MCCubeContract`, `MCAgentIngest`, `MCKopfReconciler`, `MCControllerHandover` | specs and publications for TLC |

Definitions headed *Mutant* are plausible bugs (a dropped guard, an off-by-one, a swapped
order). No action uses them; putting one in the place of the definition it varies must break
the property it is paired with in `PROJECT.json`.

### CubeResources

A spec is a record of what the control flow tells apart: `mode`, `valid` (do the shape checks
of `validateReferences` accept it?), and the defaulted replica counts. `ApplyOrder` is
`objects()`, `RemoveOrder` is `removeObsoleteStore`, `Observed`/`Expected` are
`workloadsAvailable`, and `Rendered` keeps what the builders derive and a mode switch changes:
replicas, the store host given to the Cube containers and the number of worker addresses
given to the store containers. Everything a builder merely copies is left out. The Kopf
builders in `python/cube_kopf/resources.py` produce the same list in the same order.

## The Go controller

`CubeReconciler` has one cluster, one worker goroutine (`MaxConcurrentReconciles` is the
default, 1) and one active manager (leader election is on).

| Variables | In the program |
|---|---|
| `cluster`, `objs`, `ready`, `refs`, `apiUp` | the API server's truth: resource with status, managed objects, ready replicas, the referenced ConfigMap/Secret/claim, the API's health |
| `cached`, `lagging` | the cluster as the informer has it; the workload informers that are behind |
| `queued`, `timer` | the key in the workqueue; the key in its delay heap (`RequeueAfter` and rate-limited errors) |
| `pc`, `step`, `snapshot`, `verdict` | where `Reconcile` is, its loop index, the copy it read at the start, the arguments for `setStatus` |
| `budget` | disturbances left; a bound, not part of the program |

| Action | Code | Outcomes |
|---|---|---|
| `Begin` | `Get` of the cluster, `validateReferences` | not found: nothing; invalid: `InvalidConfiguration`; valid: apply |
| `ApplyObject` | one turn of the loop at line 65 | applied; failed, with or without effect: `ReconcileFailed` |
| `RemoveObject` | one delete of `removeObsoleteStore` | gone (NotFound counts); failed, with or without effect: the pass ends **without a status** and is requeued |
| `ObserveWorkloads` | `workloadsAvailable` | NotFound: the pass ends without a status; too few: `Progressing`; enough: health |
| `CheckHealth` | `apiHealthy` | `Available` or `APIHealthCheckFailed` |
| `WriteStatus` | `setStatus`, and what `Reconcile` returns | patched; not found; failed, with or without effect |

Modelling decisions a reader should know:

* A pass is cut at every call that leaves the process; reads served by caches of the same
  moment are one step with the decision they lead to.
* **Stale reads.** A `Get` of a workload whose informer lags returns any count up to
  `MaxReplicas`, or NotFound. A run without `"lag"` in `Disturbances` reads the truth; lag uses
  no budget. `cached` is always some former state of `cluster`; a delivery jumps to the
  server's current state, intermediate events being merged as the workqueue would merge them.
* **The status patch.** `setStatus` re-reads the cluster *from the cache*, stamps that
  generation, and sends a merge patch of the difference to that base, without a
  resourceVersion. `Merge` models one field of it: a field whose new value equals the base is
  not sent, whatever the server holds. The condition is a list element and so is sent as a
  whole, also when only its message differs; messages are abstracted, so whenever the reason
  has no fixed text the patch may or may not carry it.
* **Watches.** The cluster's own watch has no predicate, so the controller's status patch
  enqueues the next pass. Of the owned kinds, Deployments and StatefulSets are also read back,
  so for them the cache first lags and the delivery enqueues; for the other three the event has
  no effect but to enqueue, and waiting in the queue stands for its delay as well.
  The referenced objects are not watched at all; only the 30 s timer sees them.
* Deletion of the cluster is final; a cluster recreated under its name is a new one.
* No `SyncPeriod` is set, so the informers' periodic resync is a disturbance that may happen
  once or never. No property leans on it.

**Properties.** `TypeOK`; `StoreContinuity` (no step removes the last complete store topology);
`GenerationsAgree` (the two observed generations in a status are equal, though a patch may leave
out either); `ReadyOnlyWhenApplied` (an `Available` status is only written while the objects are
exactly those of the pass's spec); `QuietIsAccurate` (if no pass runs, none is queued or timed and
no event is under way, then objects and status are right; this is what makes it safe to stop
polling); `Converges`; `OutageIsReported`; `DeletedIsCollected`. `QuietIsAccurate` says nothing
about the referenced objects: that one of them goes away after a True condition is not
noticed, and nothing in the repository promises it.

**The contract.** `ControllerContract` says what users see of a controller: the specs they have
`asked` for, by generation, the generation it is `working` for, the objects and the status. Its moves are
`Ask` and `Withdraw` (users), `Take` (never back to an earlier request), `Apply` (an object exactly as the
request wants it), `Remove` (only what the request does not want, and in a live cluster only while all that it
wants stands as wanted), `Report` (a generation that was asked for and is not older than the one reported
or worked for; True, or True of another generation, only while the objects are exactly the wanted ones)
and `Collect`. Caches, loops, retries and restarts do not occur in it. `CubeReconcilerHistory` adds
`asked` and `working` as history variables, which restrict nothing, maps `available` to the Ready
condition, and states `ImplementsContract`. A pass over a snapshot from before the last change of the spec
is a move of the contract for an *older* request: the contract allows that, and forbids that the
next pass returns to a still older one or that its removals run beside an incomplete topology.
`Report` allows a generation above `working`, because `setStatus` re-reads the cluster (see
[Divergences](#divergences-from-the-documentation)), but never a new True without the objects of `working`.
`NothingUnasked`, `CompleteStays` and `ObservedGrows` in that module are what users may rely on.

`OutageIsReported` holds through the platform, not through the controller: when `/readyz`
fails for good, the readiness probe takes the pods out, and the workload's status event starts
the pass that reports it.

## Agent ingestion

`AgentIngest` models producers that send the spans of a trace one after the other, each with up
to `MaxAttempts` attempts (five in the demo producer), and the service.

| Variables | In the program |
|---|---|
| `rows` | `agent_executions`, by primary key `event_id` |
| `request` | each attempt of each span: on its way, validated, answered, lost with the process |
| `index`, `attempt`, `producing` | the producer's loops |
| `prune` | the time the retention goroutine took its cutoff from |
| `clock`, `faults` | the service's wall clock; restarts and failed prunes so far |

Every attempt is an entity of its own: a client that times out (`TransportError`) leaves its
attempt in the network, and it may be validated and inserted much later, next to its retry or
to the following spans. `Validate` and `Insert` are separate because the clock is read before
the statement runs and a prune may come between. `Insert` is one SQL statement,
`INSERT ... ON CONFLICT ... RETURNING payload = $18`, and so atomic; its answer may be an error
with or without a commit. `PruneStart` and `PruneDelete` are separate for the same reason as
validation. `Restart` loses whatever was inside the process.

A span as sent has a UTC offset that `Normalized` drops, as the handler does before it stores
and compares; `wellFormed` stands for the token, JSON and field checks that do not depend on
the time. "400" stands for 400 and 401 alike: the producer gives up on either.

**The abstract ledger.** `SpanLedger` records a span if its ID is free or already holds this
very span, acknowledges only recorded spans, and forgets only expired ones.
`ImplementsLedger` maps `rows` to the ledger and the set of spans answered 204 to `acked`.
An ID whose span has been forgotten has no history: it may be used again, which is what
the code does.

**Properties.** `TypeOK`; `ImplementsLedger`; `PublishedIsDurable` (what a producer has finished
with is in the table until it expires); `TraceIsPrefix` (no reader sees a span of a trace without
the ones before it, unless they have expired, for every span that is published at one place only);
`NoFalseConflict`; and, checked together with the clients, `ExpiredRowsVanish`.

## The demo clients

`TraceProducers` extends `AgentIngest`: its producers are the ways `mcp_execution.py` may go,
and `agent-executions.py`. A behaviour is about one of them, which writes its own
phases around the actions of the service.

| Variables | In the program |
|---|---|
| `phase`, `client` | where the program is; which way its execution went (`None` until that is decided) |
| `artifact`, `fixture` | `<trace>.result.json`; `AGENT_EVENT_FILE`: absent, cut short or complete |
| `polls` | answers "Continue wait" to the Cube query |

`mcp_execution.py` connects, calls the tool, saves the result, closes the session (`Connect`,
`CallTool`, `SaveArtifact`, `Close`); every step may raise, and `Recorded` gives for each way the
list of spans that `execute` then has. `Record` writes the event file, `Publish` is the retry loop
of `AgentIngest`, `Query` one poll of Cube with the comparison of the rows. Of a span only what
tells those of one trace apart is kept: its event ID, and its status or usage as the body.
With `--execute-only` the program ends after `Record`.

`agent-executions.py` sends `Script`, one request after the other with one attempt each, and
asserts `Wanted`. The script keeps one of each kind of request: one that is refused (wrong token or
invalid field), a control in another trace, children before their parent, a duplicate, an
altered duplicate. `RunAgain` starts it once more with the event file, as
`scripts/kind-e2e.sh` does around a restart of the service; requests of the earlier run may still
be under way. The program is only run again after it has ended, so one copy runs at a time.

**Properties.** `ClientTypeOK`; `SuccessIsReal` (a stored or reported run that reads as succeeded has
a complete result file, and the rows of the tool call and of the file beside it until they
expire; no reference to a file without the file); `MismatchMeansExpired` (verification of a fully
published trace fails only if some of it has expired); `RerunsAreIdempotent` (every request of a
rerun gets the asserted answer or 503, the 409 included, until the trace expires);
`ImplementsLedger`, here for clients that send an altered span again and are rerun; `PublicationEnds`; `ExpiredRowsVanish`, here with the restart and the failed prune.

## The Kopf controller

`KopfReconciler` models `reconcile` (controller.py) called by `"change"`, the
create/update/resume handler, and `"timer"`. Both are plain functions, so Kopf (1.44) runs each
call in a thread, and the two may run for one object at the same time.

| Variables | In the program |
|---|---|
| `cluster`, `objs`, `ready`, `refs` | the API server's truth, as above |
| `seen` | generation and spec as Kopf's watch has delivered them |
| `handled` | the spec Kopf has recorded as handled |
| `call` | per caller: the step, the generation it was started with, the spec it was called for, its list of desired objects as far as it is made, the spec it last read, the status it will return |
| `faults` | failed requests and restarts so far |

| Action | Code | Outcomes |
|---|---|---|
| `Begin` | a call starts and reads its generation (line 223) | |
| `Validate` | `validate_references` | valid; `InvalidConfiguration`; an API error |
| `Plan` | `desired_objects`, one object after the other while the spec changes | made as far as some object; complete; an exception, if the spec of now is not valid |
| `GetObject`, `CreateObject`, `PatchObject` | `apply_object` | written; 409; 404, taken for a missing reference; an API error |
| `RemoveObject` | one `delete_if_present` | gone; an API error |
| `ObserveWorkloads`, `CheckHealth` | `workload_readiness`, `api_healthy` | a status |
| `Finish` | the call has returned | Kopf's record of the change and the status are two patches: both, only the record, or neither |

Reads are live and `apply_object` is a get followed by a create or a patch: the object may
appear in between (409, which is a temporary error) or vanish (404, which `reconcile` takes for
a missing reference and reports as `InvalidConfiguration`). A status is sent when the
call has returned, with the generation it began with. A restart forgets what is handled, as
the resume handler runs for every cluster.

`LiveView` is a fact about Kopf, not about this repository: the `spec` a timer receives is a
view of the newest body. The passing run sets it to TRUE; the violation run sets it to
FALSE, so that what it shows does not rest on it. With it, the spec may change between the
validation and the building of the objects, between two objects, so that the list mixes two
specs or was never validated, and between the loops. The models merge only this: the reads
of one validation, of one builder and of one readiness check are one step each, and so are the
builders of the store objects, which follow one question for the mode.

`KopfReconcilerHistory` adds `crossed`: the calls under way during which, since their
validation, the *other* caller has written or deleted an object or the spec they see has changed.
It restricts nothing. The Kopf controller does not implement `ControllerContract`; what
it does promise is stated for the calls that are not crossed.

**Properties.** `TypeOK`; `Converges`; `ChangesAreHandled`; `UncrossedReportTruly` (a call that is about to
report Available, and was not crossed, reports it of objects that are all as the spec it has read wants them);
`OnlyCrossedTakeStore` (the last complete store goes, if it goes, only by a removal of a crossed
call); and `StoreContinuity`, which is violated (see below). In the same way a slow call may publish the
status of an older generation over that of a newer one; `Converges` shows that this does not last.

## Handover

The architecture allows one controller at a time and asks to stop the old one before the other
is applied. `ControllerHandover` does that with one cluster. A pass of the Go controller is one step
that ends after any number of its writes: it has one worker, so nothing else writes beside it and what
the next controller can find is a prefix of its writes. Kopf has two callers at once, so there every write
is a step of its own (`KopfApply`, `KopfRemove`), each call works for its own spec, a timer's view
changes while its list is made (`KopfRereads`), and `Stop` ends both calls wherever they are. What *begins*
a call, the get before each write, the counts and the status are the business of `KopfReconciler`.

| Variables | In the system |
|---|---|
| `running` | which controller is installed |
| `cluster`, `generation` | the spec; live, terminating or gone; whether Kopf's finalizer is on it |
| `objs` | the managed objects: for each distinguishing field its value and its owners, as `managedFields` has them |
| `calls` | Kopf's calls: the loop and its index, the spec each object is built from, the spec last read; and, as history, whether the other call or a change of the spec has crossed it |
| `verdict`, `complete` | history: what each controller made of the present spec; whether the last step ended a Go pass with all its writes, or a Kopf call for the present spec that nothing had crossed |
| `disturbances` | starts and failed requests so far; a bound |

`GoAccepts` and `KopfAccepts` are the shape checks of the two validators as far as the schema of
the resource lets a value through; what the schema refuses (a replica count of zero, an unknown
mode) is left out. They judge the scratch size with different parsers: Go's `ParseQuantity` takes zero and
less, which `controller.py:105` refuses, and Python's `parse_quantity` takes sizes that Kubernetes does not
(`100K`, `1_000Gi`, `Infinity`), the class `"lenient"`. The API server, which refuses those and
negative ones in a pod template, is `Refused`.
`ServerSide` is one field under server-side apply with force: what the Go
controller mentions becomes its own, what it no longer mentions goes if nobody else owns it.
`Merged` is one field under a merge patch: keys of maps that are not mentioned stay, lists are
replaced whole. Four fields stand for all: the owner reference, a Service annotation (a map key),
and the two environment variables of the remote storage (list elements, which server-side apply
merges by name). Ownership follows Kubernetes' documented rules and is external, like Kopf's
finalizer, the garbage collector, and what the API server refuses.

**Properties.** `TypeOK` (also: a field has a value exactly as long as somebody owns it);
`StoreNeedsCrossing` (a live cluster loses its last complete store only to a removal of a crossed Kopf call, never
to the Go controller and never to the handover itself); `LeftoversAreKnown` (after a complete Go pass or
an uncrossed Kopf call exactly the wanted objects exist with every wanted field; anything else is, under
Go, a field a Kopf patch wrote, and under Kopf a map key); `OnlyZeroScratchDivides` (what one
controller has applied in full, the other does not reject, except that Kopf rejects a scratch size of zero);
`DeletedIsCollected` (a deleted cluster goes with all its objects, unless Kopf has left its
finalizer on it and no longer runs: the code is exposed to that state, and the property only says that
there is no other one).

What they say in plain words, since operators of both controllers should know it: Kopf never removes
an annotation that was dropped from the spec; after Kopf, Go does not remove environment variables
that Kopf wrote, so that a store changed from `persistentVolume` to `s3` in that moment keeps
`CUBESTORE_REMOTE_DIR` beside the bucket; and a cluster under Kopf has to be deleted, or its finalizer
removed, before Kopf is uninstalled. CONTRIBUTING.md:45 asks for equivalent behaviour of the two for
shared fields.

## The telemetry collector

`TelemetryCollector` is `Run` and `Collect`, one action per call that leaves the process.

| Variables | In the program |
|---|---|
| `at` | the call a collector is in; `"waiting"` for its timer; `"down"` |
| `view` | when it saw the nodes and the pods, its `now`, and its transaction's `now()` |
| `gone` | the rows its transaction has deleted and not yet committed |
| `created`, `table` | the table `kubernetes_telemetry` |
| `collected` | history: rows whose collection was reported as a success and that have not expired |
| `clock`, `faults` | time; failed calls, ends of a process, lost tables |

The content of a row is reduced to `seen`, the time at which it was true of the cluster: that says
all that can go wrong with its order. The collector's clock and the database's are taken to be one, and
`Retention` to be whole ticks, fractions of an hour included (the code passes hours with all
their digits). A transaction shows nothing before it commits; a `COMMIT` that returns an error may
have gone through. Two collectors overlap, as the Deployment in
`demo/kind/telemetry/collector.yaml` has the default rolling update, and a database that is set
up anew takes the table away.

**Properties.** `TypeOK`; `CollectionsAreWhole`; `RowsFollowTheCluster` (a row shows a state no later than its
date and no earlier than the collector's row before it); `CollectedIsDurable`;
`NoGrowthWithoutPrune` (a collector's samples enter the table only together with its prune:
a prune that fails discards them, which is the price of a table that stays bounded);
`MaintainedUnlessStuck` (if no call hangs for ever, the latest samples end up in the table and the expired
ones do not). The condition of the last one is needed: none of the calls has a deadline.

## Runs

Every run finishes within four minutes with two workers.

| Run | Instance | Shows |
|---|---|---|
| `switch` | single and clustered, 2 generations, stale caches, one fault or crash, pods that start | `TypeOK`, `GenerationsAgree`, `StoreContinuity`, `ReadyOnlyWhenApplied`, `QuietIsAccurate`, `ImplementsContract` across a mode switch, with any single failure at any step |
| `watch` | one spec with two API replicas, stale caches, two of: fault, crash, lost pod, tampering, resync | `QuietIsAccurate`: the watches alone bring the controller back after a True condition, also with only some of the replicas ready |
| `settle` | a valid and an invalid spec, 2 generations, stale caches, one fault or a reference that goes | `Converges` |
| `outage` | one spec, two of fault, lost pod, readyz, tampering, deletion | `OutageIsReported`; `DeletedIsCollected`, also for objects a running pass creates afterwards; `Converges` when the API answers again or the objects and pods have been restored |
| `observed`, `readyapis` | smallest instances | violations, see below |
| `ingest` | a trace of two spans, and a producer that claims the second one's event ID and sends the first from another time zone; two attempts, two ticks, one restart or failed prune | `TypeOK`, `PublishedIsDurable`, `TraceIsPrefix`, `NoFalseConflict`, `ImplementsLedger` |
| `producers` | both demo clients, every way an execution may go, one rerun or two attempts, two polls, two ticks, one restart or failed prune | the seven properties of [the demo clients](#the-demo-clients) |
| `kopfsettle` | a settled cluster with one replica of everything whose references have gone, one change to the other mode or to an invalid spec that also asks for two API replicas, one fault or restart, both callers, a live view | `TypeOK`, `UncrossedReportTruly`, `OnlyCrossedTakeStore`, `ChangesAreHandled`, `Converges` |
| `kopfswitch` | a new cluster, no faults | a violation, see below |
| `handover` | four specs: a plain one, one that differs in mode, annotation, storage and exposure, one with a scratch size only Go accepts, one with a size only Kopf accepts; one change of the spec, two starts or failed requests, deletion | `TypeOK`, `LeftoversAreKnown`, `OnlyZeroScratchDivides`, `StoreNeedsCrossing`, `DeletedIsCollected` |
| `collector` | two collectors, three ticks, a retention of one, one failed call, lost answer, shutdown or lost table | the six properties of [the telemetry collector](#the-telemetry-collector) |

**Why the bounds are enough.** Replica counts: code compares `ready >= expected` per workload,
so 1 gives both outcomes; `watch` has 2 because a partial count needs it.
Generations: two let the spec change at any step of a pass, which is what a stale snapshot needs; that a
spec may change again, or return to the first mode while the pass for it is still in flight, is
covered by the theorems, which hold for any number of generations. Disturbances: one may hit any
step, and two cover a failure of the recovery. Something that goes away (a reference, `/readyz`)
counts as a disturbance; its coming back is free, or the properties would hold for want of it.
`Startable` is empty where the property is about objects (the pods would multiply states that it does
not read) and full otherwise.
Ingestion: two attempts are the fewest at which a late attempt overlaps its retry; two spans
the fewest at which it overlaps the next span. With no retention, two ticks (`MaxClock = 1`) let a span
expire between any two steps, and a tolerance of one lets another span end in the future. That a
row is forgotten and its ID then used for a different span takes a third tick and is left to the
theorems, which cover every property of this run for any clock. In `producers` a trace may in the
same way expire between any two requests of the client, which is the only effect time has on it.
Handover: two starts are one handover in either direction, from any write of the first
controller, with two generations so that each leaves something of an older spec; or one start and a failed
request of Kopf. What the second and further handovers find is covered by the theorems, which bound
neither starts nor specs. Kopf: with one change of the spec every pair of positions of the two callers
occurs with equal and with different specs; two API replicas in the invalid spec let a pod leave. The collector: with three ticks and a retention of one a
row is fresh, old and expired, and two collections of each of two collectors overlap in every order.

`CHECK_DEADLOCK FALSE` is set everywhere but in `collector`: a settled cluster, an exhausted bound and
producers that have all finished are states in which the system may really stop. The collector may not:
its timer always fires again.

## Fairness

* `CubeReconciler`: weak fairness of the pass as a whole (the worker goroutine runs), of every
  delivery (watches are re-established), of the timer, of pods starting and stopping and of garbage
  collection. None for users, disturbances, failures, restarts or resync.
* `AgentIngest`: weak fairness of the prune's start and of its DELETE (a ticker fires whatever
  happened to the last one), of each handler's steps (the request context bounds them), of sending,
  and of *either* an answer *or* a transport error (the client's timeout). A failed prune and a
  restart are never forced.
* `KopfReconciler`: weak fairness of each caller's next step (threads run; the timer fires again and
  again; temporary errors are retried), of the delivery, and of pods. References need not appear.
* `TraceProducers`: the client's own steps, which end by themselves or by a timeout, handlers and
  prunes. Not the MCP calls, which have no deadline, and not `RunAgain`: nobody has to.
* `ControllerHandover`: what is under way for a deleted cluster goes on (`CleanUp`): Kopf's calls end,
  Kopf lets go of the cluster while it runs, and the garbage collector works. No pass, start or stop, and
  nothing of a live cluster, is forced.
* `TelemetryCollector`: only what waits for nobody, that is the timer, the step between two calls,
  and the Deployment, which does not leave all collectors down. That calls return is no
  assumption of the specification but a premise of `MaintainedUnlessStuck`.

Weak fairness is enough everywhere: no fair action is disabled again and again for ever
by an unbounded adversary, because disturbances are finite. That is the usual reading of these
properties: once users and faults leave the system alone, it gets there.

## Proofs

| Theorem | Statement | Assumptions |
|---|---|---|
| `CubeReconcilerProofs!TypeCorrect` | `Spec => []TypeOK` | those of the constants |
| `CubeReconcilerProofs!StoreIsContinuous` | `Spec => StoreContinuity` | nobody else deletes managed objects (`"tamper" \notin Disturbances`) |
| `CubeReconcilerProofs!GenerationsAlwaysAgree` | `Spec => []GenerationsAgree` | those of the constants |
| `CubeReconcilerProofs!ReadyMeansApplied` | `Spec => ReadyOnlyWhenApplied` | nobody else deletes managed objects |
| `CubeReconcilerProofs!RestIsAccurate` | `Spec => []QuietIsAccurate` | those of the constants |
| `CubeReconcilerProofs!GoImplementsContract` | `HistorySpec => ImplementsContract` | nobody else deletes managed objects |
| `CubeReconcilerProofs!GoKeepsPromises` | `NothingUnasked`, `CompleteStays` and `ObservedGrows` of the Go controller | nobody else deletes managed objects |
| `SpanLedgerProofs!LedgerIsDurable` | the ledger's type, and that what it has acknowledged stays until it expires | ends and retention are numbers |
| `AgentIngestProofs!TypeCorrect` | `Spec => []TypeOK` | those of the constants |
| `AgentIngestProofs!IngestImplementsLedger` | `Spec => ImplementsLedger` | those of the constants |
| `AgentIngestProofs!PublicationIsDurable` | `Spec => []PublishedIsDurable` | those of the constants |
| `AgentIngestProofs!ConflictsAreReal` | `Spec => []NoFalseConflict` | those of the constants |
| `AgentIngestProofs!TracesArePrefixes` | `Spec => []TraceIsPrefix` | those of the constants |
| `TraceProducersProofs!ClientTypes`, `SuccessesAreReal`, `MismatchesAreExpiries`, `RerunsAreSafe` | `ClientTypeOK`, `SuccessIsReal`, `MismatchMeansExpired`, `RerunsAreIdempotent` | those of the constants |
| `TraceProducersProofs!ClientsKeepTheLedger` | `ClientSpec => ImplementsLedger` | those of the constants |
| `KopfReconcilerProofs!KopfTypes` | `Spec => []TypeOK` | those of the constants |
| `KopfReconcilerProofs!ReportsAreTrue` | `HistorySpec => []UncrossedReportTruly` | those of the constants |
| `KopfReconcilerProofs!StoreNeedsCrossing` | `HistorySpec => OnlyCrossedTakeStore` | those of the constants |
| `ControllerHandoverProofs!HandoverTypes`, `HandoverStoreNeedsCrossing`, `LeftoversStayKnown`, `VerdictsAgree` | `TypeOK`, `StoreNeedsCrossing`, `LeftoversAreKnown`, `OnlyZeroScratchDivides` | those of the constants |
| `TelemetryCollectorProofs!CollectorTypes`, `CollectionIsDurable`, `CollectionsStayWhole`, `GrowthNeedsPrune`, `RowsAreInOrder` | `TypeOK`, `CollectedIsDurable`, `CollectionsAreWhole`, `NoGrowthWithoutPrune`, `RowsFollowTheCluster` | those of the constants |

They hold for any set of specs with any replica counts, any number of generations, disturbances,
producers, spans, attempts, reruns, polls, handovers, collectors, ticks and faults.

**Store continuity.** The property is about one step, but whether a removal is harmless depends
on what the pass did before. `AppliedInv`: while the cluster lives, a pass in its apply loop
has behind it only objects that exist, and a pass in its removal loop runs beside the complete
topology of its own mode. It is inductive because no step but `RemoveObject` takes an object from a
live cluster (`ObjectsStay`) and `RemoveObject` takes none of the pass's own mode
(`RemovalSparesStore`, `StoreIsKept`). The order in `Reconcile`, remove only after every apply has
succeeded, is all it needs; the generation of the snapshot does not matter. With `"tamper"` the
property is false for a simple reason, tampering itself.

**Generations.** That the two fields of one status agree is not inductive: a patch
that leaves one out mixes it with an older value. `StampInv` adds that the cached
status agrees with itself, that generations only grow, and that they are ordered
*cached status ≤ server status ≤ cached generation ≤ server generation*. If a patch leaves
`observedGeneration` out, the cached status already had the cached generation; the server's status
lies between the two and so has it, too. That is why stamping the *re-read* generation keeps
the two equal; a stamp taken from the pass's snapshot would not, as the paired mutant shows.

**Ready.** `DesiredInv` follows a pass over a live cluster (`DoneSoFar`): in the apply loop the objects before
the index are as rendered, in the removal loop all of them are and those before the index are gone, after
it the objects are the desired ones (`OrdersPartition`: every object is either applied or removed), and
a verdict "Available" exists only between there and the patch. It fails with `"tamper"`: an object deleted
behind a pass is noticed by the next one.

**Rest.** `QuietIsAccurate` needs no such exception. Call *pending* what will start a pass: the key in the queue or
in the delay heap, a lagging informer, a cached cluster that differs from the server's. Only the start of a pass
uses something pending up (`PendingStays`). The one action that might do so by accident is the status patch, as
it changes the server to which the cache is compared: but a patch with an Available verdict sends no
field that equals the cached one (`PatchNotUndone`), and any other verdict sets the timer.
`QuietInv`: with nothing pending, all that the pass knows is up to date, its spec, the objects done so far, the
counts it has read. It is inductive because whatever contradicts a pass in flight also leaves something
pending, a tampered object and a lost pod through the watches, a new spec through the cache.

**Contract.** `HistoryInv` ties the history to the present: `asked` has one entry per generation,
the snapshot of a running pass is the request of `working`, and `working` is never above the cached generation; so
`Take` never turns back, crashes included, because the cache only moves forward. With `DesiredInv` each action is then one move:
`ApplyObject` writes what the request wants (`GoalIsDesired`, `ApplyKeepsContract`), `RemoveObject` acts
after all of it is applied (`RenderedIsDesired`, `RemoveKeepsContract`), and `WriteStatus` is a `Report` or a
stutter (`PatchReports`: a merge patch that leaves the condition or the generation out leaves a value
that was already allowed). `"tamper"` is excluded for the reason given under store continuity.
`GoKeepsPromises` is then proved of the contract's moves alone (`NothingUnaskedStep`, `CompleteStep`,
`ObservedStep`), without a look at the controller. What the two loops have done (`AsRendered`, `AsRemoved`) and
what one more turn adds to it (`OneMoreRendered`, `OneMoreRemoved`, `BothLoopsDone`) is stated in
`CubeResourcesProofs` for both controllers.

**Ingestion.** `IngestImplementsLedger` needs only the types: `Insert` maps to `Record` (`InsertRecords`;
a 409 or an error without commit stutters), `PruneDelete` to `Forget` (`PruneForgets`; its cutoff is
never later than the clock), `Tick` to `Age`, everything else to a stutter, since no other step adds a
204 (`AckedUnchanged`). `LedgerIsDurable` then holds of the implementation by instantiation
(`AckedIsDurable`). What is left is the producers' half, that a span they have left behind was
answered 204 (`PublishedInv`). Its induction needs `FreshInv`, that attempts still to come have left
no trace, so that an answer received is the answer to the attempt just made; and `AnswersStay`.

**Conflicts and prefixes.** `NoFalseConflict` is inductive together with the types: the row that a
409 was about stays until it expires, and a row put in its place later is no older (`ConflictStep`).
`TraceIsPrefix` follows (`PrefixFollows`) from `PublishedInv` and `TracedInv`, that every row comes
from a request that was sent: so if a span of a producer is found, the producer had sent it, had then
left the earlier ones of the trace behind, and those are durable.

**Clients.** The clients' `IInv` rests on one client being at work (`SilentInv`), so every row is one of its
spans (`RowsAreSent`), and on all of its spans ending at one time, so they expire together (`Over`).
For `mcp_execution.py` the invariants of ingestion carry over, as each of its steps is a step of `AgentIngest` or
leaves the service alone (`LoopInv`). `agent-executions.py` needs its own, since a rerun starts the list again:
an attempt numbers a whole run, and `ScriptInv` says that what a run has behind it was stored by this or an
earlier run, and that the altered child was sent only after the child had been stored. So while nothing has
expired, a row of the trace is a wanted one (`RowIsWanted`), whichever run sent it; from that follow what Cube
finds (`PublishedIsFound`) and every answer (`ValidatedAsWanted`, `InsertedAsWanted`). The ledger is
refined as before (`ClientLedgerStep`): what the clients add touches neither rows nor answers, a rerun included,
since its requests are fresh ones (`SentIsFresh`).

**Kopf.** `IInv` types each call by its label (`CallTyped`): a plan is a list of objects as some spec lists them,
made up to some place, and the indices stay in it. `WorkInv` is about the calls that nothing has
crossed: such a call knows one spec, in what it reads and in its plan alike (`PlanFor`), the
objects before the index of its apply loop are as that spec wants, all of them are in the removal loop, where those
before the index are gone, and "Available" is held only while they all are (`WorksFor`). It is inductive
because an own step keeps it (`OwnStep`) and every step of someone else either leaves the objects and the
spec of the call alone or crosses it (`OtherStep`). `ReportsAreTrue` is then immediate, and
`StoreNeedsCrossing` follows because the removals of an uncrossed call run beside the whole topology of its
own spec (`RemovalSpares`) and no other step takes an object away (`StepRemovals`). Neither assumes anything of
the callers, the view, the modes or the failures; a crossed call may take the store, which is what `kopfswitch` shows.

**Handover.** The types are preserved because either way of writing a field leaves a value exactly where it
leaves an owner (`FieldApplied`, `FieldMerged`), and because a Kopf call is always at a write of its own lists
(`FitsCall`, with one lemma for what each step makes of a call). `AtWork` says that calls exist only while Kopf runs and
its finalizer holds the cluster, so the Go controller and the garbage collector never work beside one.
`WorkInv` says of an uncrossed call what it says in `KopfReconciler`, here with fields: what is applied is as its
spec asks but for map keys, and the API server has refused none of it (`ApplyWork`, `RemoveWork`). A Go pass
is one step whose writes come in an order in which a removal is reached only after every apply
(`StepsParts`, `EffectOnObject`). `HandoverStoreNeedsCrossing` follows from the two, and so does `LeftoverInv`, which adds
that after a complete pass a controller runs and the cluster is not gone. `VerdictInv` says that a
verdict is about the present spec, since a change of the spec clears it, and that an applied spec was
`Taken` by the API server. As each topology has a store container (`AStore`), a size that only Python takes for
a quantity is never applied, and only zero is left for the validators to differ on.

**Collector.** `StepKinds` reduces the actions to the few effects they have on the table and the
transactions. `DurableInv`: what a transaction has deleted has expired, and the
collected rows that have not expired are in the table. `WholeInv`: the two rows of one collection have
the same date, so a prune takes both or neither. `PruneInv`: a transaction about to commit
has deleted the due rows of its collector. `OrderInv`: all rows of a collector are dated before it
looks at the cluster again, which is why the order "look, date, copy" of `Collect` suffices and
looking after dating would not.

**Model-checked only.** Liveness (`Converges`, `OutageIsReported`, both `DeletedIsCollected`,
`ExpiredRowsVanish`, `PublicationEnds`, `ChangesAreHandled`, `MaintainedUnlessStuck`) is out of the
prover's reach, as is ENABLED.

## Divergences from the documentation

| Run | What it shows |
|---|---|
| `observed` | `setStatus` (cubecluster_controller.go:405) stamps the generation it re-reads, not the one the pass worked on. After a spec change during the pass, the verdict on the old spec is published as that of the new generation. The bundle describes the field as "Last reconciled desired-state generation." (build-bundle.py:123). |
| `readyapis` | The status patch (line 409) leaves out what equals a stale base: a failed pass writes `readyAPIs` 0, the next one starts from the cache before it and writes True without `readyAPIs`. Ready is True with "Number of ready Cube API replicas." (build-bundle.py:124) at 0, until the next pass repairs it. |
| `kopfswitch` | Around a mode switch the Kopf timer, still with the old spec, and the change handler remove each other's topology (controller.py:229). The architecture describes the removal of the *obsolete* one (architecture.md:62) for both implementations (architecture.md:43). |

All three are transient: `QuietIsAccurate` and the `Converges` of both controllers show that they are
repaired once the controller comes to rest.

## What is left out

* What the schema of the resource refuses before a controller sees it; the rest of validation is a
  Boolean of the spec in the two reconcilers and spelled out in `ControllerHandover`.
* Pod templates have no revision: a rollout of a new image, during which ready pods of the
  old template count, is invisible. Kubernetes counts them in `readyReplicas`, and so does the controller.
* The lease protocol (client-go) and the requests a deposed leader may still have in flight.
* Foreground deletion: the cluster would stay readable with a deletion timestamp, at which `Reconcile`
  does not look. Deletion is in the background, as with the documented commands.
* Both controllers at once, which the architecture forbids.
* A Kopf call that is still in flight when its process has been stopped: `Stop` ends it between two requests.
* `build-bundle.py`: it reads manifests and writes files in a straight line and keeps no state; nothing to
  interleave or to retry. The texts it writes are quoted below the violation runs.
* A ready database that loses `agent_executions`: the ingestion service creates its table only when it
  starts, and refuses spans with 503 until then (the collector, by contrast, is modelled with it).
* The data model, Terraform, Kind and release scripts, manifests: declarations and linear scripts without
  state of their own. Their replica counts are premises here: one active manager, one Kopf
  replica, one ingestion service; of the collector two may overlap.

## Plan

Done, in this order: `CubeResources`, `CubeReconciler`, `SpanLedger`, `AgentIngest`,
`KopfReconciler`; then `TraceProducers`, `ControllerHandover`, `TelemetryCollector`; the proofs of all
of them; `ControllerContract` and its refinement by the Go controller; Kopf's crossed calls, in
`KopfReconciler` and through handovers.

Open, in the order of what they would add:

1. A revision in pod templates, to state what `Available` means during a rollout of a new image.
2. The bootstrap's join loop with reruns after a failure, if it turns out worth it.
