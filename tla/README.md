# A TLA+ model of sbomscanner

sbomscanner scans container registries, the nodes of a cluster and the workloads that run on it for vulnerabilities.
This directory models how its parts work together, checks the models with TLC on small instances, and proves the main
safety properties of registry scans, node scans, workload scanning, the object store with its watches, and its queries
with TLAPS for every size.

## The system

| Part | Code | Here |
|---|---|---|
| ScanJob status | `api/v1alpha1/scanjob_types.go`, `internal/telemetry/jobs.go` | `ScanJobStatus` |
| Work queue (NATS JetStream) | `internal/messaging/`, `internal/handlers/messages.go` | `WorkQueue`, subscriber in `ScanWorker` and `NodeWorker` |
| ScanJob controller and webhook | `internal/controller/scanjob_controller.go`, `internal/webhook/v1alpha1/scanjob_webhook.go` | `ScanJobController` |
| Registry scan workers, failure handler | `internal/handlers/{create_catalog,generate_sbom,scan_sbom,scanjob_failure}.go` | `ScanWorker` |
| VulnerabilityReport controller | `internal/controller/vulnerabilityreport_controller.go` | `ReportController` |
| Node scans: runner, controllers, workers | `internal/controller/node*.go`, `internal/handlers/*node*.go` | `NodeCluster`, `NodeControllers`, `NodeWorker` |
| Managed Registries of workloads | `internal/controller/workloadscan_controller*.go`, `workloadscan_watch_helpers.go` | `WorkloadRegistry` |
| Registry scan runner | `internal/controller/registry_scan_runner.go` | `RegistryScanRunner` |
| What a catalogue finds | `internal/handlers/create_catalog.go`, `internal/filters` | `Catalogue` |
| Workload reports, status of Images | `internal/controller/workloadscan_controller_report.go`, `image_workloadscan_*.go` | `WorkloadReports` |
| Storage behind the aggregated API | `internal/storage/store.go`, `repository/` | `ObjectStore`, `Queries` |
| Its watches | `internal/storage/*watcher.go`, `transform.go` | `WatchFanout` |
| Garbage collection, remote registry, users | external | `RegistryScan`, `NodeScan` |
| Other webhooks, MCP server, clients, telemetry, start-up | `internal/webhook`, `internal/mcp`, `internal/handlers/registry`, `cmd/` | not modelled |

**A registry scan.** A user or the scan runner creates a ScanJob; a webhook rejects it while another job of the
Registry runs. The ScanJob controller cleans up old jobs, copies the Registry into an annotation of the job, and in a
later reconciliation publishes a CreateCatalog message and marks the job scheduled. A worker handles the message: it
marks the job in progress, reads the remote registry, creates and deletes Image objects, writes the number of images
into the job and publishes a GenerateSBOM message per image. That handler stores an SBOM and publishes a ScanSBOM
message, whose handler stores a VulnerabilityReport labelled with the UID of the job. The VulnerabilityReport
controller counts the labelled reports and completes the job when there are as many as images. A message whose handler
fails is redelivered, and after `maxDeliver` deliveries the job is failed.

**A node scan** has one job per node and no counting: the runner creates a NodeScanJob when a scan is due or asked for,
its controller attaches the configuration and publishes, the worker on the node stores an SBOM, scans it and completes
the job.

**Workload scanning** keeps a managed Registry that lists the images the selected namespaces run, asks the scan runner
for rescans through annotations, and keeps a WorkloadScanReport per workload. Images carry the list of the reports that
name them.

**Storage.** Images, SBOMs and reports live in PostgreSQL behind an aggregated API server. Every write is announced
over NATS to every replica, which reads the object again and gives it to its watchers. A WorkloadScanReport shows
VulnerabilityReports, so an event on one of those also becomes an event on it.

## Modules

Registry scan (`RegistryScan` is the composition):

* `ScanJobStatus` - the status record and the functions on it.
* `WorkQueue` - stored messages with their delivery state. Publishing a known id is either dropped (inside the
  deduplication window) or stored as a further copy (`MaxCopies` bounds how many).
* `Cluster` - the shared state: jobs by name, Images, SBOMs and reports by image, the queue, the history variables
  and the bounds on faults and user acts. `clock` is the source of resource versions.
* `ScanJobController` - admission and `Reconcile`. The cache `jobCache` lags behind `jobs`; `SyncScanJob` is a watch
  event. One reconciliation is two steps: everything up to the patch or publish, then the status update from the
  held copy `rec[n]`, which is accepted only if the job still has that resource version.
* `ScanWorker` - the subscriber, the three handlers and the failure handler. `task[w]` is the delivery, `local[w]` the
  program counter and the local variables. A handler is one step per call that others can observe.
  A get-modify-update under `RetryOnConflict` is one step, because the write that succeeds is of the version read.
* `ReportController` - counting reports from lagging caches.
* `RegistryScan` - users, the remote registry, the garbage collector and restarts; `Next`, `Spec`, `FairSpec` and the
  properties. `RegistryScanInvariant` has the inductive invariants `Inv` and `Progress`.

Node scan (`NodeScan` is the composition):

* `NodeCluster` - nodes, configurations, jobs, SBOMs and the queue. A `Course` is the acts and faults of one run.
* `NodeControllers` - the runner's cycle, one step per node, and the reconcilers of configurations, nodes and jobs.
* `NodeWorker` - the worker on each node: both handlers, the failure handler and the node's own consumer.
* `NodeScanInvariant` has the inductive invariant `Inv`.

Workloads (`WorkloadScanning` is the composition of the first three):

* `WorkloadRegistry` - which namespaces an event enqueues, and a reconciliation of one against a cached Registry.
* `RegistryScanRunner` - requests read from a cached copy, the job made for them, and the removal of what was read.
* `Catalogue` - from targets and match conditions to references, as operators.
* `WorkloadReports` - the plan of a reconciliation and its writes one by one; the controller that writes the status of
  Images.

Storage (`StorageServer` is the composition of the first two):

* `ObjectStore` - the statements of Create, Get, GuaranteedUpdate and Delete. A client is at one statement of a
  request, and holds what it read in `req[c]`.
* `WatchFanout` - what follows a commit: publication, the fan-out per replica, rehydration, and the informers that list
  and watch; a watch that ends is started over with a list, or resumed from a version the informer has heard of.
* `VersionedStore` - what the store promises: each write is one step that installs a fresh version.
* `Queries` - pages of a list and the two queries behind the status of a container, as steps between which rows change.

Proofs:

* `RegistryScanProofs` - type correctness, that every step keeps `Inv`, and what follows; `RegistryScanProgress` - that
  every step keeps `Progress`.
* `NodeScanSteps` - type correctness, the few kinds of steps there are, by what they do to jobs and copies of them, and
  the part of `Inv` about identities; `NodeScanProofs` - jobs and copies, messages and handlers, and what follows.
* `WorkloadScanningProofs`, `WorkloadReportsProofs`, `QueriesProofs` and `StorageProofs` - each about the module it is
  named after (`StorageProofs`: `StorageServer`).

`MC*` modules and `.cfg` files are the instances for TLC. Operators whose comment starts with "Mutant:" are plausible
mistakes in the operator that follows them. They are used by no specification; each one, put in the place of its
original, makes TLC report the property named in `PROJECT.json`.

### What the properties leave out

There are interleavings in which the code does not do what a property says. A history variable records that one
happened, and the property no longer speaks of the job or key it happened to (of the whole run, for `hasty`). The models
have these steps like any other.

`disturbed` - jobs a property of *regular* jobs no longer speaks of. For registry scans these are jobs

* whose Image or SBOM is gone when the message is handled (the handlers return nil);
* a report of which is relabelled by another job or garbage collected before it finished;
* whose failure handler itself fails;
* over which a second, different catalogue is written, or any catalogue when they are finished;
* that the failure handler of a message of an earlier job of the same name fails.

For node scans: a handler found nothing to work on, a message of an earlier job of the name acted on the job, a
finished job was moved back, or the failure handler failed. `node_scan_sbom.go:88` says that a finished job is not moved
back and counted again. This does not hold: `generate_node_sbom.go:117` skips failed jobs only, and between the check
and the status update (`node_scan_sbom.go:96`) another handler may finish the job. It is the same sentence, and the same
kind of gap, as in `create_catalog.go`, where the run `finished_is_final` shows it.

`missed` (storage) - keys of which a watch was not told: their last write was committed between the list and the
registration of the watch, or a replica lost the message. `store.go:410` says that a watch from the version of a list
"won't miss events". It does: the version is drawn after the items were read, so a write in between has a smaller version,
and a write after the watch read its first events is published before the broadcaster knows the watch.

`astray` (storage) - keys whose last message is not about their last write, because the publication failed, or because
a write and the deletion that followed it were published in the opposite order. `watcher.go:181` says that when
`rehydrate` finds no object "the following DELETED event reconciles client state". In that order there is none to
follow, and the informer keeps an object that is gone.

`hasty` (workloads) - a deletion, or a write left out as unnecessary, was decided on a cached copy that was no longer
the stored object. It is one flag for the whole run, it is never cleared, and it is set whether or not the decision was
wrong. So `Mirrored` and `ReportsMirror` say nothing of what follows such a decision, although the next event on the
namespace usually makes up for it.

## What TLC checks

| Run | Instance | Checks |
|---|---|---|
| `faults` | 2 images, 2 workers, 1 fault, delivery limit 2 | `NoPrematureCompletion`, `NoJobLeftBehind`, `Progress` |
| `window` | 1 image, 1 worker, 2 copies of each message, delivery limit 1, 1 fault, targets all, some, an undeclared repository or an undeclared condition | `CountedExactly`, `NeverRescheduled`, `TypeOK`, `Inv` |
| `recreate` | 3 jobs of 2 names, one name used twice, history limit 1, 3 user acts, no faults | `SnapshotBeforeMessage`, `NoJobLeftBehind` |
| `liveness` | 1 image, 2 workers, 1 fault, `FairSpec` | `EveryJobSettles` |
| `nodes` | 1 node, 3 jobs of 2 names, 2 configurations, three courses of acts and faults, delivery limit 1 | `NoNodeJobLeftBehind`, `CompleteMeansReported`, `NodeJobCountedExactly`, `OwnedBeforeMessage`, `Inv` |
| `registries` | 2 namespaces with a pod each, 2 images of a repository, 2 pod changes, 1 configuration change, 2 requests, 1 job, 1 fault | `Mirrored`, `RequestsCovered`, `MergeExact`, `CatalogueExact`, `TypeOK` |
| `reports` | 2 pods, 2 workloads, 1 image, 3 pod and 3 image changes, 1 fault | `ReportsMirror`, `StatusMirrors` |
| `storage` | 1 object, 2 clients, 1 replica, 1 informer, 4 versions, 1 fault | `Converged`, `VersionIdentifies`, `WatchInv`, `Implements` |
| `views` | a report and a workload report, 1 client, 3 versions, 1 informer | `Converged`, `WatchInv`, `TypeOK` |
| `queries` | 3 images, ids up to 3 | `PagesExact`, `StatusExact`, `ReadsInv`, `TypeOK` |

Registry scan:

* `NoPrematureCompletion` - a regular job is complete with `AllImagesScanned` only if a report was written for every
  image of its catalogue, and its counters say so.
* `NoJobLeftBehind` - a regular job that is not finished has something left that will move it: a cache entry to
  come, a queued reconciliation, a message in the stream, a report to be counted.
* `CountedExactly` - the completion metric of a regular job is 1 if it is finished and 0 otherwise.
* `NeverRescheduled` - a job never goes back to pending, nor from a later state to scheduled.
* `SnapshotBeforeMessage` - a job with a published message carries the snapshot the handlers need.
* `EveryJobSettles` - every job finishes, is deleted or is disturbed.

Node scan: `NoNodeJobLeftBehind` and `NodeJobCountedExactly` are the same for node jobs; an unfinished one would keep the
runner from ever scanning the node again. `CompleteMeansReported` - a complete regular job has had a report
labelled with its own UID.
`OwnedBeforeMessage` - a job with a published message has its snapshot, and is owned by the configuration in it.

Workloads:

* `Mirrored` - with every namespace reconciled, the managed Registry lists exactly the images the selected namespaces
  run, each labelled with the namespaces that run it.
* `RequestsCovered` - a rescan request is still on the Registry, or was served by a job whose targets cover it, or went
  with the Registry. A job counts as having served it even if its targets are rejected later.
* `MergeExact` - merged targets scan what the requests ask for together, in any order; this is checked against the union
  of what each one asks for.
* `CatalogueExact` - a job accepted by the controller finds the existing images its targets select, and fails exactly when
  one of their repositories does: a repository with a digest among the images selected in it is not listed, and fails
  when one of them does not exist; any other is listed, and fails when it does not exist itself.
* `ReportsMirror` - with the namespace reconciled, every pod has the report of its owner and no other report is left.
* `StatusMirrors` - with its events handled, an Image lists exactly the reports that name it.

Storage:

* `Converged` - once no event is under way, an informer whose watch is on sees what a read would return.
* `VersionIdentifies` - a resource version names one state of one object wherever it is met: among the rows, what a
  request has read or is about to write, messages, events under way, and what informers were told.
* `Implements` - the store refines `VersionedStore`.
* `PagesExact` - a list read page by page has every row that was there and matched throughout, and none twice. What
  a selector matches is what Kubernetes says, except where SQL comes to no verdict: a comparison with a missing label is
  NULL (`list.go:162`), so lists with `!=`, `notin` or `!key` leave out objects without the label, or without labels,
  which Kubernetes would put in.
* `StatusExact` - the status of a container is right when nothing was written between its two queries and every report
  has its image.

`Inv`, `Progress`, `WatchInv` and `ReadsInv` are the inductive invariants of the proofs (see below).

The systems may stop when nothing is left to do, so deadlock is not an error.

**Bounds.** One fault is enough to interrupt any handler at any call and redeliver its message to a second worker
while the first still runs; with a delivery limit of 1 it also reaches the failure handler. Two workers are as many as
can handle one message at once after one timeout. Two images distinguish a complete count from a partial one; two UIDs
of one name give every confusion of a job with its successor, and a second name the races of the webhook and of the
cleanup. `recreate` leaves out (`Separately`) runs in which a job is both recreated and joined by one of the second
name; `nodes` leaves out runs in which a recreated name meets a fault: its three courses are acts without a fault on a
name given twice, a fault with one act, and two acts on a job of the runner. Two clients of the store give every race
of two requests; two namespaces are needed for a Registry to be shared and two pods for a report to change hands.
Three rows fill more than one page. `MaxChanges`, `MaxPodChanges` and the like count acts of users. Symmetry is used
where the elements of a set are told apart by nothing (workers, images, namespaces with their pods, clients), and
never for liveness.

**Fairness.** `FairSpec` has weak fairness of each watch, each controller queue item, each worker and of the redelivery
of a message that nobody handles. controller-runtime retries a failed item forever, JetStream redelivers until
acknowledged, and a worker is restarted by its Deployment. Nothing is assumed of users, the garbage collector or
faults; a redelivery to a second worker while the first is busy is a fault. The other specifications are checked for
safety only: `Mirrored`, `ReportsMirror`, `StatusMirrors` and `Converged` say what holds whenever there is nothing left
to do, which needs no fairness.

### Disagreements found

Each violation run checks one sentence of the repository that the code does not keep in every interleaving:

| Run | Says | Behaviour |
|---|---|---|
| `finished_is_final` | `create_catalog.go:107`: a finished job is not moved back to in progress | the second status update (`:293`) has no finished check; the job finishes, and is counted, again |
| `lost_update` | `store.go:430`: the update is retried until success if there is a conflict | the row is read without a lock and written by name (`:497`): two clients read one version, and the second commit replaces what the first one wrote |

## What is proved

**Registry scan.** For every finite set of images, every set of names, UIDs and workers and every value of the bounds
(`ClusterAssumption`, `FiniteAssumption`, `TaskAssumption`, `ControllerAssumption`, `ScanAssumption`):

* `TypeCorrect` - `Spec => []TypeOK`;
* `Invariance` - `Spec => []Inv`;
* `CountedExactlyOnce` - `Spec => []CountedExactly`;
* `SnapshotFirst` - `Spec => []SnapshotBeforeMessage`;
* `NoRescheduling` - `Spec => NeverRescheduled`; these five in `RegistryScanProofs`;
* `ProgressInvariant` - `Spec => []Progress`;
* `NeverPremature` - `Spec => []NoPrematureCompletion`;
* `NeverLeftBehind` - `Spec => []NoJobLeftBehind`; these three in `RegistryScanProgress`.

`CountedExactly` is not inductive. The controller counts a job when it writes a terminal status from a held copy, so
it must be known that a held copy that is still current was made of a pending job (`HeldCopies`). That needs to know
that a cached job of the current version is the current job (`CacheAgrees`, `Versions`), that a job whose snapshot
the controller has yet to write cannot have been finished by a worker (`Quiet`), because no worker has a message of
it (`Causality`, `Published`), and that a UID has no past before its object exists (`Fresh`). The proof has one
lemma per action or group of actions that change the same state; `OnwardNext` shows that every status write moves
a job onward, from which `NoRescheduling` follows.

`NoPrematureCompletion` and `NoJobLeftBehind` need a second invariant, `Progress`, inductive relative to `Inv`. A count of
reports completes a job if it equals the total in the status. That this is not too early needs the total to be the size
of the catalogue, also in a held copy that is still current (`Counts`), and every label a report carries or a cache
shows to be of an image of that catalogue (`Labels`, `Catalogues`): then equal cardinality means equal sets, which is
where finiteness is used. That nothing is left behind is a chain: a pending job is to be reconciled (`OnItsWay`); a
published message is in the stream until the next message of its image is published or its report labelled (`Pursued`),
so no handler acknowledges before that (`Handlers`, with the loop over the images of a catalogue, of which those not
in `todo` are done); and once every image is labelled, one of the reports is still to be counted (`Awaited`), because
the report written last has an event that no earlier count has seen. A job that is gone, disturbed or finished is
`Settled`, and no step unsettles it.

**Node scan.** For every finite set of UIDs, every set of nodes and names, every set of courses and every value of the
bounds (`NodeAssumption`, `NodeTaskAssumption`, `ControllersAssumption`), in `NodeScanProofs`:

* `NodeTypeCorrect` - `Spec => []TypeOK`;
* `NodeInvariance` - `Spec => [](TypeOK /\ Inv)`;
* `NodeCountedExactlyOnce` - `Spec => []NodeJobCountedExactly`;
* `NodeCompleteIsReported` - `Spec => []CompleteMeansReported`;
* `NodeSnapshotFirst` - `Spec => []OwnedBeforeMessage`;
* `NodeScansGoOn` - `Spec => []NoNodeJobLeftBehind`.

`NoNodeJobLeftBehind` is the hard one: it speaks of every place a job's next step can come from. A pending job is to be
reconciled (`Reconciled`), which needs that a held copy that is still current leaves the job pending only if the
reconciliation is retried (`Held`). Once started, a job has its message in the stream until the handler is done
(`Pursued`); so an acknowledgement must come after the next message or after the job is settled (`Handlers`), and a
scan message under the id of a job must be about that job unless it was disturbed (`Payload`), since otherwise
deduplication would swallow the right one. That a job left the pending state only by being started or rejected is
`Left`. The rest ties copies to objects: `Identity` (an object has the name of its UID, and a UID is given once),
`Behind` (a copy of the current object is not ahead of it), `Causality` and `Published` (no message before the object,
none before the controller has seen its owner). `Steps` reduces `Next` to seven kinds of steps and the steps of
workers; each conjunct of `Inv` has a lemma per kind that can disturb it.

**Workload scanning.** For all sets of namespaces, pods, images and repositories, all configurations and all bounds
(`WorkloadAssumption`, `RunnerAssumption`), in `WorkloadScanningProofs`:

* `RegistryMirrorsPods` - `Spec => []Mirrored`;
* `ScanningTyped` - `Spec => []TypeOK`;
* `NoRequestDropped` - `Spec => []RequestsCovered`;
* `MergedExactly` - `Spec => []MergeExact`;
* `CatalogueFindsTargets` - `Spec => []CatalogueExact`.

A write to the Registry is computed from a cached copy and accepted only if the version is the same, so the proofs need
that a copy of the current version is the object (`VersionInv`). `Mirrored` then follows from `MirrorInv`, which says
it of each namespace that is not queued, whatever the others are at. `RequestInv` says that an annotation is on the
Registry, was withdrawn or is served by a job, and that the runner removes none that is not served; that a job covers the
requests it was made from rests on `FoldMerges`: the fold that merges requests computes the union, whatever their number
and order. There is no induction over sequences in this prover, so the lemma takes the shortest prefix for which the
claim fails (`SmallestNumber`) and derives a contradiction from the last element. `TargetsInv` says that merged targets
name no image of a repository they name as a whole, and `CacheInv` that a cached Registry has a condition;
`CatalogueExact` needs both, because the worker takes a repository without conditions as a whole one.

For all sets of pods, workloads and images (`ReportsAssumption`), in `WorkloadReportsProofs`:

* `ReportsTyped` - `Spec => []TypeOK`;
* `ReportsFollowPods` - `Spec => []ReportsMirror`;
* `ImagesFollowReports` - `Spec => []StatusMirrors`.

`PlanInv` says that what is left of a plan leads from the reports as they are to what the pods ask for, unless a request
is queued; `ImageInv` that an Image without an event is as its cached copy says and, without a request, names the cached
reports that refer to it.

**Storage.** For every set of keys, clients, replicas and informers and every bound on versions, messages and faults
(`StoreAssumption`, `WatchAssumption`), in `StorageProofs`:

* `StoreInvariant` - `Spec => []VersionInv`;
* `VersionsIdentify` - `Spec => []VersionIdentifies`;
* `StoreImplements` - `Spec => Implements`;
* `WatchInvariant` - `Spec => []WatchInv`;
* `StorageTypes` - `Spec => []TypeOK`;
* `InformersConverge` - `Spec => []Converged`.

`VersionIdentifies` is not inductive either: that a draw is fresh needs every version in use to be at most the last value
drawn, and that an insertion or update commits a version of its own needs to know that a writer holding a version holds
it alone. `VersionInv` says so of rows (`RowsOK`), of requests that are about to write (`WritersOK`) and of those that
have committed and are about to publish (`AnnouncedOK`). Copies elsewhere were made of rows: `CopiesOK` says that their
versions were installed and that two of one version agree, which every step keeps because it copies a row or another
copy (`Has`), and a commit installs a version that no copy has. Every step leaves the store alone (`Idles`), changes requests
only (`Keeps`) or commits one row (`Commits`); `StepForms` assigns each action its form, and each form keeps `VersionInv`.

`Converged` follows an event from the commit to the informer. A replica reads the object again, so a message need only
tell which object is stored, or that none is (`Tells`). A message still to be published that no longer does is marked
late, or will be when the message on the last write of its key is published (`LateMarked`). So, once all messages on a
key are published, the last one on its way to each replica tells what is stored (`LastTells`); and once none is on its
way, an informer that missed none knows it, from the list, from the events its watch started with or from the last
message (`InformersKnow`). For a workload report, messages on the reports it shows are on their way to it
too (`Underway`).

**Queries.** For every finite set of images and every bound on ids (`QueriesAssumption`), in `QueriesProofs`:

* `ReadsInvariant` - `Spec => []ReadsInv`;
* `QueriesTyped` - `Spec => []TypeOK`;
* `ListsExact` - `Spec => []PagesExact`;
* `StatusAgrees` - `Spec => []StatusExact`.

`ReadsInv` says that an id is drawn once (`IdsApart`), that the items of a list increase and have every row that was
there throughout up to the continue token (`Paged`), and that the number of images counted for a status is still right
if nothing was written since. That a page has its rows in order, whatever their number, is proved without induction: the
place of a number in a set is the number of elements that are not above it.

**Assumptions.** They say what kind of thing each constant is, that the values for "nothing" (`NoJob`, `NoRec`, `NoTask`,
`NoPlan`, `NoRegistry`, ...) are not things, and that bounds are numbers. Finiteness of `UIDs`, and
of `Images` in registry scans, is stated by what the proofs use of it: every subset has a number of elements and, for
images, a part of a set with as many elements is the whole (`FiniteAssumption`). TLC evaluates every assumption.

**Only model-checked.** `EveryJobSettles`, because the prover does not handle liveness. All invariants and all action
properties of the passing runs, and the refinement, are proved.

## Not modelled

* About 12,000 of the 30,000 lines of Go are generated (`pkg/generated`, `zz_generated*`, mocks). Of the rest, about 5,200
  are modelled. What remains is mostly wiring (`cmd/`, `register.go`, flags), tracing and metrics
  (`instrumentation.go`, `internal/telemetry`), type declarations, and the following parts, which have no state of their
  own that a step of another part could meet.
* Webhooks other than the creation checks of ScanJobs and NodeScanJobs: each validates one object against itself.
* The MCP server: each tool is one read or one creation through the API, as any user could make it.
* Registry and Trivy clients, authentication, CA bundles, conversion of Trivy's output: a call is a step that succeeds or
  fails, and in the registry scan returns old or new results.
* Platforms and layers of images; expressions in match conditions that a user writes; skip patterns. Discovered images
  are a set: two references that name one image would make a total larger than any count.
* Storage strategies, table convertors and field selectors; connection handling of PostgreSQL and NATS.
* The walk from a pod along owner references: the owners of a pod are a constant, and a pod may be seen with any of them.
  The managed Registry is one; several are reconciled one after the other and share nothing.
* Garbage collection of workload reports along the owner reference each of them carries
  (`workloadscan_controller_report.go:114`): a report goes when its controller deletes it.
* Deletion of all workload reports when the configuration is deleted: `ReportsMirror` speaks of one namespace that
  is selected or not.
* A status update that is stored while its answer is lost, in registry scans: the completion metric would then be one
  too low, which the comment on `JobMetrics` accepts.
* The Registry of a registry scan is read live and, once deleted, is not created again. A restart of a controller fills
  its caches from the current state. Report events of a registry scan always arrive in the end, although `WatchFanout`
  shows how a watch may miss one: the two are not composed.
* Time: delays, intervals, `AckWait` and the deduplication window are arbitrary.
