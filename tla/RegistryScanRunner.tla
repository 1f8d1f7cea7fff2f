------------------------- MODULE RegistryScanRunner -------------------------
(***************************************************************************)
(* The runner that creates ScanJobs for Registries that are due or asked   *)
(* for (internal/controller/registry_scan_runner.go), on the Registry of   *)
(* WorkloadRegistry.  Of a ScanJob only its targets and its fate show      *)
(* here: module RegistryScan follows a job through its scan.               *)
(***************************************************************************)
EXTENDS WorkloadRegistry

CONSTANTS
    Malformed,  \* the value of an annotation that is no RescanRequest
    MaxJobs     \* bound: ScanJobs created

ASSUME RunnerAssumption == Malformed \notin Scope /\ MaxJobs \in Nat

VARIABLES
    jobs,       \* the ScanJobs of the Registry, oldest first
    jobCache,   \* jobCache[n]: is job n finished, in the process's copy of jobs
    removing    \* annotation keys the runner is about to remove

runnerVars == <<jobs, jobCache, removing>>

\* serves: history, the requests the targets of the job cover.  The targets of
\* a job that was looked at are forgotten.
Job == [targets : Scope, serves : SUBSET (1..MaxRequests),
        state : {"pending", "rejected", "running", "finished"}]

RunnerTypeOK ==
    /\ jobs \in Seq(Job) /\ Len(jobs) <= MaxJobs
    /\ jobCache \in Seq(BOOLEAN) /\ Len(jobCache) <= Len(jobs)
    /\ removing \subseteq 1..MaxRequests

RunnerInit ==
    /\ jobs = <<>> /\ jobCache = <<>>
    /\ removing = {}

IsFinished(j) == j.state \in {"rejected", "finished"}

-----------------------------------------------------------------------------
\* collectRescanRequests: the annotations come in the order of a map.

\* Mutant: the conditions of a request replace the ones before it.
mergeRescanRequestNarrow(acc, req) ==
    IF req = Everything THEN [acc EXCEPT !.all = TRUE]
    ELSE LET whole == acc.whole \cup req.whole
         IN  [acc EXCEPT !.whole = whole,
                         !.of = {i \in req.of : RepositoryOf[i] \notin whole}]

\* A repository asked for as a whole has no conditions of its own.
mergeRescanRequest(acc, req) ==
    IF req = Everything THEN [acc EXCEPT !.all = TRUE]
    ELSE LET whole == acc.whole \cup req.whole
         IN  [acc EXCEPT !.whole = whole,
                         !.of = {i \in acc.of \cup req.of : RepositoryOf[i] \notin whole}]

\* A malformed payload is skipped.
mergeAnnotation(acc, value) ==
    IF value = Malformed THEN acc ELSE mergeRescanRequest(acc, value)

NothingMerged == [all |-> FALSE, whole |-> {}, of |-> {}]

\* The annotations of a sequence, merged from the first to the last.
mergeAnnotations(requests) ==
    MapThenFoldSet(LAMBDA value, acc : mergeAnnotation(acc, value), NothingMerged,
                   LAMBDA n : requests[n], LAMBDA S : Max(S), DOMAIN requests)

\* One payload that asks for everything decides.
collectRescanRequests(requests) ==
    LET merged == mergeAnnotations(requests)
    IN  IF merged.all THEN Everything ELSE [whole |-> merged.whole, of |-> merged.of]

\* Does a scan with targets t scan image i?
Covers(t, i) == t = Everything \/ RepositoryOf[i] \in t.whole \/ i \in t.of

\* The images a request asks for.
Asks(req) == {i \in Images : Covers(req, i)}

-----------------------------------------------------------------------------
\* The runner waits for the last ScanJob its cache knows of.
getLastScanJobFinished == jobCache # <<>> => jobCache[Len(jobCache)]

\* The webhook, which reads no cache, refuses a ScanJob of a Registry that is
\* gone or has an unfinished one.
ValidateCreate ==
    /\ registry # NoRegistry
    /\ \A n \in DOMAIN jobs : IsFinished(jobs[n])

\* Without a request an interval must be set; the first scan is due at once,
\* and whether the interval has passed since the last is left open.
shouldCreateScanJob == registryCache.rescan # {} \/ registryCache.interval

\* The elements of S in some order: a map yields its keys in any.
InSomeOrder(S) == CHOOSE f \in [1..Cardinality(S) -> S] : IsInjective(f)

\* checkRegistryForScan up to the creation of the ScanJob.
createScanJob ==
    LET keys == registryCache.rescan
        targets == IF keys = {} THEN Everything
                   ELSE collectRescanRequests([n \in 1..Cardinality(keys) |-> asked[InSomeOrder(keys)[n]]])
    IN  /\ registryCache # NoRegistry /\ removing = {}
        /\ getLastScanJobFinished /\ shouldCreateScanJob /\ ValidateCreate
        /\ Len(jobs) < MaxJobs
        /\ jobs' = Append(jobs, [targets |-> targets, state |-> "pending",
                                 serves |-> {k \in keys : Asks(asked[k]) \subseteq Asks(targets)}])
        /\ removing' = keys
        /\ UNCHANGED <<jobCache, workloadVars>>

\* Mutant: every request is removed, not only those the job was made for.
removeRescanAnnotationsAll ==
    /\ removing # {}
    /\ registryCache # NoRegistry /\ registry # NoRegistry /\ registry.rv = registryCache.rv
    /\ registry' = [registry EXCEPT !.rescan = {}, !.rv = revision + 1]
    /\ revision' = revision + 1
    /\ removing' = {}
    /\ UNCHANGED <<jobs, jobCache, clusterVars, queue, registryCache, asked, withdrawn, hasty, faults>>

\* The copy is read from the cache; an outdated one is refused and read again.
removeRescanAnnotations ==
    /\ removing # {}
    /\ registryCache # NoRegistry /\ registry # NoRegistry /\ registry.rv = registryCache.rv
    /\ IF registry.rescan \cap removing = {} THEN UNCHANGED <<registry, revision>>
       ELSE /\ registry' = [registry EXCEPT !.rescan = @ \ removing, !.rv = revision + 1]
            /\ revision' = revision + 1
    /\ removing' = {}
    /\ UNCHANGED <<jobs, jobCache, clusterVars, queue, registryCache, asked, withdrawn, hasty, faults>>

\* The conflicts outlast the retries, or the Registry is gone: the runner
\* logs the error and goes on; the annotations stay.
RemovalFails ==
    /\ removing # {}
    /\ registryCache = NoRegistry \/ registry # registryCache
    /\ removing' = {}
    /\ UNCHANGED <<jobs, jobCache, workloadVars>>

Finished == [n \in DOMAIN jobs |-> IsFinished(jobs[n])]

SyncJobs ==
    /\ jobCache # Finished
    /\ jobCache' = Finished
    /\ UNCHANGED <<jobs, removing, workloadVars>>

RestartRunner ==
    /\ jobCache' = Finished
    /\ removing' = {}
    /\ UNCHANGED jobs

-----------------------------------------------------------------------------
\* The fate of the ScanJob n (scanjob_controller.go).

\* Does the Registry declare every target?
validateScanJobTargets(t, r) ==
    /\ t.of \subseteq extractMatchConditions(r)
    /\ t.whole \subseteq {RepositoryOf[i] : i \in extractMatchConditions(r)}

reconcileScanJob(n) ==
    /\ jobs[n].state = "pending"
    /\ jobs' = [jobs EXCEPT ![n] = [@ EXCEPT
                   !.targets = Everything,
                   !.state = IF /\ registryCache # NoRegistry
                                /\ validateScanJobTargets(jobs[n].targets, registryCache)
                             THEN "running" ELSE "rejected"]]
    /\ UNCHANGED <<jobCache, removing, workloadVars>>

\* The worker completes or fails the ScanJob.
Finish(n) ==
    /\ jobs[n].state = "running"
    /\ jobs' = [jobs EXCEPT ![n].state = "finished"]
    /\ UNCHANGED <<jobCache, removing, workloadVars>>
=============================================================================
