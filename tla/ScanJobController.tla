------------------------- MODULE ScanJobController -------------------------
(***************************************************************************)
(* ScanJobReconciler (internal/controller/scanjob_controller.go) and the   *)
(* ScanJob admission webhook (internal/webhook/v1alpha1/scanjob_webhook.go).*)
(*                                                                         *)
(* The controller reads ScanJobs from a cache that lags behind the API     *)
(* server, and a write from an old copy fails on its resource version.  A  *)
(* reconciliation is two steps: everything up to and including the patch   *)
(* or the publish, then the status update from the copy it holds.          *)
(***************************************************************************)
EXTENDS Cluster

CONSTANT HistoryLimit   \* scanJobsHistoryLimit

\* rv: resource version of the copy; retry: reconcileScanJob failed.
Reconciliation == [rv : Nat, status : Status, retry : BOOLEAN]

ASSUME ControllerAssumption ==
    /\ HistoryLimit \in Nat \ {0}
    /\ NoRec \notin Reconciliation

VARIABLES
    jobQueue,   \* names waiting to be reconciled
    rec,        \* rec[n]: the reconciliation of n that awaits its status update
    admitted,   \* admitted[n]: a create request the webhook has let through
    created     \* UIDs given to objects so far

controllerVars == <<jobCache, jobQueue, rec>>
admissionVars == <<admitted, created>>

ControllerTypeOK ==
    /\ jobCache \in [Names -> ScanJob \cup {NoJob}]
    /\ jobQueue \subseteq Names
    /\ rec \in [Names -> Reconciliation \cup {NoRec}]
    /\ admitted \in [Names -> Targets \cup {"no"}]
    /\ created \subseteq UIDs

ControllerInit ==
    /\ jobCache = [n \in Names |-> NoJob]
    /\ jobQueue = {}
    /\ rec = [n \in Names |-> NoRec]
    /\ admitted = [n \in Names |-> "no"]
    /\ created = {}

-----------------------------------------------------------------------------
(* Creation and deletion of ScanJobs by users or by the scan runner.       *)

\* The webhook lists the ScanJobs of the Registry and lets the request pass
\* when each of them is finished.  The object is stored in a later step.
ValidateCreate(n, target) ==
    /\ changes > 0
    /\ admitted[n] = "no"
    /\ registry
    /\ \A m \in Names : jobs[m] # NoJob => JobFinished(jobs[m].status)
    /\ admitted' = [admitted EXCEPT ![n] = target]
    /\ changes' = changes - 1
    /\ UNCHANGED <<jobVars, objectVars, registry, tags, queueVars, task,
                   counted, historyVars, faults, controllerVars, created>>

\* The API server stores an admitted ScanJob; Default stamped the time.
CreateScanJob(u) ==
    LET n == NameOf[u]
    IN  /\ u \notin created
        /\ admitted[n] # "no"
        /\ admitted' = [admitted EXCEPT ![n] = "no"]
        /\ IF jobs[n] # NoJob    \* the name is taken
           THEN UNCHANGED <<jobVars, created>>
           ELSE /\ created' = created \cup {u}
                /\ clock' = clock + 1
                /\ jobs' = [jobs EXCEPT ![n] =
                     [uid |-> u, rv |-> clock + 1, stamp |-> clock + 1,
                      snapshot |-> FALSE, target |-> admitted[n],
                      status |-> EmptyStatus]]
        /\ UNCHANGED <<objectVars, userVars, queueVars, task, counted,
                       historyVars, faults, controllerVars>>

\* A user deletes a ScanJob to stop the scan.
DeleteScanJob(n) ==
    /\ changes > 0
    /\ jobs[n] # NoJob
    /\ jobs' = [jobs EXCEPT ![n] = NoJob]
    /\ changes' = changes - 1
    /\ UNCHANGED <<clock, objectVars, registry, tags, queueVars, task, counted,
                   historyVars, faults, controllerVars, admissionVars>>

-----------------------------------------------------------------------------
(* The cache.                                                              *)

\* A watch event brings the cache up to date and queues the name.
SyncScanJob(n) ==
    /\ jobCache[n] # jobs[n]
    /\ jobCache' = [jobCache EXCEPT ![n] = jobs[n]]
    /\ jobQueue' = jobQueue \cup {n}
    /\ UNCHANGED <<jobVars, objectVars, userVars, queueVars, task, counted,
                   historyVars, faults, rec, admissionVars>>

-----------------------------------------------------------------------------
(* Reconcile.                                                              *)

\* cleanupOldScanJobs: the listed jobs beyond the history limit, by the
\* creation-timestamp annotation.
Expired ==
    LET listed == {m \in Names : jobCache[m] # NoJob}
        younger(m) == {k \in listed : jobCache[k].stamp > jobCache[m].stamp}
    IN  {m \in listed : Cardinality(younger(m)) >= HistoryLimit}

\* The loop deletes oldest first and stops at a job that is already gone.
CleanedUp ==
    {m \in Expired :
        \A k \in Expired : jobCache[k].stamp <= jobCache[m].stamp
                              => jobs[k] # NoJob}

CleanupFails == CleanedUp # Expired

JobsAfterCleanup ==
    [m \in Names |-> IF m \in CleanedUp THEN NoJob ELSE jobs[m]]

\* Mutant: a job that is no longer pending is reconciled too.
CachedAny(n) == jobCache[n] # NoJob

\* The early returns of Reconcile do not apply.
CachedPending(n) == jobCache[n] # NoJob /\ IsPending(jobCache[n].status)

\* Reconcile takes n from the queue and goes past its early returns.
Begin(n) ==
    /\ n \in jobQueue
    /\ rec[n] = NoRec
    /\ CachedPending(n)
    /\ jobQueue' = jobQueue \ {n}

Hold(n, rv, s, retry) ==
    rec' = [rec EXCEPT ![n] = [rv |-> rv, status |-> s, retry |-> retry]]

\* The cached job is gone or no longer pending.
SkipScanJob(n) ==
    /\ n \in jobQueue
    /\ rec[n] = NoRec
    /\ ~CachedPending(n)
    /\ jobQueue' = jobQueue \ {n}
    /\ UNCHANGED <<jobVars, objectVars, userVars, queueVars, task, counted,
                   historyVars, faults, jobCache, rec, admissionVars>>

\* Mutant: the error is returned without a reason.
TargetReasonMissing(target) == ""

\* What validateScanJobTargets returns with the error.
TargetReason(target) ==
    IF target = "unknownRepository" THEN "RepositoryNotFound"
                                    ELSE "MatchConditionNotFound"

\* The Registry is gone, or does not declare what the job targets.
RejectScanJob(n) ==
    LET s == InitializeConditions(jobCache[n].status)
    IN  /\ Begin(n)
        /\ ~CleanupFails
        /\ ~registry \/ jobCache[n].target \in Undeclared
        /\ jobs' = JobsAfterCleanup
        /\ Hold(n, jobCache[n].rv,
                MarkFailed(s, IF ~registry THEN "RegistryNotFound"
                                           ELSE TargetReason(jobCache[n].target)), FALSE)
        /\ UNCHANGED <<clock, objectVars, userVars, queueVars, task, counted,
                       historyVars, faults, jobCache, admissionVars>>

\* Job j with the Registry snapshot and a new creation-timestamp annotation.
Annotated(j, now) ==
    [uid |-> j.uid, rv |-> now, stamp |-> now, snapshot |-> TRUE,
     target |-> j.target, status |-> j.status]

\* The Registry is copied into an annotation.  The merge patch carries no
\* resource version, so it applies to whatever object has the name now, and
\* the response replaces the held copy.  The webhook stamps the time again.
SnapshotRegistry(n) ==
    LET live == JobsAfterCleanup[n]
        s    == IF live.status.conds = EmptyStatus.conds
                THEN InitializeConditions(live.status) ELSE live.status
    IN  /\ Begin(n)
        /\ ~CleanupFails
        /\ registry
        /\ jobCache[n].target \notin Undeclared
        /\ ~jobCache[n].snapshot
        /\ live # NoJob
        /\ clock' = clock + 1
        /\ jobs' = [JobsAfterCleanup EXCEPT ![n] = Annotated(live, clock + 1)]
        /\ Hold(n, clock + 1, s, FALSE)
        /\ UNCHANGED <<objectVars, userVars, queueVars, task, counted,
                       historyVars, faults, jobCache, admissionVars>>

\* Mutant: the message is published without the snapshot.
ScheduleScanJobEarly(n) ==
    LET s == InitializeConditions(jobCache[n].status)
    IN  /\ Begin(n)
        /\ ~CleanupFails
        /\ registry
        /\ jobCache[n].target \notin Undeclared
        /\ Publish(Message("createCatalog", jobCache[n].uid, NoImage))
        /\ jobs' = JobsAfterCleanup
        /\ Hold(n, jobCache[n].rv, MarkScheduled(s), FALSE)
        /\ UNCHANGED <<clock, objectVars, userVars, task, counted, faults,
                       historyVars, jobCache, admissionVars>>

\* Mutant: the message id is the name of the job instead of its UID.
ScheduleScanJobByName(n) ==
    LET s == InitializeConditions(jobCache[n].status)
    IN  /\ Begin(n)
        /\ ~CleanupFails
        /\ registry
        /\ jobCache[n].target \notin Undeclared
        /\ jobCache[n].snapshot
        /\ IF \E m \in ScanMessages : published[m] > 0 /\ NameOf[m.uid] = n
           THEN UNCHANGED queueVars
           ELSE Publish(Message("createCatalog", jobCache[n].uid, NoImage))
        /\ jobs' = JobsAfterCleanup
        /\ Hold(n, jobCache[n].rv, MarkScheduled(s), FALSE)
        /\ UNCHANGED <<clock, objectVars, userVars, task, counted, faults,
                       historyVars, jobCache, admissionVars>>

\* The CreateCatalog message is published and the copy marked as scheduled.
ScheduleScanJob(n) ==
    LET s == InitializeConditions(jobCache[n].status)
    IN  /\ Begin(n)
        /\ ~CleanupFails
        /\ registry
        /\ jobCache[n].target \notin Undeclared
        /\ jobCache[n].snapshot
        /\ Publish(Message("createCatalog", jobCache[n].uid, NoImage))
        /\ jobs' = JobsAfterCleanup
        /\ \/ /\ Hold(n, jobCache[n].rv, MarkScheduled(s), FALSE)
              /\ UNCHANGED faults
           \/ /\ Fault    \* the answer of the stream is lost
              /\ Hold(n, jobCache[n].rv, s, TRUE)
        /\ UNCHANGED <<clock, objectVars, userVars, task, counted,
                       historyVars, jobCache, admissionVars>>

\* reconcileScanJob fails: at the cleanup, at the patch of a job that is gone,
\* or at a call that returns an error.  The status is still updated.
FailReconcile(n) ==
    /\ Begin(n)
    /\ \/ /\ \/ CleanupFails
             \/ /\ registry
                /\ jobCache[n].target \notin Undeclared
                /\ ~jobCache[n].snapshot
                /\ JobsAfterCleanup[n] = NoJob
          /\ jobs' = JobsAfterCleanup
          /\ UNCHANGED faults
       \/ /\ Fault
          /\ jobs' \in {jobs, JobsAfterCleanup}
    /\ Hold(n, jobCache[n].rv, InitializeConditions(jobCache[n].status), TRUE)
    /\ UNCHANGED <<clock, objectVars, userVars, queueVars, task, counted,
                   historyVars, jobCache, admissionVars>>

\* Mutant: the update does not carry the resource version.
StatusUpdateUnconditional(n) == jobs[n] # NoJob

\* The status update succeeds if the object is still the version held.
StatusUpdateAccepted(n) == jobs[n] # NoJob /\ jobs[n].rv = rec[n].rv

UpdateScanJobStatus(n) ==
    /\ rec[n] # NoRec
    /\ StatusUpdateAccepted(n)
    /\ WriteStatus(n, rec[n].status)
    /\ RecordScanJobFinished(jobs[n].uid, rec[n].status)
    /\ rec' = [rec EXCEPT ![n] = NoRec]
    /\ jobQueue' = IF rec[n].retry THEN jobQueue \cup {n} ELSE jobQueue
    /\ UNCHANGED <<objectVars, userVars, queueVars, task, historyVars,
                   faults, jobCache, admissionVars>>

\* NotFound, a conflict or another error: the name is queued again.
RetryScanJob(n) ==
    /\ rec[n] # NoRec
    /\ IF StatusUpdateAccepted(n) THEN Fault ELSE UNCHANGED faults
    /\ rec' = [rec EXCEPT ![n] = NoRec]
    /\ jobQueue' = jobQueue \cup {n}
    /\ UNCHANGED <<jobVars, objectVars, userVars, queueVars, task, counted,
                   historyVars, jobCache, admissionVars>>

Reconcile(n) ==
    \/ SkipScanJob(n)
    \/ RejectScanJob(n)
    \/ SnapshotRegistry(n)
    \/ ScheduleScanJob(n)
    \/ FailReconcile(n)
    \/ UpdateScanJobStatus(n)
    \/ RetryScanJob(n)
=============================================================================
