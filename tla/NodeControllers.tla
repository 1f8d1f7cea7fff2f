-------------------------- MODULE NodeControllers --------------------------
(***************************************************************************)
(* The controller process's part of a node scan (internal/controller):     *)
(* NodeScanRunner, NodeScanJobReconciler, NodeScanConfigurationReconciler  *)
(* and NodeScanReconciler, with the NodeScanJob webhook.  They read jobs   *)
(* from a cache that lags behind the API server.  The configuration and    *)
(* the nodes, which change seldom, are read as they are.  scanInterval is  *)
(* set; whether it has elapsed since a job completed is left open.         *)
(*                                                                         *)
(* A reconciliation that would return at once is left out: of a job that   *)
(* is gone or no longer pending, of an enabled configuration, of a node    *)
(* that exists.                                                            *)
(***************************************************************************)
EXTENDS NodeCluster

CONSTANT HistoryLimit   \* scanJobsHistoryLimit

\* copy: the job as the reconciliation holds it; retry: it returns an error.
Reconciliation == [copy : NodeScanJob, status : Status, retry : BOOLEAN]

\* A cycle of the runner: the nodes left to check, and rescanRequested.
Cycle == [todo : SUBSET Nodes, rescan : BOOLEAN]

ASSUME ControllersAssumption == NoRec \notin Reconciliation /\ NoRec \notin Cycle

VARIABLES
    jobCache,      \* the controller process's copy of jobs
    configQueue,   \* is the configuration, gone or disabled, to be reconciled
    nodeQueue,     \* deleted nodes waiting to be reconciled
    jobQueue,      \* names of pending jobs waiting to be reconciled
    rec,           \* rec[n]: the reconciliation that awaits its status update
    cycle          \* the cycle of the runner under way, or NoRec

workVars == <<configQueue, nodeQueue, jobQueue>>
controllerVars == <<jobCache, workVars, rec, cycle>>

NodeControllersTypeOK ==
    /\ jobCache \in [Names -> NodeScanJob \cup {NoJob}]
    /\ configQueue \in BOOLEAN
    /\ nodeQueue \subseteq Nodes
    /\ jobQueue \subseteq Names
    /\ rec \in [Names -> Reconciliation \cup {NoRec}]
    /\ cycle \in Cycle \cup {NoRec}

NodeControllersInit ==
    /\ jobCache = jobs
    /\ configQueue = FALSE
    /\ nodeQueue = {}
    /\ jobQueue = {}
    /\ rec = [n \in Names |-> NoRec]
    /\ cycle = NoRec

-----------------------------------------------------------------------------
(* Watch events.                                                           *)

\* The early returns of NodeScanJobReconciler do not apply to j.
Pending(j) == j # NoJob /\ IsPending(j.status)

Requeued(n, j) == IF Pending(j) THEN jobQueue \cup {n} ELSE jobQueue \ {n}

SyncJob(n) ==
    /\ jobCache[n] # jobs[n]
    /\ jobCache' = [jobCache EXCEPT ![n] = jobs[n]]
    /\ jobQueue' = Requeued(n, jobs[n])
    /\ UNCHANGED <<configVars, nodes, jobVars, sboms, queueVars, task,
                   historyVars, faults, changes, configQueue, nodeQueue, rec,
                   cycle>>

-----------------------------------------------------------------------------
(* Creation of a NodeScanJob.                                              *)

\* ValidateNodeScanJobAgainstConfig: there is a configuration, enabled or
\* not, and it selects the node, which exists.
Matches(k) ==
    /\ config # NoConfig
    /\ k \in nodes
    /\ k \in config.selects

\* The API server stores job u.
Create(u) ==
    /\ u \notin created
    /\ jobs[NameOf[u]] = NoJob
    /\ created' = created \cup {u}
    /\ jobs' = [jobs EXCEPT ![NameOf[u]] =
         [uid |-> u, stamp |-> Cardinality(created) + 1, owner |-> 0,
          status |-> "Unset"]]

-----------------------------------------------------------------------------
(* NodeScanRunner.                                                         *)

\* UIDs the API server may still give to jobs the runner creates for k.
Unborn(k) ==
    {u \in UIDs \ created : NodeOf[u] = k /\ NameOf[u] \notin GivenNames}

\* The cached jobs of node k, and getLastNodeScanJob.
CachedJobs(k) ==
    {n \in Names : jobCache[n] # NoJob /\ NodeOfJob(jobCache[n]) = k}

IsLast(n, k) ==
    /\ n \in CachedJobs(k)
    /\ \A m \in CachedJobs(k) : jobCache[m].stamp <= jobCache[n].stamp

\* A job the runner knows of is still running on the node.
Running(k) ==
    \E n \in Names : IsLast(n, k) /\ ~JobFinished(jobCache[n].status)

\* scanNodes reads the configuration and the nodes it selects.  A cycle that
\* finds a running job on every node and no request changes nothing, and is
\* left out.
StartCycle ==
    /\ cycle = NoRec
    /\ config # NoConfig
    /\ config.enabled
    /\ config.rescan \/ \E k \in nodes \cap config.selects : ~Running(k)
    /\ \A k \in nodes \cap config.selects : Unborn(k) # {}
    /\ cycle' = [todo |-> nodes \cap config.selects,
                 rescan |-> config.rescan]
    /\ UNCHANGED <<configVars, nodes, jobVars, sboms, queueVars, task,
                   historyVars, faults, changes, jobCache, workVars, rec>>

Checked(k) == cycle' = [cycle EXCEPT !.todo = @ \ {k}]

\* checkNodeForScan creates a job: one was requested, there is none yet, or
\* the interval has elapsed since the last one completed.
ScanNode(k) ==
    /\ cycle # NoRec
    /\ k \in cycle.todo
    /\ ~Running(k)
    /\ Matches(k)
    /\ \E u \in Unborn(k) : Create(u)
    /\ Checked(k)
    /\ UNCHANGED <<configVars, nodes, sboms, queueVars, task, historyVars,
                   faults, changes, jobCache, workVars, rec>>

\* checkNodeForScan creates none: a job is running, the last one is too
\* recent, the webhook refuses, or the create fails.  Errors are logged.
PassNode(k) ==
    /\ cycle # NoRec
    /\ k \in cycle.todo
    /\ \/ Running(k) /\ UNCHANGED faults
       \/ ~cycle.rescan /\ CachedJobs(k) # {} /\ UNCHANGED faults
       \/ ~Matches(k) /\ UNCHANGED faults
       \/ Fault
    /\ Checked(k)
    /\ UNCHANGED <<configVars, nodes, jobVars, sboms, queueVars, task,
                   historyVars, changes, jobCache, workVars, rec>>

\* removeRescanRequestedAnnotation, when rescanRequested; it may fail.
EndCycle ==
    /\ cycle # NoRec
    /\ cycle.todo = {}
    /\ cycle' = NoRec
    /\ IF cycle.rescan /\ config # NoConfig /\ config.rescan
       THEN \/ /\ config' = [config EXCEPT !.rescan = FALSE]
               /\ configQueue' = ~config.enabled
               /\ UNCHANGED faults
            \/ Fault /\ UNCHANGED <<config, configQueue>>
       ELSE UNCHANGED <<config, configQueue, faults>>
    /\ UNCHANGED <<configs, nodes, jobVars, sboms, queueVars, task,
                   historyVars, changes, jobCache, nodeQueue, jobQueue, rec>>

-----------------------------------------------------------------------------
(* NodeScanJobReconciler.                                                  *)

\* Reconcile takes n from the queue.
Begin(n) ==
    /\ n \in jobQueue
    /\ rec[n] = NoRec
    /\ jobQueue' = jobQueue \ {n}

Hold(n, j, s, retry) ==
    rec' = [rec EXCEPT ![n] = [copy |-> j, status |-> s, retry |-> retry]]

\* There is no configuration, or validateNodeAgainstConfig says no.
RejectJob(n) ==
    /\ Begin(n)
    /\ ~Matches(NodeOfJob(jobCache[n]))
    /\ Hold(n, jobCache[n], MarkFailed, FALSE)
    /\ UNCHANGED <<configVars, nodes, jobVars, sboms, queueVars, task,
                   historyVars, faults, changes, jobCache, configQueue,
                   nodeQueue, cycle>>

\* cleanupOldNodeScanJobs for the node of job j: the listed jobs beyond the
\* limit.  It deletes oldest first and stops at a job that is already gone.
Expired(j) ==
    {n \in CachedJobs(NodeOfJob(j)) :
        Cardinality({m \in CachedJobs(NodeOfJob(j)) :
                        jobCache[m].stamp > jobCache[n].stamp}) >= HistoryLimit}

CleanedUp(j) ==
    {n \in Expired(j) :
        \A m \in Expired(j) : jobCache[m].stamp <= jobCache[n].stamp
                                 => jobs[m] # NoJob}

JobsAfterCleanup(j) ==
    [n \in Names |-> IF n \in CleanedUp(j) THEN NoJob ELSE jobs[n]]

CleanupFails(j) == CleanedUp(j) # Expired(j)

\* The configuration is copied into an annotation.  The merge patch carries no
\* resource version, so it applies to whatever job has the name now, and the
\* answer replaces the held copy.
SnapshotConfiguration(n) ==
    LET live == JobsAfterCleanup(jobCache[n])[n]
        j    == [live EXCEPT !.owner = config.uid]
    IN  /\ Begin(n)
        /\ Matches(NodeOfJob(jobCache[n]))
        /\ jobCache[n].owner = 0
        /\ ~CleanupFails(jobCache[n])
        /\ live # NoJob
        /\ jobs' = [JobsAfterCleanup(jobCache[n]) EXCEPT ![n] = j]
        /\ Hold(n, j, IF j.status = "Unset" THEN InitializeConditions
                                            ELSE j.status, FALSE)
        /\ UNCHANGED <<configVars, nodes, created, sboms, queueVars, task,
                       historyVars, faults, changes, jobCache, configQueue,
                       nodeQueue, cycle>>

\* Mutant: a job is published before it carries the snapshot.
ScheduleJobEarly(n) ==
    LET j == jobCache[n]
    IN  /\ Begin(n)
        /\ Matches(NodeOfJob(j))
        /\ ~CleanupFails(j)
        /\ jobs' = JobsAfterCleanup(j)
        /\ PublishNode(Message("generate", j.uid, j.uid))
        /\ \/ Hold(n, j, MarkScheduled, FALSE) /\ UNCHANGED faults
           \/ Hold(n, j, InitializeConditions, TRUE) /\ Fault
        /\ UNCHANGED <<configVars, nodes, created, sboms, task, historyVars,
                       changes, jobCache, configQueue, nodeQueue, cycle>>

\* The GenerateNodeSBOM message is published and the copy marked as scheduled,
\* unless the answer of the stream is lost.
ScheduleJob(n) ==
    LET j == jobCache[n]
    IN  /\ Begin(n)
        /\ Matches(NodeOfJob(j))
        /\ j.owner # 0
        /\ ~CleanupFails(j)
        /\ jobs' = JobsAfterCleanup(j)
        /\ PublishNode(Message("generate", j.uid, j.uid))
        /\ \/ Hold(n, j, MarkScheduled, FALSE) /\ UNCHANGED faults
           \/ Hold(n, j, InitializeConditions, TRUE) /\ Fault
        /\ UNCHANGED <<configVars, nodes, created, sboms, task, historyVars,
                       changes, jobCache, configQueue, nodeQueue, cycle>>

\* reconcileNodeScanJob fails: at the cleanup, at the patch of a job that is
\* gone, or at a call that returns an error.  The status is still updated.
FailReconcile(n) ==
    LET j == jobCache[n]
    IN  /\ Begin(n)
        /\ Matches(NodeOfJob(j))
        /\ \/ /\ CleanupFails(j) \/ (j.owner = 0 /\ JobsAfterCleanup(j)[n] = NoJob)
              /\ jobs' = JobsAfterCleanup(j)
              /\ UNCHANGED faults
           \/ Fault /\ UNCHANGED jobs
        /\ Hold(n, j, InitializeConditions, TRUE)
        /\ UNCHANGED <<configVars, nodes, created, sboms, queueVars, task,
                       historyVars, changes, jobCache, configQueue,
                       nodeQueue, cycle>>

\* Mutant: the update does not carry the resource version.
StatusUpdateUnconditional(n) == jobs[n] # NoJob

\* The status update succeeds if the object is still the version held.
StatusUpdateAccepted(n) == jobs[n] # NoJob /\ jobs[n] = rec[n].copy

UpdateJobStatus(n) ==
    /\ rec[n] # NoRec
    /\ StatusUpdateAccepted(n)
    /\ WriteStatus(n, rec[n].status)
    /\ RecordFinished(jobs[n].uid, rec[n].status)
    /\ rec' = [rec EXCEPT ![n] = NoRec]
    /\ jobQueue' = IF rec[n].retry THEN Requeued(n, jobCache[n]) ELSE jobQueue
    /\ UNCHANGED <<configVars, nodes, created, sboms, queueVars, task, scanned,
                   disturbed, faults, changes, jobCache, configQueue,
                   nodeQueue, cycle>>

\* NotFound, a conflict or another error: the name is queued again.
RetryJob(n) ==
    /\ rec[n] # NoRec
    /\ IF StatusUpdateAccepted(n) THEN Fault ELSE UNCHANGED faults
    /\ rec' = [rec EXCEPT ![n] = NoRec]
    /\ jobQueue' = Requeued(n, jobCache[n])
    /\ UNCHANGED <<configVars, nodes, jobVars, sboms, queueVars, task,
                   historyVars, changes, jobCache, configQueue, nodeQueue,
                   cycle>>

ReconcileJob(n) ==
    \/ RejectJob(n)
    \/ SnapshotConfiguration(n)
    \/ ScheduleJob(n)
    \/ FailReconcile(n)
    \/ UpdateJobStatus(n)
    \/ RetryJob(n)

-----------------------------------------------------------------------------
(* The two reconcilers that clean up.                                      *)

Deleted(ns) == jobs' = [n \in Names |-> IF n \in ns THEN NoJob ELSE jobs[n]]

\* NodeScanConfigurationReconciler: without an enabled configuration, every
\* NodeScanJob is deleted and then every NodeSBOM; an error in between is
\* retried.
ReconcileConfig ==
    /\ configQueue
    /\ Deleted(Names)
    /\ \/ /\ sboms' = [k \in Nodes |-> 0]
          /\ configQueue' = FALSE
          /\ UNCHANGED faults
       \/ Fault /\ UNCHANGED <<sboms, configQueue>>
    /\ UNCHANGED <<configVars, nodes, created, queueVars, task, historyVars,
                   changes, jobCache, nodeQueue, jobQueue, rec, cycle>>

\* NodeScanReconciler: the jobs and the NodeSBOM of a deleted Node, as far as
\* the caches list them, are deleted by name.
ReconcileNode(k) ==
    /\ k \in nodeQueue
    /\ Deleted(CachedJobs(k))
    /\ \/ /\ sboms' \in {sboms, [sboms EXCEPT ![k] = 0]}
          /\ nodeQueue' = nodeQueue \ {k}
          /\ UNCHANGED faults
       \/ Fault /\ UNCHANGED <<sboms, nodeQueue>>
    /\ UNCHANGED <<configVars, nodes, created, queueVars, task, historyVars,
                   changes, jobCache, configQueue, jobQueue, rec, cycle>>

\* The process restarts: what was under way is lost, the caches are filled
\* afresh and what exists is queued.  A deletion that happened meanwhile
\* leaves no event.
RestartControllers ==
    /\ Fault
    /\ jobCache' = jobs
    /\ configQueue' = (config # NoConfig /\ ~config.enabled)
    /\ nodeQueue' = {}
    /\ jobQueue' = {n \in Names : Pending(jobs[n])}
    /\ rec' = [n \in Names |-> NoRec]
    /\ cycle' = NoRec
    /\ UNCHANGED <<configVars, nodes, jobVars, sboms, queueVars, task,
                   historyVars, changes>>
=============================================================================
