------------------------------ MODULE NodeScan ------------------------------
(***************************************************************************)
(* Node scanning, from the NodeScanConfiguration to the report of a node:  *)
(* the controllers, the worker of each node, the queue between them and    *)
(* what users, the garbage collector and the cluster do meanwhile.         *)
(***************************************************************************)
EXTENDS NodeControllers, NodeWorker

vars == <<config, configs, nodes, jobs, created, sboms, published, stream,
          task, counted, scanned, disturbed, faults, changes, jobCache,
          configQueue, nodeQueue, jobQueue, rec, cycle,
          local>>

Init ==
    /\ NodeClusterInit
    /\ NodeControllersInit
    /\ NodeWorkerInit

-----------------------------------------------------------------------------
(* Users, nodes and the garbage collector.                                 *)

Act == changes > 0 /\ changes' = changes - 1

CreateConfig ==
    /\ config = NoConfig
    /\ configs < MaxConfigs
    /\ configs' = configs + 1
    /\ config' = [uid |-> configs + 1, enabled |-> TRUE, selects |-> Nodes,
                  rescan |-> FALSE]
    /\ configQueue' = FALSE
    /\ UNCHANGED <<nodes, nodeQueue, jobVars>>

\* The configuration is enabled or disabled, a node starts or stops matching
\* it, or a rescan is requested.
UpdateConfig ==
    /\ config # NoConfig
    /\ \/ config' = [config EXCEPT !.enabled = ~@]
       \/ \E k \in Nodes :
             config' = [config EXCEPT !.selects = IF k \in @ THEN @ \ {k}
                                                             ELSE @ \cup {k}]
       \/ ~config.rescan /\ config' = [config EXCEPT !.rescan = TRUE]
    /\ configQueue' = ~config'.enabled
    /\ UNCHANGED <<configs, nodes, nodeQueue, jobVars>>

DeleteConfig ==
    /\ config # NoConfig
    /\ config' = NoConfig
    /\ configQueue' = TRUE
    /\ UNCHANGED <<configs, nodes, nodeQueue, jobVars>>

\* A Node leaves the cluster, or comes back before its deletion is reconciled.
ChangeNode(k) ==
    /\ nodes' = IF k \in nodes THEN nodes \ {k} ELSE nodes \cup {k}
    /\ nodeQueue' = IF k \in nodes THEN nodeQueue \cup {k} ELSE nodeQueue \ {k}
    /\ UNCHANGED <<configVars, configQueue, jobVars>>

\* A user creates a job; ValidateCreate lets it pass.
CreateJob(u) ==
    /\ NameOf[u] \in GivenNames
    /\ Matches(NodeOf[u])
    /\ Create(u)
    /\ UNCHANGED <<configVars, configQueue, nodes, nodeQueue>>

DeleteJob(n) ==
    /\ jobs[n] # NoJob
    /\ Deleted({n})
    /\ UNCHANGED <<configVars, configQueue, nodes, nodeQueue, created>>

Users ==
    /\ \/ CreateConfig /\ UNCHANGED changes
       \/ /\ Act
          /\ \/ UpdateConfig
             \/ DeleteConfig
             \/ \E k \in Nodes : ChangeNode(k)
             \/ \E u \in UIDs : CreateJob(u)
             \/ \E n \in Names : DeleteJob(n)
    /\ UNCHANGED <<sboms, queueVars, task, historyVars, faults, jobCache,
                   jobQueue, rec, cycle, local>>

\* What a deleted configuration owned is removed, also when there is a new
\* configuration of the same name.
CollectGarbage ==
    /\ \/ \E n \in Names :
             /\ jobs[n] # NoJob
             /\ OwnerGone(jobs[n].owner)
             /\ Deleted({n})
             /\ UNCHANGED sboms
       \/ \E k \in Nodes :
             /\ OwnerGone(sboms[k])
             /\ sboms' = [sboms EXCEPT ![k] = 0]
             /\ UNCHANGED jobs
    /\ UNCHANGED <<configVars, nodes, created, queueVars, task, historyVars,
                   faults, changes, controllerVars, local>>

-----------------------------------------------------------------------------

Watches ==
    /\ \E n \in Names : SyncJob(n)
    /\ UNCHANGED local

Runner ==
    /\ \/ StartCycle
       \/ \E k \in Nodes : ScanNode(k) \/ PassNode(k)
       \/ EndCycle
    /\ UNCHANGED local

Reconcilers ==
    /\ \/ \E n \in Names : ReconcileJob(n)
       \/ ReconcileConfig
       \/ \E k \in Nodes : ReconcileNode(k)
    /\ UNCHANGED local

Worker ==
    /\ \/ \E k \in Nodes : Subscribe(k) \/ Mishap(k)
       \/ \E e \in Entries : AckWaitElapsed(e)
    /\ UNCHANGED <<configVars, nodes, created, changes, controllerVars>>

Next ==
    \/ Users
    \/ CollectGarbage
    \/ Watches
    \/ Runner
    \/ Reconcilers
    \/ RestartControllers /\ UNCHANGED local
    \/ Worker

Spec == Init /\ [][Next]_vars

-----------------------------------------------------------------------------
(* Properties.                                                             *)

\* Every variable has its type.
TypeOK == NodeClusterTypeOK /\ NodeControllersTypeOK /\ NodeWorkerTypeOK

\* The job exists and none of the disturbances happened to it.
Regular(u) == Live(u) /\ u \notin disturbed

\* Something will still happen to job u: it is about to be collected, the
\* controller has it to reconcile, or the stream has a message of it.
WorkLeft(u) ==
    \/ OwnerGone(jobs[NameOf[u]].owner)
    \/ IF IsPending(StatusOf(u))
       THEN \/ jobCache[NameOf[u]] # jobs[NameOf[u]]
            \/ NameOf[u] \in jobQueue
            \/ rec[NameOf[u]] # NoRec
       ELSE \E e \in Entries : InStream(e) /\ e[1].uid = u

\* A regular job that is not finished has work left.  An unfinished job keeps
\* the runner from scanning the node ever again, so none may be left behind by
\* a crash, a lost answer, a deduplicated publish, a stale cache, or a
\* configuration that is deleted in the middle of the scan.
NoNodeJobLeftBehind ==
    \A u \in UIDs :
        Regular(u) /\ ~JobFinished(StatusOf(u)) => WorkLeft(u)

\* A regular job is complete only when its own UID has labelled a report.
CompleteMeansReported ==
    \A u \in UIDs :
        Regular(u) /\ StatusOf(u) = "Complete" => u \in scanned

\* The completion metric of a regular job is 1 when it is finished and 0
\* before, although the reconciler, the scan handler and the failure handler
\* may each finish it.
NodeJobCountedExactly ==
    \A u \in UIDs :
        Regular(u) => counted[u] = IF JobFinished(StatusOf(u)) THEN 1 ELSE 0

\* When a message of a job has been published, the job carries the snapshot
\* the handler reads, and is owned by the configuration in it.
OwnedBeforeMessage ==
    \A m \in NodeMessages :
        published[m] > 0 /\ Live(m.uid) => jobs[NameOf[m.uid]].owner # 0
=============================================================================
