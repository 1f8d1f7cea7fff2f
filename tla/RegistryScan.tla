---------------------------- MODULE RegistryScan ----------------------------
(***************************************************************************)
(* A registry scan from the creation of a ScanJob to its last report: the  *)
(* controllers, the workers, the queue between them and what users, the    *)
(* remote registry and the garbage collector do meanwhile.                 *)
(***************************************************************************)
EXTENDS ScanJobController, ScanWorker, ReportController

CONSTANTS
    InitialTags,   \* images in the remote registry at the start
    MaxFaults,     \* bound: errors, crashes and timeouts
    MaxChanges     \* bound: acts of users

ASSUME ScanAssumption ==
    /\ InitialTags \subseteq Images
    /\ MaxFaults \in Nat
    /\ MaxChanges \in Nat

vars == <<jobs, clock, images, sboms, reports, reportEvents, registry, tags,
          published, stream, task, counted, catalog, labelled, disturbed, faults,
          changes, jobCache, jobQueue, rec, admitted, created, local,
          reportCache, reportQueue>>

reportVars == <<reportCache, reportQueue>>

Init ==
    /\ ClusterInit(InitialTags, MaxFaults, MaxChanges)
    /\ ControllerInit
    /\ WorkerInit
    /\ ReportInit

-----------------------------------------------------------------------------
(* The environment.                                                        *)

\* An image is pushed to or removed from the remote registry.
ChangeTag(i) ==
    /\ changes > 0
    /\ changes' = changes - 1
    /\ tags' = IF i \in tags THEN tags \ {i} ELSE tags \cup {i}
    /\ UNCHANGED <<jobVars, objectVars, registry, queueVars, task, counted,
                   historyVars, faults>>

\* A user deletes the Registry.
DeleteRegistry ==
    /\ changes > 0
    /\ registry
    /\ changes' = changes - 1
    /\ registry' = FALSE
    /\ UNCHANGED <<jobVars, objectVars, tags, queueVars, task, counted,
                   historyVars, faults>>

\* The garbage collector removes what the deleted Registry owned: jobs (the
\* owner reference is set with the snapshot) and images.
CollectScanJob(n) ==
    /\ ~registry
    /\ jobs[n] # NoJob
    /\ jobs[n].snapshot
    /\ jobs' = [jobs EXCEPT ![n] = NoJob]
    /\ UNCHANGED <<clock, objectVars, userVars, queueVars, task, counted,
                   historyVars, faults>>

CollectImage(i) ==
    /\ ~registry
    /\ i \in images
    /\ images' = images \ {i}
    /\ sboms' = [sboms EXCEPT ![i] = IF @ = "none" THEN @ ELSE "orphan"]
    /\ UNCHANGED <<jobVars, reports, reportEvents, userVars, queueVars, task,
                   counted, historyVars, faults>>

\* ... an SBOM whose Image is gone, and a report whose SBOM is gone.
CollectSBOM(i) ==
    /\ sboms[i] = "orphan"
    /\ sboms' = [sboms EXCEPT ![i] = "none"]
    /\ reports' = [reports EXCEPT ![i].owner = IF @ = "none" THEN @
                                                             ELSE "orphan"]
    /\ UNCHANGED <<jobVars, images, reportEvents, userVars, queueVars, task,
                   counted, historyVars, faults>>

CollectReport(i) ==
    /\ reports[i].owner = "orphan"
    /\ reports' = [reports EXCEPT ![i] = NoReport]
    /\ reportEvents' = reportEvents \cup {i}
    /\ Disturb({reports[i].uid})
    /\ UNCHANGED <<jobVars, images, sboms, userVars, queueVars, task, counted,
                   catalog, labelled, faults>>

\* The controller process restarts: reconciliations in progress are lost, the
\* caches are filled afresh and everything is queued.
RestartController ==
    /\ Fault
    /\ jobCache' = jobs
    /\ jobQueue' = {n \in Names : jobs[n] # NoJob}
    /\ rec' = [n \in Names |-> NoRec]
    /\ reportCache' = [i \in Images |-> reports[i].uid]
    /\ reportQueue' = {i \in Images : reports[i].uid # NoUID}
    /\ reportEvents' = {}
    /\ UNCHANGED <<jobVars, images, sboms, reports, userVars, queueVars, task,
                   counted, historyVars, admissionVars, local>>

-----------------------------------------------------------------------------

Users ==
    /\ \/ \E n \in Names, t \in Targets : ValidateCreate(n, t)
       \/ \E u \in UIDs : CreateScanJob(u)
       \/ \E n \in Names : DeleteScanJob(n)
    /\ UNCHANGED <<local, reportVars>>

Environment ==
    /\ \/ \E i \in Images : ChangeTag(i)
       \/ DeleteRegistry
       \/ \E n \in Names : CollectScanJob(n)
       \/ \E i \in Images : CollectImage(i) \/ CollectSBOM(i) \/ CollectReport(i)
    /\ UNCHANGED <<controllerVars, admissionVars, local, reportVars>>

WatchScanJob(n) == SyncScanJob(n) /\ UNCHANGED <<local, reportVars>>

JobController(n) == Reconcile(n) /\ UNCHANGED <<local, reportVars>>

WatchReport(i) ==
    SyncReport(i) /\ UNCHANGED <<controllerVars, admissionVars, local>>

CompletionController(i) ==
    ReconcileReport(i) /\ UNCHANGED <<controllerVars, admissionVars, local>>

Consume(w) ==
    /\ \/ \E e \in Entries : Receive(w, e)
       \/ Handle(w)
       \/ RetryLater(w)
       \/ GiveUp(w)
       \/ Acknowledge(w)
    /\ UNCHANGED <<controllerVars, admissionVars, reportVars>>

Redelivery(e) ==
    /\ AckWaitElapsed(e)
    /\ UNCHANGED <<controllerVars, admissionVars, reportVars>>

Failures(w) ==
    /\ Crash(w) \/ HandlerError(w) \/ GiveUpSilently(w)
    /\ UNCHANGED <<controllerVars, admissionVars, reportVars>>

Next ==
    \/ Users
    \/ Environment
    \/ RestartController
    \/ \E n \in Names : WatchScanJob(n) \/ JobController(n)
    \/ \E i \in Images : WatchReport(i) \/ CompletionController(i)
    \/ \E w \in Workers : Consume(w) \/ Failures(w)
    \/ \E e \in Entries : Redelivery(e)

Spec == Init /\ [][Next]_vars

\* Watches deliver, controllers work off their queues, workers consume, and
\* AckWait elapses for a message nobody handles.  Nothing is assumed of users,
\* of the garbage collector or of faults.
Fairness ==
    /\ \A n \in Names : WF_vars(WatchScanJob(n)) /\ WF_vars(JobController(n))
    /\ \A i \in Images :
          WF_vars(WatchReport(i)) /\ WF_vars(CompletionController(i))
    /\ \A w \in Workers : WF_vars(Consume(w))
    /\ \A e \in Entries :
          WF_vars(Redelivery(e) /\ \A w \in Workers : ~HeldBy(w, e))

FairSpec == Spec /\ Fairness

-----------------------------------------------------------------------------
(* Properties.                                                             *)

\* Every variable has its type.
TypeOK == ClusterTypeOK /\ ControllerTypeOK /\ WorkerTypeOK /\ ReportTypeOK

\* A job that has left the pending state never returns to it, and one that
\* has left the scheduled state is never scheduled again: the controller may
\* publish twice and hold an old copy while workers write the status, but the
\* resource version keeps its late update out.
NeverRescheduled ==
    [][\A u \in UIDs :
          Live(u) /\ ~IsPending(StatusOf(u)) /\ Live(u)'
             => /\ ~IsPending(StatusOf(u)')
                /\ IsScheduled(StatusOf(u)') => IsScheduled(StatusOf(u))]_vars

\* Whenever a message of a job has been published, and however often it is
\* redelivered, the job carries the Registry snapshot the handlers read.
SnapshotBeforeMessage ==
    \A m \in ScanMessages :
        published[m] > 0 /\ Live(m.uid) => jobs[NameOf[m.uid]].snapshot

\* The job exists and none of the disturbances happened to it.
Regular(u) == Live(u) /\ u \notin disturbed

\* A regular job is reported as completely scanned only when a report was
\* written for every image of its catalogue, whatever was redelivered, lost or
\* relabelled, and the counters of its status agree with that.
NoPrematureCompletion ==
    \A u \in UIDs :
        Regular(u) /\ StatusOf(u).reason = "AllImagesScanned"
            => /\ catalog[u] # {}
               /\ catalog[u] \subseteq labelled[u]
               /\ StatusOf(u).scannedImagesCount = Cardinality(catalog[u])
               /\ StatusOf(u).imagesCount = Cardinality(catalog[u])

\* The completion metric of a regular job is 1 when it is finished and 0
\* before, although four writers in two processes may finish it.
CountedExactly ==
    \A u \in UIDs :
        Regular(u) => counted[u] = IF JobFinished(StatusOf(u)) THEN 1 ELSE 0

\* Something will still happen to job u: the controller has it to reconcile,
\* the stream has a message of it, or a report of it is to be counted.
WorkLeft(u) ==
    IF IsPending(StatusOf(u))
    THEN \/ jobCache[NameOf[u]] # jobs[NameOf[u]]
         \/ NameOf[u] \in jobQueue
         \/ rec[NameOf[u]] # NoRec
    ELSE \/ \E e \in Entries : InStream(e) /\ e[1].uid = u
         \/ \E i \in Images : reports[i].uid = u
                                 /\ i \in reportEvents \cup reportQueue

\* A regular job that is not finished has work left: no crash, lost
\* acknowledgement, deduplicated publish or stale cache leaves it behind.
NoJobLeftBehind ==
    \A u \in UIDs :
        Regular(u) /\ ~JobFinished(StatusOf(u)) => WorkLeft(u)

\* Every job settles: it finishes, is deleted or is disturbed.  The queue, the
\* caches and the completion count never keep a job in progress by themselves.
EveryJobSettles ==
    \A u \in UIDs :
        Live(u) ~> \/ ~Live(u)
                   \/ u \in disturbed
                   \/ JobFinished(StatusOf(u))

-----------------------------------------------------------------------------
(* What the repository says and the code does not always do.               *)

\* "A finished job means this message is a redelivery: skip it, so the job is
\* not moved back to in-progress" (create_catalog.go).
FinishedIsFinal ==
    [][\A u \in UIDs : Live(u) /\ Live(u)' /\ JobFinished(StatusOf(u))
                          => JobFinished(StatusOf(u)')]_vars
=============================================================================
