-------------------------- MODULE ReportController --------------------------
(***************************************************************************)
(* VulnerabilityReportReconciler                                           *)
(* (internal/controller/vulnerabilityreport_controller.go): counts the     *)
(* reports that carry the UID of a ScanJob and completes the job when      *)
(* there are as many as images.  Reports and jobs are read from caches.    *)
(*                                                                         *)
(* A reconciliation has one effect, the status update, which fails unless  *)
(* the cached job is the current version: one step over lagging caches.    *)
(***************************************************************************)
EXTENDS Cluster

VARIABLES
    reportCache,   \* reportCache[i]: label of the cached report, or NoUID
    reportQueue    \* reports waiting to be reconciled

ReportTypeOK ==
    /\ reportCache \in [Images -> UIDs \cup {NoUID}]
    /\ reportQueue \subseteq Images

ReportInit ==
    /\ reportCache = [i \in Images |-> NoUID]
    /\ reportQueue = {}

\* A watch event for a report reaches the cache and queues its name.
SyncReport(i) ==
    /\ i \in reportEvents
    /\ reportEvents' = reportEvents \ {i}
    /\ reportCache' = [reportCache EXCEPT ![i] = reports[i].uid]
    /\ reportQueue' = reportQueue \cup {i}
    /\ UNCHANGED <<jobVars, images, sboms, reports, userVars, queueVars, task,
                   counted, historyVars, faults>>

\* The reports listed by the label of job u.
ReportsOf(u) == {i \in Images : reportCache[i] = u}

\* The job found by UID in the cache, unless it is complete.
Counting(u) ==
    /\ u # NoUID
    /\ jobCache[NameOf[u]] # NoJob
    /\ jobCache[NameOf[u]].uid = u
    /\ ~IsComplete(jobCache[NameOf[u]].status)

\* No report, no job or a complete job: nothing to do.
SkipReport(i) ==
    /\ i \in reportQueue
    /\ ~Counting(reportCache[i])
    /\ reportQueue' = reportQueue \ {i}
    /\ UNCHANGED <<jobVars, objectVars, userVars, queueVars, task, counted,
                   historyVars, faults, reportCache>>

\* Mutant: off by one.
CountedStatusEarly(s, n) ==
    LET c == [s EXCEPT !.scannedImagesCount = n]
    IN  IF IsFailed(s) THEN c
        ELSE IF n + 1 >= s.imagesCount THEN MarkComplete(c, "AllImagesScanned")
        ELSE MarkInProgress(c, "ImageScanInProgress")

\* The status after counting; a failed job keeps its conditions.
CountedStatus(s, n) ==
    LET c == [s EXCEPT !.scannedImagesCount = n]
    IN  IF IsFailed(s) THEN c
        ELSE IF n = s.imagesCount THEN MarkComplete(c, "AllImagesScanned")
        ELSE MarkInProgress(c, "ImageScanInProgress")

\* Mutant: a conflict is taken for success and the report is not queued again.
CountReportsForgets(i) ==
    LET u == reportCache[i]
        j == jobCache[NameOf[u]]
        s == CountedStatus(j.status, Cardinality(ReportsOf(u)))
    IN  /\ i \in reportQueue
        /\ Counting(u)
        /\ IF jobs[NameOf[u]] # NoJob /\ jobs[NameOf[u]].rv = j.rv
           THEN /\ WriteStatus(NameOf[u], s)
                /\ IF IsFailed(j.status) THEN UNCHANGED counted
                                         ELSE RecordScanJobFinished(u, s)
           ELSE UNCHANGED <<jobVars, counted>>
        /\ reportQueue' = reportQueue \ {i}
        /\ UNCHANGED <<objectVars, userVars, queueVars, task, historyVars,
                       faults, reportCache>>

CountReports(i) ==
    LET u == reportCache[i]
        j == jobCache[NameOf[u]]
        s == CountedStatus(j.status, Cardinality(ReportsOf(u)))
    IN  /\ i \in reportQueue
        /\ Counting(u)
        /\ jobs[NameOf[u]] # NoJob
        /\ jobs[NameOf[u]].rv = j.rv
        /\ WriteStatus(NameOf[u], s)
        /\ IF IsFailed(j.status) THEN UNCHANGED counted
                                 ELSE RecordScanJobFinished(u, s)
        /\ reportQueue' = reportQueue \ {i}
        /\ UNCHANGED <<objectVars, userVars, queueVars, task, historyVars,
                       faults, reportCache>>

\* A status update that fails (the job changed, or the call returned an error)
\* leaves the report queued, so it is a step that changes nothing.

ReconcileReport(i) == SkipReport(i) \/ CountReports(i)
=============================================================================
