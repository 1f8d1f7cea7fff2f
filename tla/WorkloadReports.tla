--------------------------- MODULE WorkloadReports ---------------------------
(***************************************************************************)
(* The WorkloadScanReports the workload scan controller keeps for the pods *)
(* of one namespace (workloadscan_controller_report.go), and the status of *)
(* Images, which names the reports that refer to the Image                 *)
(* (image_workloadscan_controller.go).  Both controllers read caches.  The *)
(* first watches pods and never the reports it writes; the second watches  *)
(* reports and Images.                                                     *)
(***************************************************************************)
EXTENDS Naturals, FiniteSets

CONSTANTS
    Pods,
    Workloads,       \* owners of pods; a report is named after one
    Owners,          \* Owners[p]: what resolveWorkloadOwner(p) may return
    Images,
    NoPod, NoReport, NoImage, NoPlan,
    MaxPodChanges,   \* bound: changes of pods and of the configuration
    MaxImageChanges, \* bound: Images created and deleted
    MaxFaults        \* bound: writes that fail, and restarts

\* stale: reports to delete; put: reports to create or patch.
Plan == [stale : SUBSET Workloads, put : UNION {[W -> SUBSET Images] : W \in SUBSET Workloads}]

ASSUME ReportsAssumption ==
    /\ Owners \in [Pods -> SUBSET Workloads]
    /\ {MaxPodChanges, MaxImageChanges, MaxFaults} \subseteq Nat
    /\ \A is \in SUBSET Images : is # NoReport
    /\ \A q \in Plan : q # NoPlan

VARIABLES
    pods,         \* pods[p]: images of the containers of p, or NoPod
    enabled,      \* the configuration is there, enabled, and selects the namespace
    queued,       \* the namespace has a reconciliation request
    plan,         \* the reconciliation under way: reports to delete, to put
    reports,      \* reports[w]: images of the containers it lists, or NoReport
    reportCache,  \* the controller process's copy of reports
    hasty,        \* history: a write was left out for an outdated copy
    status,       \* status[i]: reports the status of Image i names, or NoImage
    imageCache,   \* the controller process's copy of status
    imageEvents,  \* Images written to since the cache took them in
    imageQueue,   \* Images with a reconciliation request
    podChanges, imageChanges, faults      \* what may still happen

reportVars == <<queued, plan, reports, hasty>>
imageVars == <<status, imageCache, imageEvents, imageQueue>>
vars == <<pods, enabled, reportVars, reportCache, imageVars, podChanges, imageChanges, faults>>

TypeOK ==
    /\ pods \in [Pods -> (SUBSET Images) \cup {NoPod}]
    /\ enabled \in BOOLEAN /\ queued \in BOOLEAN /\ hasty \in BOOLEAN
    /\ reports \in [Workloads -> (SUBSET Images) \cup {NoReport}]
    /\ reportCache \in [Workloads -> (SUBSET Images) \cup {NoReport}]
    /\ status \in [Images -> (SUBSET Workloads) \cup {NoImage}]
    /\ imageCache \in [Images -> (SUBSET Workloads) \cup {NoImage}]
    /\ imageEvents \subseteq Images /\ imageQueue \subseteq Images
    /\ plan \in Plan \cup {NoPlan}
    /\ {podChanges, imageChanges, faults} \subseteq Nat

Init ==
    /\ pods = [p \in Pods |-> NoPod]
    /\ enabled \in BOOLEAN /\ queued = FALSE /\ hasty = FALSE
    /\ plan = NoPlan
    /\ reports = [w \in Workloads |-> NoReport] /\ reportCache = reports
    /\ status = [i \in Images |-> NoImage] /\ imageCache = status
    /\ imageEvents = {} /\ imageQueue = {}
    /\ podChanges = MaxPodChanges /\ imageChanges = MaxImageChanges /\ faults = MaxFaults

-----------------------------------------------------------------------------
\* Pods and the configuration.

podImagesChanged(p, is) ==
    /\ podChanges > 0 /\ is # pods[p]
    /\ pods' = [pods EXCEPT ![p] = is]
    /\ queued' = TRUE
    /\ podChanges' = podChanges - 1
    /\ UNCHANGED <<enabled, plan, reports, hasty, reportCache, imageVars, imageChanges, faults>>

ConfigChanged ==
    /\ podChanges > 0
    /\ enabled' = ~enabled
    /\ queued' = TRUE
    /\ podChanges' = podChanges - 1
    /\ UNCHANGED <<pods, plan, reports, hasty, reportCache, imageVars, imageChanges, faults>>

-----------------------------------------------------------------------------
\* reconcileWorkloadScanReports: the plan is made from the caches, then each
\* report is deleted or put in turn; the first error ends the reconciliation.

Listed == IF enabled THEN {p \in Pods : pods[p] # NoPod} ELSE {}

\* One pod stands for all pods with the same owner: the first of the list.
buildPodsByReport(owner) ==
    LET names == {owner[p] : p \in Listed}
    IN  {f \in [names -> Listed] : \A w \in names : owner[f[w]] = w}

reconcileWorkloadScanReports(owner, podsByReport) ==
    /\ queued /\ plan = NoPlan
    /\ queued' = FALSE
    /\ plan' = [stale |-> {w \in Workloads \ DOMAIN podsByReport : reportCache[w] # NoReport},
                put |-> [w \in DOMAIN podsByReport |-> pods[podsByReport[w]]]]
    /\ hasty' = (hasty \/ \E w \in Workloads \ DOMAIN podsByReport :
                              reportCache[w] = NoReport /\ reports[w] # NoReport)
    /\ UNCHANGED <<pods, enabled, reports, reportCache, imageVars, podChanges, imageChanges, faults>>

\* NotFound is ignored.
DeleteStale(w) ==
    /\ plan # NoPlan /\ w \in plan.stale
    /\ reports' = [reports EXCEPT ![w] = NoReport]
    /\ plan' = [plan EXCEPT !.stale = @ \ {w}]
    /\ UNCHANGED <<pods, enabled, queued, hasty, reportCache, imageVars, podChanges, imageChanges, faults>>

\* What is left of the plan once w is put.
Without(w) == [plan EXCEPT !.put = [v \in DOMAIN plan.put \ {w} |-> plan.put[v]]]

\* Mutant: a report that exists is left as it is.
createOrPatchWorkloadScanReportOnce(w) ==
    /\ plan # NoPlan /\ plan.stale = {} /\ w \in DOMAIN plan.put
    /\ reportCache[w] = NoReport <=> reports[w] = NoReport
    /\ reports' = IF reports[w] = NoReport THEN [reports EXCEPT ![w] = plan.put[w]] ELSE reports
    /\ plan' = Without(w)
    /\ UNCHANGED <<pods, enabled, queued, hasty, reportCache, imageVars, podChanges, imageChanges, faults>>

\* CreateOrPatch: the cached copy decides between creating (an error if there
\* is one), patching (an error if there is none) and doing nothing.
createOrPatchWorkloadScanReport(w) ==
    /\ plan # NoPlan /\ plan.stale = {} /\ w \in DOMAIN plan.put
    /\ \/ /\ reportCache[w] = plan.put[w]
          /\ hasty' = (hasty \/ reports[w] # reportCache[w])
          /\ UNCHANGED reports
       \/ /\ reportCache[w] # plan.put[w]
          /\ reportCache[w] = NoReport <=> reports[w] = NoReport
          /\ reports' = [reports EXCEPT ![w] = plan.put[w]]
          /\ UNCHANGED hasty
    /\ plan' = Without(w)
    /\ UNCHANGED <<pods, enabled, queued, reportCache, imageVars, podChanges, imageChanges, faults>>

Reconciled ==
    /\ plan # NoPlan /\ plan.stale = {} /\ DOMAIN plan.put = {}
    /\ plan' = NoPlan
    /\ UNCHANGED <<pods, enabled, queued, reports, hasty, reportCache, imageVars,
                   podChanges, imageChanges, faults>>

\* A write is refused because the cached copy is outdated, and the namespace is
\* queued again.
Refused ==
    /\ plan # NoPlan /\ plan.stale = {}
    /\ \E w \in DOMAIN plan.put : (reportCache[w] = NoReport) # (reports[w] = NoReport)
    /\ plan' = NoPlan /\ queued' = TRUE
    /\ UNCHANGED <<pods, enabled, reports, hasty, reportCache, imageVars,
                   podChanges, imageChanges, faults>>

\* A write fails, and the namespace is queued again.
Fails ==
    /\ plan # NoPlan /\ faults > 0
    /\ plan' = NoPlan /\ queued' = TRUE
    /\ faults' = faults - 1
    /\ UNCHANGED <<pods, enabled, reports, hasty, reportCache, imageVars, podChanges, imageChanges>>

-----------------------------------------------------------------------------
\* Images.  One that is deleted and created again is another object: it has its
\* event even if its status is the cached one.

WriteImage(i, s) ==
    /\ status' = [status EXCEPT ![i] = s]
    /\ imageEvents' = imageEvents \cup {i}

CreateImage(i) ==
    /\ imageChanges > 0 /\ status[i] = NoImage
    /\ WriteImage(i, {})
    /\ imageChanges' = imageChanges - 1
    /\ UNCHANGED <<pods, enabled, reportVars, reportCache, imageCache, imageQueue, podChanges, faults>>

DeleteImage(i) ==
    /\ imageChanges > 0 /\ status[i] # NoImage
    /\ WriteImage(i, NoImage)
    /\ imageChanges' = imageChanges - 1
    /\ UNCHANGED <<pods, enabled, reportVars, reportCache, imageCache, imageQueue, podChanges, faults>>

Refers(r, i) == r # NoReport /\ i \in r

\* Mutant: only the new report is mapped to Images.
mapWorkloadScanReportToImagesNew(w) ==
    /\ reportCache[w] # reports[w]
    /\ reportCache' = [reportCache EXCEPT ![w] = reports[w]]
    /\ imageQueue' = imageQueue \cup {i \in Images : imageCache[i] # NoImage /\ Refers(reports[w], i)}
    /\ UNCHANGED <<pods, enabled, reportVars, status, imageCache, imageEvents, podChanges,
                   imageChanges, faults>>

\* The cache takes in a report, and its event queues the cached Images that the
\* old report or the new one refers to.
mapWorkloadScanReportToImages(w) ==
    /\ reportCache[w] # reports[w]
    /\ reportCache' = [reportCache EXCEPT ![w] = reports[w]]
    /\ imageQueue' = imageQueue \cup
           {i \in Images : /\ imageCache[i] # NoImage
                           /\ Refers(reportCache[w], i) \/ Refers(reports[w], i)}
    /\ UNCHANGED <<pods, enabled, reportVars, status, imageCache, imageEvents, podChanges,
                   imageChanges, faults>>

\* The cache takes in an Image, and its event queues it.
workloadScanPredicate(i) ==
    /\ i \in imageEvents
    /\ imageEvents' = imageEvents \ {i}
    /\ imageCache' = [imageCache EXCEPT ![i] = status[i]]
    /\ imageQueue' = imageQueue \cup {i}
    /\ UNCHANGED <<pods, enabled, reportVars, reportCache, status, podChanges, imageChanges, faults>>

findWorkloadScanReportsByImage(i) == {w \in Workloads : Refers(reportCache[w], i)}

\* ImageWorkloadScanReconciler: nothing to do, or a patch; one of an Image that
\* is gone fails, and the Image stays in the queue.
ReconcileImage(i) ==
    LET newReports == findWorkloadScanReportsByImage(i) IN
    /\ i \in imageQueue
    /\ imageQueue' = imageQueue \ {i}
    /\ \/ /\ imageCache[i] \in {NoImage, newReports}
          /\ UNCHANGED <<status, imageEvents>>
       \/ /\ imageCache[i] \notin {NoImage, newReports}
          /\ status[i] # NoImage
          /\ WriteImage(i, newReports)
    /\ UNCHANGED <<pods, enabled, reportVars, reportCache, imageCache, podChanges, imageChanges, faults>>

\* A new controller process lists everything, and everything is an event.
Restart ==
    /\ faults > 0
    /\ faults' = faults - 1
    /\ queued' = TRUE /\ plan' = NoPlan
    /\ reportCache' = reports
    /\ imageCache' = status /\ imageEvents' = {}
    /\ imageQueue' = {i \in Images : status[i] # NoImage}
    /\ UNCHANGED <<pods, enabled, reports, hasty, status, podChanges, imageChanges>>

-----------------------------------------------------------------------------
Next ==
    \/ \E p \in Pods, is \in (SUBSET Images) \cup {NoPod} : podImagesChanged(p, is)
    \/ ConfigChanged
    \/ \E owner \in [Pods -> Workloads] :
          /\ \A p \in Pods : owner[p] \in Owners[p]
          /\ \E f \in buildPodsByReport(owner) : reconcileWorkloadScanReports(owner, f)
    \/ \E w \in Workloads : DeleteStale(w) \/ createOrPatchWorkloadScanReport(w)
    \/ Reconciled \/ Refused \/ Fails
    \/ \E i \in Images : CreateImage(i) \/ DeleteImage(i)
    \/ \E w \in Workloads : mapWorkloadScanReportToImages(w)
    \/ \E i \in Images : workloadScanPredicate(i) \/ ReconcileImage(i)
    \/ Restart

Spec == Init /\ [][Next]_vars

-----------------------------------------------------------------------------
\* Once the namespace is reconciled, every running pod has the report of its
\* owner, the report lists the containers of a pod with that owner, and no
\* other report is left: whatever changed during the reconciliations and
\* whichever writes failed.  Writes left out for an outdated copy (hasty) are
\* the exception the code has.
ReportsMirror ==
    (~queued /\ plan = NoPlan /\ ~hasty) =>
        /\ \A p \in Listed : \E w \in Owners[p] : reports[w] # NoReport
        /\ \A w \in Workloads : reports[w] # NoReport =>
               \E p \in Listed : w \in Owners[p] /\ reports[w] = pods[p]

\* Once its events are handled, the status of an Image names exactly the reports
\* that refer to it, with no exception: a report written before its Image is
\* cached, an Image created before its report, and a status read from an
\* outdated copy all lead to one more event.
StatusMirrors ==
    (imageQueue = {} /\ imageEvents = {} /\ reportCache = reports) =>
        \A i \in Images : status[i] # NoImage =>
            status[i] = {w \in Workloads : Refers(reports[w], i)}
=============================================================================
