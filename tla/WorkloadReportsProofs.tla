----------------------- MODULE WorkloadReportsProofs -----------------------
(***************************************************************************)
(* The reports of a namespace mirror its pods, and the status of an Image  *)
(* mirrors the reports, for any pods, workloads and Images, and any number *)
(* of changes and faults.                                                  *)
(***************************************************************************)
EXTENDS WorkloadReports, TLAPS

ToDelete == IF plan = NoPlan THEN {} ELSE plan.stale
ToPut == IF plan = NoPlan THEN {} ELSE DOMAIN plan.put

\* The report of w is to be what a listed pod of w says.
Planned(w) ==
    /\ w \notin ToDelete /\ plan.put[w] # NoReport
    /\ \E p \in Listed : w \in Owners[p] /\ plan.put[w] = pods[p]

\* A pod is listed and its report is there, or will be put and is not to be
\* deleted.
Served(p) == \E w \in Owners[p] : w \notin ToDelete /\ (w \in ToPut \/ reports[w] # NoReport)

Justified(w) ==
    \/ w \in ToDelete \cup ToPut
    \/ \E p \in Listed : w \in Owners[p] /\ reports[w] = pods[p]

\* What is left of the plan leads to the reports of the pods as they are now,
\* unless a request is queued.
PlanInv ==
    ~queued /\ ~hasty =>
        /\ \A w \in ToPut : Planned(w)
        /\ \A p \in Listed : Served(p)
        /\ \A w \in Workloads : reports[w] # NoReport => Justified(w)

\* An Image without an event is as its cached copy says, and if it has no
\* request either its status names the cached reports that refer to it.
ImageInv ==
    \A i \in Images \ imageEvents :
        /\ imageCache[i] = status[i]
        /\ i \notin imageQueue /\ status[i] # NoImage =>
               status[i] = findWorkloadScanReportsByImage(i)

-----------------------------------------------------------------------------
\* What a plan is made of.
LEMMA PlanFields ==
    ASSUME NEW q \in Plan
    PROVE  /\ q.stale \in SUBSET Workloads
           /\ DOMAIN q.put \in SUBSET Workloads
           /\ \A w \in DOMAIN q.put : q.put[w] \in SUBSET Images
           /\ q # NoPlan
BY ReportsAssumption DEF Plan

\* Making a plan: any set of reports to delete, and images for any workloads.
LEMMA MakePlan ==
    ASSUME NEW S \in SUBSET Workloads, NEW W \in SUBSET Workloads, NEW f \in [W -> SUBSET Images]
    PROVE  [stale |-> S, put |-> f] \in Plan
BY DEF Plan

\* Taking a report from what a plan deletes, or from what it puts, leaves a plan.
LEMMA ShrinkPlan ==
    ASSUME plan \in Plan, NEW w
    PROVE  /\ [plan EXCEPT !.stale = @ \ {w}] \in Plan
           /\ [plan EXCEPT !.stale = @ \ {w}].stale = plan.stale \ {w}
           /\ [plan EXCEPT !.stale = @ \ {w}].put = plan.put
           /\ Without(w) \in Plan
           /\ Without(w).stale = plan.stale
           /\ DOMAIN Without(w).put = DOMAIN plan.put \ {w}
           /\ \A v \in DOMAIN plan.put \ {w} : Without(w).put[v] = plan.put[v]
<1> DEFINE g == [v \in DOMAIN plan.put \ {w} |-> plan.put[v]]
<1>1. /\ plan = [stale |-> plan.stale, put |-> plan.put]
      /\ plan.stale \in SUBSET Workloads /\ DOMAIN plan.put \in SUBSET Workloads
      /\ plan.put \in [DOMAIN plan.put -> SUBSET Images]
  BY DEF Plan
<1>2. [plan EXCEPT !.stale = @ \ {w}] = [stale |-> plan.stale \ {w}, put |-> plan.put]
  BY <1>1
<1>3. Without(w) = [stale |-> plan.stale, put |-> g]
  BY <1>1 DEF Without
<1>4. g \in [DOMAIN plan.put \ {w} -> SUBSET Images]
  BY <1>1
<1> QED
  BY <1>1, <1>2, <1>3, <1>4, MakePlan

\* The plan a reconciliation makes has the type of plans.
LEMMA PlanOfCaches ==
    ASSUME TypeOK, NEW owner \in [Pods -> Workloads], NEW f \in buildPodsByReport(owner)
    PROVE  /\ DOMAIN f = {owner[p] : p \in Listed}
           /\ \A w \in DOMAIN f : f[w] \in Listed /\ owner[f[w]] = w
           /\ [stale |-> {w \in Workloads \ DOMAIN f : reportCache[w] # NoReport},
               put |-> [w \in DOMAIN f |-> pods[f[w]]]] \in Plan
<1>1. /\ DOMAIN f = {owner[p] : p \in Listed}
      /\ \A w \in DOMAIN f : f[w] \in Listed /\ owner[f[w]] = w
  BY DEF buildPodsByReport
<1>2. \A p \in Listed : p \in Pods /\ pods[p] \in SUBSET Images
  BY DEF Listed, TypeOK
<1>3. DOMAIN f \in SUBSET Workloads
  BY <1>1, <1>2
<1>4. [w \in DOMAIN f |-> pods[f[w]]] \in [DOMAIN f -> SUBSET Images]
  BY <1>1, <1>2
<1>5. {w \in Workloads \ DOMAIN f : reportCache[w] # NoReport} \in SUBSET Workloads
  OBVIOUS
<1> QED
  BY <1>1, <1>3, <1>4, <1>5, MakePlan

-----------------------------------------------------------------------------
\* Every step keeps the types.
LEMMA TypeStep == TypeOK /\ [Next]_vars => TypeOK'
<1> SUFFICES ASSUME TypeOK, [Next]_vars PROVE TypeOK'
  OBVIOUS
<1> USE DEF reportVars, imageVars
<1>1. ASSUME NEW p \in Pods, NEW is \in (SUBSET Images) \cup {NoPod}, podImagesChanged(p, is)
      PROVE  TypeOK'
  BY <1>1 DEF TypeOK, podImagesChanged
<1>2. CASE ConfigChanged
  BY <1>2 DEF TypeOK, ConfigChanged
<1>3. ASSUME NEW owner \in [Pods -> Workloads], NEW f \in buildPodsByReport(owner),
             reconcileWorkloadScanReports(owner, f)
      PROVE  TypeOK'
  <2>1. plan' \in Plan
    BY Zenon, <1>3, PlanOfCaches DEF reconcileWorkloadScanReports
  <2> QED
    BY Zenon, <1>3, <2>1 DEF TypeOK, reconcileWorkloadScanReports
<1>4. ASSUME NEW w \in Workloads, DeleteStale(w)
      PROVE  TypeOK'
  <2>1. plan' \in Plan
    BY Zenon, <1>4, ShrinkPlan DEF DeleteStale, TypeOK
  <2> QED
    BY <1>4, <2>1 DEF TypeOK, DeleteStale
<1>5. ASSUME NEW w \in Workloads, createOrPatchWorkloadScanReport(w)
      PROVE  TypeOK'
  <2>1. plan' \in Plan /\ plan.put[w] \in SUBSET Images
    BY <1>5, ShrinkPlan, PlanFields DEF createOrPatchWorkloadScanReport, TypeOK
  <2>2. hasty' \in BOOLEAN /\ reports' \in [Workloads -> (SUBSET Images) \cup {NoReport}]
    BY Zenon, <1>5, <2>1 DEF createOrPatchWorkloadScanReport, TypeOK
  <2> QED
    BY <1>5, <2>1, <2>2 DEF TypeOK, createOrPatchWorkloadScanReport
<1>6. CASE Reconciled \/ Refused \/ Fails
  <2>1. CASE Reconciled
    BY <2>1 DEF TypeOK, Reconciled
  <2>2. CASE Refused
    <3>1. /\ plan' = NoPlan /\ queued' = TRUE
          /\ UNCHANGED <<pods, enabled, reports, hasty, reportCache, imageVars,
                         podChanges, imageChanges, faults>>
      BY <2>2, Zenon DEF Refused
    <3> QED
      BY <3>1 DEF TypeOK
  <2>3. CASE Fails
    BY <2>3 DEF TypeOK, Fails
  <2> QED
    BY <1>6, <2>1, <2>2, <2>3
<1>7. ASSUME NEW i \in Images, CreateImage(i) \/ DeleteImage(i)
      PROVE  TypeOK'
  BY <1>7 DEF TypeOK, CreateImage, DeleteImage, WriteImage
<1>8. ASSUME NEW w \in Workloads, mapWorkloadScanReportToImages(w)
      PROVE  TypeOK'
  BY <1>8 DEF TypeOK, mapWorkloadScanReportToImages
<1>9. ASSUME NEW i \in Images, workloadScanPredicate(i)
      PROVE  TypeOK'
  BY <1>9 DEF TypeOK, workloadScanPredicate
<1>10. ASSUME NEW i \in Images, ReconcileImage(i)
       PROVE  TypeOK'
  BY <1>10 DEF TypeOK, ReconcileImage, WriteImage, findWorkloadScanReportsByImage
<1>11. CASE Restart
  BY <1>11 DEF TypeOK, Restart
<1>12. CASE UNCHANGED vars
  BY <1>12 DEF TypeOK, vars
<1> QED
  BY <1>1, <1>2, <1>3, <1>4, <1>5, <1>6, <1>7, <1>8, <1>9, <1>10, <1>11, <1>12 DEF Next


\* Every variable keeps its type: the plan only ever names known workloads.
THEOREM ReportsTyped == Spec => []TypeOK
<1>1. Init => TypeOK
  BY Zenon, ReportsAssumption DEF Init, TypeOK
<1> QED
  BY <1>1, TypeStep, PTL DEF Spec

-----------------------------------------------------------------------------
\* A step that leaves the pods, the configuration, the plan, the reports, the
\* queue of the namespace and the history alone keeps PlanInv.
LEMMA PlanKept ==
    ASSUME PlanInv, UNCHANGED <<pods, enabled, reportVars>>
    PROVE  PlanInv'
BY DEF PlanInv, reportVars, ToDelete, ToPut, Planned, Served, Justified, Listed

\* Making the plan: it serves every listed pod, and deletes every other report
\* there is, unless one is missing from the cache.
LEMMA PlanMade ==
    ASSUME TypeOK, NEW owner \in [Pods -> Workloads], \A p \in Pods : owner[p] \in Owners[p],
           NEW f \in buildPodsByReport(owner), reconcileWorkloadScanReports(owner, f)
    PROVE  PlanInv'
<1> SUFFICES ASSUME ~hasty' PROVE PlanInv'
  BY DEF PlanInv
<1>1. /\ DOMAIN f = {owner[p] : p \in Listed}
      /\ \A w \in DOMAIN f : f[w] \in Listed /\ owner[f[w]] = w
      /\ plan' \in Plan
  BY Zenon, PlanOfCaches DEF reconcileWorkloadScanReports
<1>2. /\ ToDelete' = {w \in Workloads \ DOMAIN f : reportCache[w] # NoReport}
      /\ ToPut' = DOMAIN f
      /\ \A w \in DOMAIN f : plan'.put[w] = pods[f[w]]
  BY Zenon, <1>1, PlanFields DEF reconcileWorkloadScanReports, ToDelete, ToPut
<1>3. /\ Listed' = Listed /\ UNCHANGED <<pods, reports>>
      /\ \A p \in Listed : p \in Pods /\ pods[p] \in SUBSET Images
  BY DEF reconcileWorkloadScanReports, Listed, TypeOK
<1>4. \A w \in ToPut' : Planned(w)'
  BY <1>1, <1>2, <1>3, ReportsAssumption DEF Planned
<1>5. \A p \in Listed' : Served(p)'
  BY <1>1, <1>2, <1>3 DEF Served
<1>6. \A w \in Workloads : reports'[w] # NoReport => Justified(w)'
  BY Zenon, <1>2, <1>3 DEF reconcileWorkloadScanReports, Justified
<1> QED
  BY <1>4, <1>5, <1>6 DEF PlanInv

\* Deleting a report: no pod was to be served by it.
LEMMA PlanDeletes ==
    ASSUME TypeOK, PlanInv, NEW w \in Workloads, DeleteStale(w)
    PROVE  PlanInv'
<1> SUFFICES ASSUME ~queued, ~hasty PROVE PlanInv'
  BY DEF PlanInv, DeleteStale
<1>1. plan \in Plan /\ w \in ToDelete /\ UNCHANGED <<pods, enabled>> /\ Listed' = Listed
  BY DEF DeleteStale, TypeOK, ToDelete, Listed
<1>2. /\ ToDelete' = ToDelete \ {w} /\ ToPut' = ToPut
      /\ plan'.put = plan.put
  BY <1>1, ShrinkPlan, PlanFields DEF DeleteStale, ToDelete, ToPut
<1>3. /\ reports'[w] = NoReport
      /\ \A v \in Workloads \ {w} : reports'[v] = reports[v]
  BY DEF DeleteStale, TypeOK
<1>4. \A v \in ToPut' : Planned(v)'
  BY <1>1, <1>2 DEF Planned, PlanInv
<1>5. \A p \in Listed : Owners[p] \subseteq Workloads
  BY ReportsAssumption DEF Listed
<1>6. \A p \in Listed' : Served(p)'
  BY <1>1, <1>2, <1>3, <1>5 DEF Served, PlanInv
<1>7. \A v \in Workloads : reports'[v] # NoReport => Justified(v)'
  BY <1>1, <1>2, <1>3 DEF Justified, PlanInv
<1> QED
  BY <1>4, <1>6, <1>7 DEF PlanInv

\* Putting a report: it is what a pod of its workload says, whether it is
\* written or left as the cache has it.
LEMMA PlanPuts ==
    ASSUME TypeOK, PlanInv, NEW w \in Workloads, createOrPatchWorkloadScanReport(w)
    PROVE  PlanInv'
<1>0. queued' = queued /\ (hasty => hasty')
  BY DEF createOrPatchWorkloadScanReport, TypeOK
<1> SUFFICES ASSUME ~queued, ~hasty, ~hasty' PROVE PlanInv'
  BY <1>0, Zenon DEF PlanInv
<1>1. plan \in Plan /\ w \in ToPut /\ UNCHANGED <<pods, enabled>> /\ Listed' = Listed
  BY DEF createOrPatchWorkloadScanReport, TypeOK, ToPut, Listed
<1>2. /\ ToDelete' = ToDelete /\ ToPut' = ToPut \ {w}
      /\ \A v \in ToPut' : plan'.put[v] = plan.put[v]
  BY <1>1, ShrinkPlan, PlanFields DEF createOrPatchWorkloadScanReport, ToDelete, ToPut
<1>3. /\ reports'[w] = plan.put[w]
      /\ \A v \in Workloads \ {w} : reports'[v] = reports[v]
  BY Zenon DEF createOrPatchWorkloadScanReport, TypeOK
<1>4. Planned(w)
  BY <1>1 DEF PlanInv
<1>5. \A v \in ToPut' : Planned(v)'
  BY <1>1, <1>2 DEF Planned, PlanInv
<1>6. \A p \in Listed : Owners[p] \subseteq Workloads
  BY ReportsAssumption DEF Listed
<1>7. \A p \in Listed' : Served(p)'
  BY <1>1, <1>2, <1>3, <1>4, <1>6 DEF Served, PlanInv, Planned
<1>8. \A v \in Workloads : reports'[v] # NoReport => Justified(v)'
  BY <1>1, <1>2, <1>3, <1>4 DEF Justified, PlanInv, Planned
<1> QED
  BY <1>5, <1>7, <1>8 DEF PlanInv

\* Every step keeps PlanInv.
LEMMA PlanStep == TypeOK /\ PlanInv /\ [Next]_vars => PlanInv'
<1> SUFFICES ASSUME TypeOK, PlanInv, [Next]_vars PROVE PlanInv'
  OBVIOUS
<1>1. ASSUME NEW p \in Pods, NEW is, podImagesChanged(p, is)
      PROVE  PlanInv'
  BY <1>1 DEF PlanInv, podImagesChanged
<1>2. CASE ConfigChanged
  BY <1>2 DEF PlanInv, ConfigChanged
<1>3. CASE Reconciled
  <2>1. /\ ToDelete = {} /\ ToPut = {} /\ ToDelete' = {} /\ ToPut' = {}
        /\ UNCHANGED <<pods, enabled, queued, reports, hasty>> /\ Listed' = Listed
    BY <1>3 DEF Reconciled, ToDelete, ToPut, Listed
  <2> QED
    BY <2>1 DEF PlanInv, Served, Justified
<1>4. CASE Refused \/ Fails \/ Restart
  <2>1. queued'
    BY <1>4, Zenon DEF Refused, Fails, Restart
  <2> QED
    BY <2>1 DEF PlanInv
<1>5. ASSUME NEW i \in Images, CreateImage(i) \/ DeleteImage(i) \/ workloadScanPredicate(i)
                                 \/ ReconcileImage(i)
      PROVE  PlanInv'
  BY <1>5, PlanKept DEF CreateImage, DeleteImage, workloadScanPredicate, ReconcileImage
<1>6. ASSUME NEW w \in Workloads, mapWorkloadScanReportToImages(w)
      PROVE  PlanInv'
  BY <1>6, PlanKept DEF mapWorkloadScanReportToImages
<1>7. CASE UNCHANGED vars
  BY <1>7, PlanKept DEF vars
<1> QED
  BY <1>1, <1>2, <1>3, <1>4, <1>5, <1>6, <1>7, PlanMade, PlanDeletes, PlanPuts DEF Next

\* Whatever pods and the configuration do during the reconciliations, whichever
\* writes fail or are refused, and however often the controller restarts: once
\* nothing is queued or under way the reports mirror the pods.
THEOREM ReportsFollowPods == Spec => []ReportsMirror
<1>1. Init => TypeOK /\ PlanInv
  BY Zenon, ReportsAssumption DEF Init, TypeOK, PlanInv, ToDelete, ToPut, Listed
<1>2. PlanInv => ReportsMirror
  BY DEF PlanInv, ReportsMirror, ToDelete, ToPut, Served, Justified
<1> QED
  BY <1>1, <1>2, TypeStep, PlanStep, PTL DEF Spec

-----------------------------------------------------------------------------
\* Every step keeps ImageInv.
LEMMA ImageStep == TypeOK /\ ImageInv /\ [Next]_vars => ImageInv'
<1> SUFFICES ASSUME TypeOK, ImageInv, [Next]_vars PROVE ImageInv'
  OBVIOUS
<1> USE DEF imageVars
<1>1. CASE UNCHANGED <<imageVars, reportCache>>
  BY <1>1 DEF ImageInv, findWorkloadScanReportsByImage
<1>2. ASSUME NEW i \in Images, NEW s, WriteImage(i, s),
             UNCHANGED <<imageCache, imageQueue, reportCache>>
      PROVE  ImageInv'
  BY <1>2 DEF WriteImage, TypeOK, ImageInv, findWorkloadScanReportsByImage
<1>3. ASSUME NEW w \in Workloads, mapWorkloadScanReportToImages(w)
      PROVE  ImageInv'
  <2> SUFFICES ASSUME NEW i \in Images \ imageEvents, i \notin imageQueue', status[i] # NoImage
               PROVE  status[i] = findWorkloadScanReportsByImage(i)'
    BY <1>3 DEF mapWorkloadScanReportToImages, ImageInv
  <2>1. i \notin imageQueue /\ ~ Refers(reportCache[w], i) /\ ~ Refers(reports[w], i)
    BY <1>3 DEF mapWorkloadScanReportToImages, ImageInv
  <2>2. \A v \in Workloads : Refers(reportCache'[v], i) <=> Refers(reportCache[v], i)
    BY <1>3, <2>1 DEF mapWorkloadScanReportToImages, TypeOK
  <2> QED
    BY <2>1, <2>2 DEF ImageInv, findWorkloadScanReportsByImage
<1>4. ASSUME NEW i \in Images, workloadScanPredicate(i)
      PROVE  ImageInv'
  BY <1>4 DEF workloadScanPredicate, ImageInv, TypeOK, findWorkloadScanReportsByImage
<1>5. ASSUME NEW i \in Images, ReconcileImage(i)
      PROVE  ImageInv'
  BY <1>5 DEF ReconcileImage, WriteImage, ImageInv, TypeOK, findWorkloadScanReportsByImage
<1>6. CASE Restart
  BY <1>6 DEF Restart, ImageInv
<1>7. ASSUME NEW i \in Images, CreateImage(i) \/ DeleteImage(i)
      PROVE  ImageInv'
  BY <1>7, <1>2 DEF CreateImage, DeleteImage
<1>8. CASE \/ \E p \in Pods, is \in (SUBSET Images) \cup {NoPod} : podImagesChanged(p, is)
           \/ ConfigChanged \/ Reconciled \/ Refused \/ Fails
           \/ \E owner, f : reconcileWorkloadScanReports(owner, f)
           \/ \E w \in Workloads : DeleteStale(w) \/ createOrPatchWorkloadScanReport(w)
  <2>1. UNCHANGED <<imageVars, reportCache>>
    BY <1>8, Zenon DEF podImagesChanged, ConfigChanged, Reconciled, Refused, Fails,
                       reconcileWorkloadScanReports, DeleteStale, createOrPatchWorkloadScanReport
  <2> QED
    BY <2>1, <1>1
<1>9. CASE UNCHANGED vars
  BY <1>9, <1>1 DEF vars
<1> QED
  BY <1>3, <1>4, <1>5, <1>6, <1>7, <1>8, <1>9 DEF Next

\* Once its events are handled, an Image names the reports that refer to it,
\* whatever was written, deleted, created again or restarted meanwhile.
THEOREM ImagesFollowReports == Spec => []StatusMirrors
<1>1. Init => TypeOK /\ ImageInv
  BY Zenon, ReportsAssumption DEF Init, TypeOK, ImageInv
<1>2. ImageInv => StatusMirrors
  BY DEF ImageInv, StatusMirrors, findWorkloadScanReportsByImage
<1> QED
  BY <1>1, <1>2, TypeStep, ImageStep, PTL DEF Spec
=============================================================================
