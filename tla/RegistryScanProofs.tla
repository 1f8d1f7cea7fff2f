------------------------- MODULE RegistryScanProofs -------------------------
(***************************************************************************)
(* RegistryScan for every number of jobs, images and workers: types; what  *)
(* steps of a given shape do to the invariant, to the queue and to the     *)
(* jobs, whichever component takes them; that every component keeps Inv,   *)
(* and the properties that follow; and what the steps of users and         *)
(* controllers do to jobs and queue, which RegistryScanProgress builds on. *)
(***************************************************************************)
EXTENDS RegistryScanInvariant, TLAPS

(* Types, and what the operations on a status leave true.                  *)

\* A Mark function of scanjob_types.go yields a well-formed status.
LEMMA MarkType ==
    ASSUME NEW s \in Status, NEW r \in Reasons
    PROVE  /\ InitializeConditions(s) \in Status
           /\ MarkScheduled(s) \in Status
           /\ MarkInProgress(s, r) \in Status
           /\ MarkComplete(s, r) \in Status
           /\ MarkFailed(s, r) \in Status
  BY Zenon DEF Status, CondTypes, CondStatus, Reasons, InitializeConditions, OnlyTrue,
         MarkScheduled, MarkInProgress, MarkComplete, MarkFailed

\* A Mark function leaves its own condition true and the others not.
LEMMA MarkEffect ==
    ASSUME NEW s \in Status, NEW r \in Reasons
    PROVE  /\ IsPending(InitializeConditions(s))
           /\ IsScheduled(MarkScheduled(s))
           /\ ~IsPending(MarkScheduled(s)) /\ ~JobFinished(MarkScheduled(s))
           /\ ~IsPending(MarkInProgress(s, r)) /\ ~IsScheduled(MarkInProgress(s, r))
           /\ ~JobFinished(MarkInProgress(s, r))
           /\ ~IsPending(MarkComplete(s, r)) /\ ~IsScheduled(MarkComplete(s, r))
           /\ JobFinished(MarkComplete(s, r)) /\ ~IsFailed(MarkComplete(s, r))
           /\ ~IsPending(MarkFailed(s, r)) /\ ~IsScheduled(MarkFailed(s, r))
           /\ JobFinished(MarkFailed(s, r)) /\ IsFailed(MarkFailed(s, r))
           /\ ~JobFinished(InitializeConditions(s))
           /\ ~IsScheduled(InitializeConditions(s))
           /\ ~IsFailed(MarkScheduled(s))
  BY Zenon DEF Status, CondTypes, CondStatus, Reasons, InitializeConditions, OnlyTrue,
         MarkScheduled, MarkInProgress, MarkComplete, MarkFailed, IsPending,
         IsScheduled, IsInProgress, IsComplete, IsFailed, JobFinished

\* The status of a job nobody has written to is well-formed and pending.
LEMMA EmptyStatusFacts ==
    /\ EmptyStatus \in Status
    /\ IsPending(EmptyStatus)
    /\ ~JobFinished(EmptyStatus)
  BY Zenon DEF EmptyStatus, Status, CondTypes, CondStatus, Reasons, IsPending,
         IsScheduled, IsInProgress, IsComplete, IsFailed, JobFinished

\* The reasons the controllers and handlers give are reasons.
LEMMA ReasonFacts ==
    /\ "None" \in Reasons
    /\ "CatalogCreationInProgress" \in Reasons
    /\ "InternalError" \in Reasons
  BY Zenon DEF Reasons

\* No images are images.
LEMMA NoImages == {} \subseteq Images
  BY Zenon

\* The number of images in a set of images is a natural number.
LEMMA ImageCount ==
    ASSUME NEW S, S \subseteq Images
    PROVE  Cardinality(S) \in Nat
  BY Zenon, FiniteAssumption

\* The message a worker handles is one of the scan's messages.
LEMMA MessageFacts ==
    ASSUME TypeOK, NEW w \in Workers, task[w] # NoTask
    PROVE  /\ M(w) \in ScanMessages
           /\ UID(w) \in UIDs
           /\ Name(w) \in Names
           /\ M(w).kind # "createCatalog" => M(w).img \in Images
           /\ task[w] \in Task
           /\ task[w].entry \in Entries
  <1>1. task[w] \in Task
    BY Zenon DEF TypeOK, ClusterTypeOK, QueueTypeOK
  <1>2. task[w].entry \in Entries /\ M(w) \in ScanMessages
    BY Zenon, <1>1 DEF Task, Entries, M
  <1>3. UID(w) \in UIDs /\ (M(w).kind # "createCatalog" => M(w).img \in Images)
    BY Zenon, <1>2 DEF ScanMessages, UID
  <1> QED BY Zenon, <1>1, <1>2, <1>3, ClusterAssumption DEF Name

\* The snapshot of the registry sets the annotation and the version, and
\* leaves the rest of the ScanJob as it was.
LEMMA AnnotatedFacts ==
    ASSUME NEW j \in ScanJob, NEW v \in Nat
    PROVE  /\ Annotated(j, v) \in ScanJob
           /\ Annotated(j, v).uid = j.uid /\ Annotated(j, v).rv = v
           /\ Annotated(j, v).snapshot = TRUE
           /\ Annotated(j, v).target = j.target
           /\ Annotated(j, v).status = j.status
  BY Zenon DEF Annotated, ScanJob

\* The metric of finished scan jobs counts a job once per finished status.
LEMMA RecordEffect ==
    ASSUME counted \in [UIDs -> Nat], NEW u \in UIDs, NEW s,
           RecordScanJobFinished(u, s)
    PROVE  /\ counted' \in [UIDs -> Nat]
           /\ \A v \in UIDs : v # u => counted'[v] = counted[v]
           /\ JobFinished(s) => counted'[u] = counted[u] + 1
           /\ ~JobFinished(s) => counted'[u] = counted[u]
  <1>1. CASE JobFinished(s)
    <2>1. counted' = [counted EXCEPT ![u] = counted[u] + 1]
      BY Zenon, <1>1 DEF RecordScanJobFinished
    <2> QED BY <1>1, <2>1
  <1>2. CASE ~JobFinished(s)
    BY Zenon, <1>2 DEF RecordScanJobFinished
  <1> QED BY Zenon, <1>1, <1>2

\* A write of a well-formed status keeps the jobs and the clock well-formed.
LEMMA WriteStatusType ==
    ASSUME ClusterTypeOK, NEW n \in Names, jobs[n] # NoJob, NEW s \in Status,
           WriteStatus(n, s)
    PROVE  jobs' \in [Names -> ScanJob \cup {NoJob}] /\ clock' \in Nat
  <1>1. jobs[n] \in ScanJob
    BY Zenon DEF ClusterTypeOK
  <1>2. CASE jobs[n].status = s
    BY Zenon, <1>2 DEF WriteStatus, jobVars, ClusterTypeOK
  <1>3. CASE jobs[n].status # s
    BY <1>1, <1>3 DEF WriteStatus, ClusterTypeOK, ScanJob
  <1> QED BY Zenon, <1>2, <1>3

-----------------------------------------------------------------------------

\* The initial state is well-typed.
LEMMA TypeInit == Init => TypeOK
  BY ScanAssumption, ClusterAssumption
     DEF Init, ClusterInit, ControllerInit, WorkerInit, ReportInit, QueueInit,
         PCs, TypeOK, ClusterTypeOK, ControllerTypeOK, WorkerTypeOK, ReportTypeOK,
         QueueTypeOK, NoReport, Report, Owned, Delivery, Local, Idle

\* What users, the environment and a controller restart do keeps the types.
LEMMA TypeEnvironment ==
    ASSUME TypeOK, Users \/ Environment \/ RestartController
    PROVE  TypeOK'
  <1> USE DEF TypeOK, ClusterTypeOK, QueueTypeOK, ControllerTypeOK,
              WorkerTypeOK, ReportTypeOK, jobVars, objectVars, queueVars,
              userVars, historyVars, controllerVars, admissionVars, reportVars
  <1>1. CASE Users
    <2> USE <1>1 DEF Users
    <2>1. ASSUME NEW n \in Names, NEW t \in Targets, ValidateCreate(n, t)
          PROVE  TypeOK'
      BY <2>1 DEF ValidateCreate
    <2>2. ASSUME NEW u \in UIDs, CreateScanJob(u)
          PROVE  TypeOK'
      <3>1. NameOf[u] \in Names /\ Targets \subseteq TargetKinds
        BY Zenon, ClusterAssumption
      <3>2. CASE jobs[NameOf[u]] # NoJob
        BY Zenon, <2>2, <3>1, <3>2 DEF CreateScanJob
      <3>3. CASE jobs[NameOf[u]] = NoJob
        <4>1. admitted[NameOf[u]] \in TargetKinds
          BY Zenon, <2>2, <3>1 DEF CreateScanJob
        <4>2. [uid |-> u, rv |-> clock + 1, stamp |-> clock + 1,
               snapshot |-> FALSE, target |-> admitted[NameOf[u]],
               status |-> EmptyStatus] \in ScanJob
          BY <4>1, EmptyStatusFacts DEF ScanJob
        <4>3. jobs' \in [Names -> ScanJob \cup {NoJob}]
          BY SMTT(20), <2>2, <3>3, <4>2 DEF CreateScanJob
        <4> QED BY SMTT(20), <2>2, <3>1, <3>3, <4>3 DEF CreateScanJob
      <3> QED BY Zenon, <3>2, <3>3
    <2>3. ASSUME NEW n \in Names, DeleteScanJob(n)
          PROVE  TypeOK'
      BY <2>3 DEF DeleteScanJob
    <2> QED BY Zenon, <2>1, <2>2, <2>3
  <1>2. CASE Environment
    <2> USE <1>2 DEF Environment
    <2>1. ASSUME NEW i \in Images, ChangeTag(i)
          PROVE  TypeOK'
      BY <2>1 DEF ChangeTag
    <2>2. CASE DeleteRegistry
      <3>1. registry' \in BOOLEAN
        BY <2>2, Zenon DEF DeleteRegistry
      <3> QED BY <2>2, <3>1 DEF DeleteRegistry
    <2>3. ASSUME NEW n \in Names, CollectScanJob(n)
          PROVE  TypeOK'
      BY Zenon, <2>3 DEF CollectScanJob
    <2>4. ASSUME NEW i \in Images, CollectImage(i)
          PROVE  TypeOK'
      BY Zenon, <2>4 DEF CollectImage, Owned
    <2>5. ASSUME NEW i \in Images, CollectSBOM(i)
          PROVE  TypeOK'
      <3>1. reports' \in [Images -> Report]
        BY <2>5 DEF CollectSBOM, Owned, Report
      <3>2. sboms' \in [Images -> Owned]
        BY Zenon, <2>5 DEF CollectSBOM, Owned
      <3> QED BY Zenon, <2>5, <3>1, <3>2 DEF CollectSBOM
    <2>6. ASSUME NEW i \in Images, CollectReport(i)
          PROVE  TypeOK'
      <3>1. disturbed' \subseteq UIDs
        BY Zenon, <2>6 DEF CollectReport, Disturb
      <3> QED BY Zenon, <2>6, <3>1 DEF CollectReport, Owned, Report, NoReport
    <2> QED BY Zenon, <2>1, <2>2, <2>3, <2>4, <2>5, <2>6
  <1>3. CASE RestartController
    BY <1>3 DEF RestartController, Fault, Report
  <1> QED BY Zenon, <1>1, <1>2, <1>3

\* A publish to the stream keeps the types of the queue.
LEMMA PublishType ==
    ASSUME QueueTypeOK, NEW m \in ScanMessages, Publish(m)
    PROVE  /\ published' \in [ScanMessages -> 0..MaxCopies]
           /\ stream' \in [Entries -> Delivery]
  <1>1. CASE UNCHANGED <<published, stream>>
    BY Zenon, <1>1 DEF QueueTypeOK
  <1>2. CASE Store(m)
    <2>1. [st |-> "ready", n |-> 0] \in Delivery
      BY ClusterAssumption DEF Delivery
    <2>2. published[m] + 1 \in 0..MaxCopies
      BY <1>2, ClusterAssumption DEF Store, QueueTypeOK
    <2> QED BY Zenon, <1>2, <2>1, <2>2 DEF Store, QueueTypeOK
  <1> QED BY Zenon, <1>1, <1>2 DEF Publish

\* The steps of ScanJobReconciler keep the types.
LEMMA TypeJobController ==
    ASSUME TypeOK, NEW n \in Names, WatchScanJob(n) \/ JobController(n)
    PROVE  TypeOK'
  <1> USE DEF TypeOK, ClusterTypeOK, ControllerTypeOK,
              WorkerTypeOK, ReportTypeOK, jobVars, objectVars, queueVars,
              userVars, historyVars, controllerVars, admissionVars, reportVars
  <1> DEFINE c == jobCache[n]
  <1>1. CASE WatchScanJob(n)
    BY Zenon, <1>1 DEF WatchScanJob, SyncScanJob, QueueTypeOK
  <1>2. CASE JobController(n)
    <2> USE <1>2 DEF JobController
    <2>a. JobsAfterCleanup \in [Names -> ScanJob \cup {NoJob}]
      BY Zenon DEF JobsAfterCleanup
    <2>b. ASSUME NEW rv \in Nat, NEW s \in Status, NEW retry \in BOOLEAN,
                 Hold(n, rv, s, retry)
          PROVE  rec' \in [Names -> Reconciliation \cup {NoRec}]
      BY Zenon, <2>b DEF Hold, Reconciliation
    <2>c. ASSUME Begin(n)
          PROVE  /\ c.rv \in Nat /\ c.status \in Status
                 /\ InitializeConditions(c.status) \in Status
                 /\ c.uid \in UIDs
                 /\ jobQueue' \subseteq Names
      <3>1. c \in ScanJob
        BY Zenon, <2>c DEF Begin, CachedPending
      <3>2. c.rv \in Nat /\ c.status \in Status /\ c.uid \in UIDs
        BY Zenon, <3>1 DEF ScanJob
      <3>3. InitializeConditions(c.status) \in Status
        BY Zenon, <3>2, MarkType, ReasonFacts
      <3> QED BY Zenon, <2>c, <3>2, <3>3 DEF Begin
    <2>1. CASE SkipScanJob(n)
      BY Zenon, <2>1 DEF SkipScanJob, QueueTypeOK
    <2>2. CASE RejectScanJob(n)
      <3>1. \A r \in Reasons :
               MarkFailed(InitializeConditions(c.status), r) \in Status
        BY Zenon, <2>2, <2>c, MarkType DEF RejectScanJob
      <3>2. rec' \in [Names -> Reconciliation \cup {NoRec}]
        <4>1. "RegistryNotFound" \in Reasons /\ TargetReason(c.target) \in Reasons
          BY Zenon DEF Reasons, TargetReason
        <4>2. (IF ~registry THEN "RegistryNotFound" ELSE TargetReason(c.target)) \in Reasons
          BY Zenon, <4>1
        <4> QED BY Zenon, <2>2, <2>b, <2>c, <3>1, <4>2 DEF RejectScanJob
      <3> QED BY Zenon, <2>2, <2>a, <2>c, <3>2 DEF RejectScanJob, QueueTypeOK
    <2>3. CASE SnapshotRegistry(n)
      <3> DEFINE live == JobsAfterCleanup[n]
                 s == IF live.status.conds = EmptyStatus.conds
                      THEN InitializeConditions(live.status) ELSE live.status
      <3>1. live \in ScanJob
        BY Zenon, <2>3, <2>a DEF SnapshotRegistry
      <3>2. s \in Status
        BY Zenon, <3>1, MarkType, ReasonFacts DEF ScanJob
      <3>3. rec' \in [Names -> Reconciliation \cup {NoRec}]
        <4>1. Hold(n, clock + 1, s, FALSE)
          BY Zenon, <2>3 DEF SnapshotRegistry
        <4>2. clock + 1 \in Nat /\ FALSE \in BOOLEAN
          OBVIOUS
        <4> HIDE DEF s
        <4> QED BY Zenon, <2>b, <3>2, <4>1, <4>2
      <3>4. jobs' \in [Names -> ScanJob \cup {NoJob}]
        <4>1. Annotated(live, clock + 1) \in ScanJob
          <5>1. clock + 1 \in Nat
            OBVIOUS
          <5> HIDE DEF live
          <5> QED BY Zenon, <3>1, <5>1, AnnotatedFacts
        <4>2. jobs' = [JobsAfterCleanup EXCEPT ![n] = Annotated(live, clock + 1)]
          BY Zenon, <2>3 DEF SnapshotRegistry
        <4> HIDE DEF live
        <4> QED BY Zenon, <2>a, <4>1, <4>2
      <3>5. /\ clock' = clock + 1
            /\ UNCHANGED <<objectVars, userVars, queueVars, task, counted,
                           historyVars, faults, jobCache, admissionVars>>
        BY Zenon, <2>3 DEF SnapshotRegistry
      <3>6. clock' \in Nat
        BY <3>5
      <3>7. UNCHANGED <<local, reportVars>>
        BY Zenon
      <3>8. jobQueue' \subseteq Names
        BY Zenon, <2>3, <2>c DEF SnapshotRegistry
      <3> QED BY Zenon, <3>3, <3>4, <3>5, <3>6, <3>7, <3>8 DEF QueueTypeOK
    <2>4. CASE ScheduleScanJob(n)
      <3>1. MarkScheduled(InitializeConditions(c.status)) \in Status
        BY Zenon, <2>4, <2>c, MarkType, ReasonFacts DEF ScheduleScanJob
      <3>2. rec' \in [Names -> Reconciliation \cup {NoRec}] /\ faults' \in Nat
        <4>1. \/ Hold(n, c.rv, MarkScheduled(InitializeConditions(c.status)),
                      FALSE)
              \/ Hold(n, c.rv, InitializeConditions(c.status), TRUE)
          BY Zenon, <2>4 DEF ScheduleScanJob
        <4>2. Begin(n)
          BY Zenon, <2>4 DEF ScheduleScanJob
        <4>3. faults' \in Nat
          <5>1. faults' = faults \/ (faults > 0 /\ faults' = faults - 1)
            BY Zenon, <2>4 DEF ScheduleScanJob, Fault
          <5> QED BY <5>1
        <4>4. TRUE \in BOOLEAN /\ FALSE \in BOOLEAN
          BY Zenon
        <4>5. c.rv \in Nat /\ InitializeConditions(c.status) \in Status
          BY Zenon, <2>c, <4>2
        <4>6. CASE Hold(n, c.rv, MarkScheduled(InitializeConditions(c.status)),
                        FALSE)
          BY Zenon, <2>b, <3>1, <4>3, <4>4, <4>5, <4>6
        <4>7. CASE Hold(n, c.rv, InitializeConditions(c.status), TRUE)
          BY Zenon, <2>b, <4>3, <4>4, <4>5, <4>7
        <4> QED BY Zenon, <4>1, <4>6, <4>7
      <3>3. Message("createCatalog", c.uid, NoImage) \in ScanMessages
        BY Zenon, <2>4, <2>c DEF ScheduleScanJob, Message, ScanMessages
      <3>4. QueueTypeOK'
        BY Zenon, <2>4, <3>3, PublishType DEF ScheduleScanJob, QueueTypeOK
      <3> QED BY Zenon, <2>4, <2>a, <2>c, <3>2, <3>4 DEF ScheduleScanJob
    <2>5. CASE FailReconcile(n)
      <3>1. rec' \in [Names -> Reconciliation \cup {NoRec}]
        BY Zenon, <2>5, <2>b, <2>c DEF FailReconcile
      <3>2. jobs' \in [Names -> ScanJob \cup {NoJob}] /\ faults' \in Nat
        BY <2>5, <2>a DEF FailReconcile, Fault
      <3> QED BY Zenon, <2>5, <2>c, <3>1, <3>2 DEF FailReconcile, QueueTypeOK
    <2>6. CASE UpdateScanJobStatus(n)
      <3>1. rec[n].status \in Status
        BY Zenon, <2>6 DEF UpdateScanJobStatus, Reconciliation
      <3>2. jobs' \in [Names -> ScanJob \cup {NoJob}] /\ clock' \in Nat
        BY Zenon, <2>6, <3>1, WriteStatusType
           DEF UpdateScanJobStatus, StatusUpdateAccepted
      <3>3. counted' \in [UIDs -> Nat]
        <4>1. jobs[n].uid \in UIDs
          BY Zenon, <2>6 DEF UpdateScanJobStatus, StatusUpdateAccepted, ScanJob
        <4>2. RecordScanJobFinished(jobs[n].uid, rec[n].status)
          BY Zenon, <2>6 DEF UpdateScanJobStatus
        <4> QED BY Zenon, <4>1, <4>2, RecordEffect
      <3> QED BY Zenon, <2>6, <3>2, <3>3 DEF UpdateScanJobStatus, QueueTypeOK
    <2>7. CASE RetryScanJob(n)
      BY <2>7 DEF RetryScanJob, Fault, QueueTypeOK
    <2> QED BY Zenon, <2>1, <2>2, <2>3, <2>4, <2>5, <2>6, <2>7 DEF Reconcile
  <1> QED BY Zenon, <1>1, <1>2

\* The steps of VulnerabilityReportReconciler keep the types.
LEMMA TypeCompletion ==
    ASSUME TypeOK, NEW i \in Images, WatchReport(i) \/ CompletionController(i)
    PROVE  TypeOK'
  <1> USE DEF TypeOK, ClusterTypeOK, ControllerTypeOK, QueueTypeOK,
              WorkerTypeOK, ReportTypeOK, jobVars, objectVars, queueVars,
              userVars, historyVars, controllerVars, admissionVars, reportVars
  <1>1. CASE WatchReport(i)
    BY Zenon, <1>1 DEF WatchReport, SyncReport, Report
  <1>2. CASE CompletionController(i) /\ SkipReport(i)
    BY Zenon, <1>2 DEF CompletionController, SkipReport
  <1>3. CASE CompletionController(i) /\ CountReports(i)
    <2> DEFINE u == reportCache[i]
               j == jobCache[NameOf[u]]
               k == Cardinality(ReportsOf(u))
    <2>1. u \in UIDs /\ NameOf[u] \in Names /\ j \in ScanJob
      BY Zenon, <1>3, ClusterAssumption DEF CountReports, Counting
    <2>2. k \in Nat
      BY Zenon, ImageCount DEF ReportsOf
    <2>3. CountedStatus(j.status, k) \in Status
      <3>1. [j.status EXCEPT !.scannedImagesCount = k] \in Status
        BY Zenon, <2>1, <2>2 DEF ScanJob, Status
      <3>2. "AllImagesScanned" \in Reasons /\ "ImageScanInProgress" \in Reasons
        BY Zenon DEF Reasons
      <3> QED BY Zenon, <3>1, <3>2, MarkType DEF CountedStatus
    <2>4. jobs' \in [Names -> ScanJob \cup {NoJob}] /\ clock' \in Nat
      BY Zenon, <1>3, <2>1, <2>3, WriteStatusType DEF CountReports
    <2>5. counted' \in [UIDs -> Nat]
      BY Zenon, <1>3, <2>1, RecordEffect DEF CountReports
    <2> QED BY Zenon, <1>3, <2>4, <2>5 DEF CompletionController, CountReports
  <1> QED BY Zenon, <1>1, <1>2, <1>3 DEF CompletionController, ReconcileReport

\* Moving a handler on, through or into a loop, keeps its variables typed.
LEMMA LocalType ==
    ASSUME WorkerTypeOK, NEW w \in Workers, NEW pc \in PCs, NEW next \in PCs,
           NEW S, S \subseteq Images, NEW i
    PROVE  /\ Goto(w, pc) => WorkerTypeOK'
           /\ Loop(w, i, next) => WorkerTypeOK'
           /\ Enter(w, pc, S, next) => WorkerTypeOK'
  <1>1. local[w] \in Local
    BY Zenon DEF WorkerTypeOK
  <1>2. ASSUME NEW p \in PCs, NEW T, T \subseteq Images
        PROVE  /\ [local[w] EXCEPT !.pc = p] \in Local
               /\ [local[w] EXCEPT !.todo = T, !.pc = p] \in Local
    BY Zenon, <1>1, <1>2 DEF Local
  <1>3. CASE Goto(w, pc)
    <2>1. local' = [local EXCEPT ![w] = [local[w] EXCEPT !.pc = pc]]
      BY Zenon, <1>3 DEF Goto, WorkerTypeOK
    <2> QED BY Zenon, <1>2, <2>1 DEF WorkerTypeOK
  <1>4. CASE Loop(w, i, next)
    <2> DEFINE p == IF local[w].todo = {i} THEN next ELSE local[w].pc
               T == local[w].todo \ {i}
    <2>1. p \in PCs /\ T \subseteq Images
      BY Zenon, <1>1 DEF Local
    <2>2. local' = [local EXCEPT ![w] = [local[w] EXCEPT !.todo = T, !.pc = p]]
      BY Zenon, <1>4 DEF Loop, WorkerTypeOK
    <2> HIDE DEF p, T
    <2> QED BY Zenon, <1>2, <2>1, <2>2 DEF WorkerTypeOK
  <1>5. CASE Enter(w, pc, S, next)
    <2> DEFINE p == IF S = {} THEN next ELSE pc
    <2>1. p \in PCs
      BY Zenon
    <2>2. local' = [local EXCEPT ![w] = [local[w] EXCEPT !.todo = S, !.pc = p]]
      BY Zenon, <1>5 DEF Enter, WorkerTypeOK
    <2> HIDE DEF p
    <2> QED BY Zenon, <1>2, <2>1, <2>2 DEF WorkerTypeOK
  <1> QED BY Zenon, <1>3, <1>4, <1>5

\* The steps of a subscriber keep the types.
LEMMA TypeSubscriber ==
    ASSUME TypeOK, NEW w \in Workers,
           \/ \E e \in Entries : Receive(w, e)
           \/ Acknowledge(w) \/ Crash(w) \/ HandlerError(w) \/ RetryLater(w)
           \/ GiveUp(w) \/ GiveUpSilently(w),
           UNCHANGED <<controllerVars, admissionVars, reportVars>>
    PROVE  TypeOK'
  <1> USE DEF TypeOK, ClusterTypeOK, ControllerTypeOK, QueueTypeOK,
              WorkerTypeOK, ReportTypeOK, jobVars, objectVars, queueVars,
              userVars, historyVars, controllerVars, admissionVars, reportVars
  <1>a. ASSUME NEW pc \in {"fail", "ack"}, Goto(w, pc)
        PROVE  local' \in [Workers -> Local]
    BY Zenon, <1>a, LocalType, NoImages DEF PCs
  <1>b. Idle \in Local /\ [Idle EXCEPT !.pc = "start"] \in Local
    BY Zenon DEF Idle, Local, PCs
  <1>1. ASSUME NEW e \in Entries, Receive(w, e)
        PROVE  TypeOK'
    <2> DEFINE k == IF stream[e].n < MaxDeliver THEN stream[e].n + 1
                                                ELSE MaxDeliver
    <2>1. k \in 0..MaxDeliver
      BY ClusterAssumption DEF Delivery
    <2>2. /\ stream' = [stream EXCEPT ![e] = [st |-> "pending", n |-> k]]
          /\ task' = [task EXCEPT ![w] = [entry |-> e, n |-> k]]
          /\ published' = published
      BY Zenon, <1>1 DEF Receive, Deliver
    <2> HIDE DEF k
    <2>3. [st |-> "pending", n |-> k] \in Delivery /\ [entry |-> e, n |-> k] \in Task
      BY Zenon, <2>1 DEF Delivery, Task
    <2>4. QueueTypeOK'
      BY Zenon, <2>2, <2>3
    <2>5. local' \in [Workers -> Local]
      BY Zenon, <1>1, <1>b DEF Receive
    <2> QED BY Zenon, <1>1, <2>4, <2>5 DEF Receive
  <1>2. CASE Acknowledge(w)
    BY ZenonT(30), <1>2, <1>b DEF Acknowledge, Ack, Delivery
  <1>3. CASE Crash(w)
    BY <1>3, <1>b DEF Crash, Abandon, Fault
  <1>4. CASE HandlerError(w)
    BY <1>4, <1>a DEF HandlerError, Fault
  <1>5. CASE RetryLater(w)
    <2> DEFINE e == task[w].entry
               st == IF stream[e].st = "absent" THEN "absent" ELSE "ready"
    <2>1. e \in Entries
      BY Zenon, <1>5, MessageFacts DEF RetryLater, At
    <2>2. stream' = [stream EXCEPT ![e] = [stream[e] EXCEPT !.st = st]]
      BY Zenon, <1>5, <2>1 DEF RetryLater, Nak
    <2>3. [stream[e] EXCEPT !.st = st] \in Delivery
      BY <2>1 DEF Delivery
    <2> HIDE DEF st, e
    <2>4. QueueTypeOK'
      BY ZenonT(30), <1>5, <2>2, <2>3 DEF RetryLater, Nak
    <2> QED BY Zenon, <1>5, <1>b, <2>4 DEF RetryLater
  <1>6. CASE GiveUp(w)
    <2>1. Name(w) \in Names /\ UID(w) \in UIDs
      BY Zenon, <1>6, MessageFacts DEF GiveUp, At
    <2>2. CASE jobs[Name(w)] = NoJob
      BY Zenon, <1>6, <1>a, <2>2 DEF GiveUp
    <2>3. CASE jobs[Name(w)] # NoJob
      <3> DEFINE n == Name(w)
                 s == MarkFailed(jobs[n].status, "InternalError")
      <3>1. jobs[n] \in ScanJob
        BY Zenon, <2>1, <2>3
      <3>2. jobs[n].uid \in UIDs /\ jobs[n].status \in Status
        BY Zenon, <3>1 DEF ScanJob
      <3>3. s \in Status
        BY Zenon, <3>2, MarkType, ReasonFacts
      <3>4. jobs' \in [Names -> ScanJob \cup {NoJob}] /\ clock' \in Nat
        BY Zenon, <1>6, <2>1, <2>3, <3>3, WriteStatusType DEF GiveUp
      <3>5. counted' \in [UIDs -> Nat] /\ disturbed' \subseteq UIDs
        BY Zenon, <1>6, <2>3, <3>2, RecordEffect DEF GiveUp
      <3> QED BY Zenon, <1>6, <1>a, <3>4, <3>5 DEF GiveUp
    <2> QED BY Zenon, <2>2, <2>3
  <1>7. CASE GiveUpSilently(w)
    BY <1>7, <1>a DEF GiveUpSilently, Fault, Disturb
  <1> QED BY Zenon, <1>1, <1>2, <1>3, <1>4, <1>5, <1>6, <1>7

\* The second status update of CreateCatalogHandler writes a well-formed status.
LEMMA CatalogStatusType ==
    ASSUME NEW s \in Status, NEW f, f \subseteq Images
    PROVE  CatalogStatus(s, f) \in Status
  <1>1. "NoImagesToScan" \in Reasons /\ "SBOMGenerationInProgress" \in Reasons
    BY Zenon DEF Reasons
  <1>2. Cardinality(f) \in Nat
    BY Zenon, ImageCount
  <1>3. /\ MarkComplete(s, "NoImagesToScan") \in Status
        /\ MarkInProgress(s, "SBOMGenerationInProgress") \in Status
    BY Zenon, <1>1, MarkType
  <1>4. [MarkInProgress(s, "SBOMGenerationInProgress")
           EXCEPT !.imagesCount = Cardinality(f),
                  !.scannedImagesCount = 0] \in Status
    BY Zenon, <1>2, <1>3 DEF Status
  <1> QED BY Zenon, <1>3, <1>4 DEF CatalogStatus

\* The steps of CreateCatalogHandler keep the types.
LEMMA TypeCatalog ==
    ASSUME TypeOK, NEW w \in Workers,
           \/ CatalogStart(w) \/ CatalogDiscover(w) \/ CatalogList(w)
           \/ CatalogObsolete(w) \/ CatalogUpdate(w)
           \/ \E i \in Images : \/ CatalogCreateImage(w, i)
                                \/ CatalogDeleteImage(w, i)
                                \/ CatalogPublish(w, i),
           UNCHANGED <<controllerVars, admissionVars, reportVars>>
    PROVE  TypeOK'
  <1> USE DEF TypeOK, ClusterTypeOK, ControllerTypeOK, ReportTypeOK, jobVars,
              objectVars, queueVars, userVars, historyVars, controllerVars,
              admissionVars, reportVars
  <1> DEFINE u == UID(w)
             n == Name(w)
  <1>a. task[w] # NoTask /\ M(w).kind = "createCatalog"
    BY Zenon DEF CatalogStart, CatalogDiscover, CatalogList, CatalogObsolete,
           CatalogUpdate, CatalogCreateImage, CatalogDeleteImage,
           CatalogPublish, Handling, At
  <1>b. u \in UIDs /\ n \in Names
    BY Zenon, <1>a, MessageFacts
  <1>c. /\ local[w] \in Local
        /\ local[w].found \subseteq Images /\ local[w].existing \subseteq Images
        /\ local[w].todo \subseteq Images
    BY Zenon DEF WorkerTypeOK, Local
  <1>d. {"idle", "start", "discover", "list", "create", "delete", "status",
         "sbom", "publish", "report", "fail", "ack"} = PCs
    BY Zenon DEF PCs
  <1>e. ASSUME Live(u)
        PROVE  jobs[n] # NoJob /\ jobs[n] \in ScanJob /\ jobs[n].status \in Status
    BY ZenonT(30), <1>b, <1>e DEF Live, Name, ScanJob
  <1>1. CASE CatalogStart(w)
    <2>1. CASE ~Live(u) \/ JobFinished(StatusOf(u))
      <3>1. WorkerTypeOK'
        BY Zenon, <1>1, <1>d, <2>1, LocalType, NoImages DEF CatalogStart
      <3> QED BY Zenon, <1>1, <2>1, <3>1 DEF CatalogStart, QueueTypeOK
    <2>2. CASE Live(u) /\ ~JobFinished(StatusOf(u))
      <3>1. MarkInProgress(jobs[n].status, "CatalogCreationInProgress") \in Status
        BY Zenon, <1>e, <2>2, MarkType, ReasonFacts
      <3>2. jobs' \in [Names -> ScanJob \cup {NoJob}] /\ clock' \in Nat
        BY Zenon, <1>1, <1>b, <1>e, <2>2, <3>1, WriteStatusType
           DEF CatalogStart, StatusOf, Name
      <3>3. WorkerTypeOK'
        <4> DEFINE pc == IF jobs[n].snapshot THEN "discover" ELSE "fail"
                   b == jobs[n].target = "all"
        <4>1. pc \in PCs /\ b \in BOOLEAN
          BY Zenon, <1>d
        <4>2. local' = [local EXCEPT ![w] =
                           [local[w] EXCEPT !.pc = pc, !.whole = b]]
          BY Zenon, <1>1, <2>2 DEF CatalogStart, WorkerTypeOK
        <4> HIDE DEF pc, b
        <4>3. [local[w] EXCEPT !.pc = pc, !.whole = b] \in Local
          BY Zenon, <1>c, <4>1 DEF Local
        <4> QED BY Zenon, <4>2, <4>3 DEF WorkerTypeOK
      <3> QED BY Zenon, <1>1, <3>2, <3>3 DEF CatalogStart, QueueTypeOK
    <2> QED BY Zenon, <2>1, <2>2
  <1>2. CASE CatalogDiscover(w)
    <2> DEFINE f == IF local[w].whole THEN tags ELSE tags \cap Targeted
    <2>1. f \subseteq Images
      BY Zenon
    <2>2. local' = [local EXCEPT ![w] =
                       [local[w] EXCEPT !.pc = "list", !.found = f]]
      BY Zenon, <1>2 DEF CatalogDiscover, WorkerTypeOK
    <2> HIDE DEF f
    <2>3. [local[w] EXCEPT !.pc = "list", !.found = f] \in Local
      BY Zenon, <1>c, <1>d, <2>1 DEF Local
    <2> QED BY Zenon, <1>2, <2>2, <2>3 DEF CatalogDiscover, WorkerTypeOK, QueueTypeOK
  <1>3. CASE CatalogList(w)
    <2>1. local' = [local EXCEPT ![w] =
                       [local[w] EXCEPT !.pc = "create", !.existing = images,
                                        !.todo = local[w].found]]
      BY Zenon, <1>3 DEF CatalogList, WorkerTypeOK
    <2>2. [local[w] EXCEPT !.pc = "create", !.existing = images,
                           !.todo = local[w].found] \in Local
      BY Zenon, <1>c, <1>d DEF Local
    <2> QED BY ZenonT(30), <1>3, <2>1, <2>2 DEF CatalogList, WorkerTypeOK, QueueTypeOK
  <1>4. CASE CatalogObsolete(w)
    <2> DEFINE S == IF local[w].whole THEN local[w].existing \ local[w].found
                                      ELSE {}
    <2>1. S \subseteq Images /\ Enter(w, "delete", S, "status")
      BY Zenon, <1>4, <1>c DEF CatalogObsolete
    <2> HIDE DEF S
    <2>2. WorkerTypeOK'
      BY Zenon, <1>d, <2>1, LocalType
    <2> QED BY Zenon, <1>4, <2>2 DEF CatalogObsolete, QueueTypeOK
  <1>5. CASE CatalogUpdate(w)
    <2> DEFINE f == local[w].found
    <2>1. CASE ~Live(u)
      <3>1. WorkerTypeOK'
        BY Zenon, <1>5, <1>d, <2>1, LocalType, NoImages DEF CatalogUpdate
      <3> QED BY Zenon, <1>5, <2>1, <3>1 DEF CatalogUpdate, QueueTypeOK
    <2>2. CASE Live(u)
      <3> DEFINE s == CatalogStatus(StatusOf(u), f)
      <3>1. s \in Status
        BY Zenon, <1>c, <1>e, <2>2, CatalogStatusType DEF StatusOf, Name
      <3>2. jobs' \in [Names -> ScanJob \cup {NoJob}] /\ clock' \in Nat
        BY Zenon, <1>5, <1>b, <1>e, <2>2, <3>1, WriteStatusType DEF CatalogUpdate
      <3>3. counted' \in [UIDs -> Nat]
        <4>1. counted' = counted \/ RecordScanJobFinished(u, s)
          BY Zenon, <1>5, <2>2 DEF CatalogUpdate
        <4> QED BY Zenon, <1>b, <4>1, RecordEffect
      <3>4. /\ catalog' \in [UIDs -> SUBSET Images]
            /\ disturbed' \subseteq UIDs
            /\ labelled' \in [UIDs -> SUBSET Images]
        BY Zenon, <1>5, <1>b, <1>c, <2>2 DEF CatalogUpdate
      <3>5. WorkerTypeOK'
        BY Zenon, <1>5, <1>c, <1>d, <2>2, LocalType DEF CatalogUpdate
      <3> QED BY Zenon, <1>5, <3>2, <3>3, <3>4, <3>5 DEF CatalogUpdate, QueueTypeOK
    <2> QED BY Zenon, <2>1, <2>2
  <1>6. ASSUME NEW i \in Images, CatalogCreateImage(w, i)
        PROVE  TypeOK'
    <2>1. WorkerTypeOK'
      BY Zenon, <1>6, <1>d, LocalType, NoImages DEF CatalogCreateImage
    <2>2. images' \subseteq Images
      BY Zenon, <1>6 DEF CatalogCreateImage
    <2> QED BY Zenon, <1>6, <2>1, <2>2 DEF CatalogCreateImage, QueueTypeOK
  <1>7. ASSUME NEW i \in Images, CatalogDeleteImage(w, i)
        PROVE  TypeOK'
    <2>1. WorkerTypeOK'
      BY Zenon, <1>7, <1>d, LocalType, NoImages DEF CatalogDeleteImage
    <2>2. images' \subseteq Images /\ sboms' \in [Images -> Owned]
      BY Zenon, <1>7 DEF CatalogDeleteImage, Owned
    <2> QED BY Zenon, <1>7, <2>1, <2>2 DEF CatalogDeleteImage, QueueTypeOK
  <1>8. ASSUME NEW i \in Images, CatalogPublish(w, i)
        PROVE  TypeOK'
    <2>1. Message("generateSBOM", u, i) \in ScanMessages
      BY Zenon, <1>b DEF Message, ScanMessages
    <2>2. QueueTypeOK'
      BY Zenon, <1>8, <2>1, PublishType DEF CatalogPublish, QueueTypeOK
    <2>3. \/ Loop(w, i, "ack") /\ faults' = faults
          \/ Goto(w, "fail") /\ faults > 0 /\ faults' = faults - 1
      BY <1>8, Zenon DEF CatalogPublish, Answer, Fault
    <2>4. faults' \in Nat
      BY <2>3
    <2>5. WorkerTypeOK'
      <3>1. WorkerTypeOK /\ "ack" \in PCs /\ "fail" \in PCs /\ {} \subseteq Images
        BY Zenon, <1>d
      <3>2. Loop(w, i, "ack") => WorkerTypeOK'
        BY Zenon, <3>1, LocalType
      <3>3. Goto(w, "fail") => WorkerTypeOK'
        BY Zenon, <3>1, LocalType
      <3> QED BY Zenon, <2>3, <3>2, <3>3
    <2> QED BY Zenon, <1>8, <2>2, <2>4, <2>5 DEF CatalogPublish
  <1> QED BY Zenon, <1>1, <1>2, <1>3, <1>4, <1>5, <1>6, <1>7, <1>8

\* The steps of GenerateSBOMHandler and ScanSBOMHandler keep the types.
LEMMA TypeScan ==
    ASSUME TypeOK, NEW w \in Workers,
           \/ GenerateStart(w) \/ GenerateCreate(w) \/ GeneratePublish(w)
           \/ ScanStart(w)
           \/ \E newResults \in BOOLEAN : ScanReport(w, newResults),
           UNCHANGED <<controllerVars, admissionVars, reportVars>>
    PROVE  TypeOK'
  <1> USE DEF TypeOK, ClusterTypeOK, ControllerTypeOK, ReportTypeOK, jobVars,
              objectVars, queueVars, userVars, historyVars, controllerVars,
              admissionVars, reportVars
  <1> DEFINE u == UID(w)
             i == M(w).img
  <1>a. task[w] # NoTask /\ M(w).kind \in {"generateSBOM", "scanSBOM"}
    BY Zenon DEF GenerateStart, GenerateCreate, GeneratePublish, ScanStart,
           ScanReport, Handling, At
  <1>b. u \in UIDs /\ i \in Images
    BY Zenon, <1>a, MessageFacts
  <1>c. ASSUME NEW pc \in {"sbom", "publish", "report", "fail", "ack"},
               Goto(w, pc)
        PROVE  WorkerTypeOK'
    BY Zenon, <1>c, LocalType, NoImages DEF PCs
  <1>1. CASE GenerateStart(w)
    BY Zenon, <1>1, <1>c DEF GenerateStart, Disturb, QueueTypeOK
  <1>2. CASE GenerateCreate(w)
    BY Zenon, <1>2, <1>c DEF GenerateCreate, Owned, QueueTypeOK
  <1>3. CASE GeneratePublish(w)
    <2>1. Message("scanSBOM", u, i) \in ScanMessages
      BY Zenon, <1>b DEF Message, ScanMessages
    <2>2. QueueTypeOK'
      BY Zenon, <1>3, <2>1, PublishType DEF GeneratePublish, QueueTypeOK
    <2>3. WorkerTypeOK' /\ faults' \in Nat
      BY <1>3, <1>c DEF GeneratePublish, Answer, Fault
    <2> QED BY Zenon, <1>3, <2>2, <2>3 DEF GeneratePublish
  <1>4. CASE ScanStart(w)
    BY Zenon, <1>4, <1>c DEF ScanStart, Disturb, QueueTypeOK
  <1>5. ASSUME NEW newResults \in BOOLEAN, ScanReport(w, newResults)
        PROVE  TypeOK'
    <2>1. reports' \in [Images -> Report] /\ reportEvents' \subseteq Images
      BY Zenon, <1>5, <1>b DEF ScanReport, Report, Owned
    <2>2. WorkerTypeOK' /\ faults' \in Nat
      <3>1. Answer(w, Goto(w, "ack"))
        BY Zenon, <1>5 DEF ScanReport
      <3>2. CASE Goto(w, "ack") /\ UNCHANGED faults
        BY Zenon, <1>c, <3>2
      <3>3. CASE Fault /\ Goto(w, "fail")
        BY <1>c, <3>3 DEF Fault
      <3> QED BY Zenon, <3>1, <3>2, <3>3 DEF Answer
    <2>3. labelled' \in [UIDs -> SUBSET Images] /\ disturbed' \subseteq UIDs
      <3>1. labelled' = [labelled EXCEPT ![u] = labelled[u] \cup {i}]
        BY Zenon, <1>5 DEF ScanReport
      <3>2. Disturb({reports[i].uid} \ {u})
        BY Zenon, <1>5 DEF ScanReport
      <3>3. disturbed' \subseteq UIDs
        BY Zenon, <3>2 DEF Disturb
      <3>4. labelled[u] \cup {i} \subseteq Images
        BY Zenon, <1>b
      <3> QED BY Zenon, <1>b, <3>1, <3>3, <3>4
    <2> QED BY Zenon, <1>5, <2>1, <2>2, <2>3 DEF ScanReport, QueueTypeOK
  <1> QED BY Zenon, <1>1, <1>2, <1>3, <1>4, <1>5

-----------------------------------------------------------------------------

\* Every step of the scan keeps the types.
LEMMA TypeStep == TypeOK /\ [Next]_vars => TypeOK'
  <1> SUFFICES ASSUME TypeOK, [Next]_vars
               PROVE  TypeOK'
    BY Zenon
  <1>1. CASE Users \/ Environment \/ RestartController
    BY Zenon, <1>1, TypeEnvironment
  <1>2. ASSUME NEW n \in Names, WatchScanJob(n) \/ JobController(n)
        PROVE  TypeOK'
    BY Zenon, <1>2, TypeJobController
  <1>3. ASSUME NEW i \in Images, WatchReport(i) \/ CompletionController(i)
        PROVE  TypeOK'
    BY Zenon, <1>3, TypeCompletion
  <1>4. ASSUME NEW w \in Workers, Consume(w) \/ Failures(w)
        PROVE  TypeOK'
    BY Zenon, <1>4, TypeSubscriber, TypeCatalog, TypeScan DEF Consume, Failures, Handle
  <1>5. ASSUME NEW e \in Entries, Redelivery(e)
        PROVE  TypeOK'
    BY <1>5 DEF Redelivery, AckWaitElapsed, Redeliver, Fault, Delivery, TypeOK,
       ClusterTypeOK, ControllerTypeOK, QueueTypeOK, WorkerTypeOK, ReportTypeOK,
       jobVars, objectVars, userVars, historyVars, controllerVars,
       admissionVars, reportVars
  <1>6. CASE UNCHANGED vars
    BY Zenon, <1>6 DEF vars, TypeOK, ClusterTypeOK, ControllerTypeOK, QueueTypeOK,
       WorkerTypeOK, ReportTypeOK
  <1> QED BY Zenon, <1>1, <1>2, <1>3, <1>4, <1>5, <1>6 DEF Next

\* Type correctness: every reachable state of a registry scan is well-typed,
\* for all sets of jobs, images and workers and any number of faults.
THEOREM TypeCorrect == Spec => []TypeOK
  BY TypeInit, TypeStep, PTL DEF Spec

-----------------------------------------------------------------------------
(* Deleting jobs, writing a status, annotating, publishing.                *)

\* The jobs after a step are those before it, but for deletions.
OnlyDeletes ==
    \A m \in Names : jobs'[m] = jobs[m] \/ jobs'[m] = NoJob

\* A step adds to the disturbed jobs only jobs that have been created.
Disturbs ==
    disturbed \subseteq disturbed' /\ disturbed' \ disturbed \subseteq created

\* The message ids of catalogues are message ids.
LEMMA CatalogMessage ==
    ASSUME NEW u \in UIDs
    PROVE  /\ Message("createCatalog", u, NoImage) \in ScanMessages
           /\ Message("createCatalog", u, NoImage).uid = u
           /\ \A m \in ScanMessages : m.kind = "createCatalog"
                 => m = Message("createCatalog", m.uid, NoImage)
  BY DEF Message, ScanMessages

\* A new version is later than every version up to the clock.
LEMMA NewVersion ==
    ASSUME NEW c \in Nat
    PROVE  /\ c + 1 \in Nat /\ c + 1 <= c + 1
           /\ \A v \in Nat : v <= c => v <= c + 1 /\ v # c + 1
  OBVIOUS

\* The parts of a stored, cached or held job are well-formed.
LEMMA JobTypes ==
    ASSUME TypeOK
    PROVE  /\ clock \in Nat
           /\ \A m \in Names :
                 /\ jobs[m] # NoJob => /\ jobs[m] \in ScanJob /\ jobs[m].uid \in UIDs
                                       /\ jobs[m].rv \in Nat
                                       /\ jobs[m].status \in Status
                 /\ jobCache[m] # NoJob => jobCache[m].rv \in Nat
                 /\ rec[m] # NoRec => rec[m].rv \in Nat
  BY Zenon DEF TypeOK, ClusterTypeOK, ControllerTypeOK, ScanJob, Reconciliation

\* A step that deletes jobs at most and leaves the cache alone keeps the
\* invariant, if it keeps the three conjuncts about messages and held copies.
LEMMA DeletingStep ==
    ASSUME Inv, TypeOK', Causality', HeldCopies', Published',
           OnlyDeletes, Disturbs,
           UNCHANGED <<clock, jobCache, created, counted>>,
           registry' => registry,
           \A m \in Names : rec'[m] # NoRec => rec'[m].rv <= clock,
           \A u \in UIDs \ created : ~Catalogued(u)'
    PROVE  Inv'
  <1>1. Versions'
    BY Zenon DEF Inv, Versions, OnlyDeletes
  <1>2. Fresh'
    BY Zenon DEF Inv, Fresh, OnlyDeletes, Disturbs
  <1>3. CacheAgrees'
    BY Zenon DEF Inv, CacheAgrees, OnlyDeletes, Cached
  <1>4. Quiet'
    BY Zenon DEF Inv, Quiet, OnlyDeletes, Cached, CachedPending, Disturbs
  <1>5. CountedExactly'
    <2> SUFFICES ASSUME NEW u \in UIDs, Regular(u)'
                 PROVE  counted'[u] = IF JobFinished(StatusOf(u)') THEN 1 ELSE 0
      BY Zenon DEF CountedExactly
    <2>1. NameOf[u] \in Names
      BY Zenon, ClusterAssumption
    <2>2. jobs'[NameOf[u]] = jobs[NameOf[u]] /\ Regular(u)
      BY Zenon, <2>1 DEF Regular, Live, OnlyDeletes, Disturbs
    <2> QED BY Zenon, <2>2 DEF Inv, CountedExactly, StatusOf
  <1> QED BY Zenon, <1>1, <1>2, <1>3, <1>4, <1>5 DEF Inv

\* ... in particular if it leaves the held copies alone and no job is published
\* for the first time.
LEMMA PassiveStep ==
    ASSUME Inv, TypeOK', Causality', OnlyDeletes, Disturbs,
           UNCHANGED <<clock, jobCache, rec, created, counted>>,
           registry' => registry,
           \A u \in UIDs : Catalogued(u)' => Catalogued(u)
    PROVE  Inv'
  <1>1. HeldCopies'
    BY Zenon DEF Inv, HeldCopies, Current, OnlyDeletes, Disturbs
  <1>2. Published'
    <2> SUFFICES ASSUME NEW u \in UIDs, Catalogued(u)', Live(u)'
                 PROVE  /\ jobs'[NameOf[u]].snapshot
                        /\ jobCache'[NameOf[u]] # NoJob
                        /\ jobCache'[NameOf[u]].uid = u
                        /\ jobCache'[NameOf[u]].snapshot
      BY Zenon DEF Published
    <2>1. NameOf[u] \in Names
      BY Zenon, ClusterAssumption
    <2>2. Live(u) /\ jobs'[NameOf[u]] = jobs[NameOf[u]]
      BY Zenon, <2>1 DEF Live, OnlyDeletes
    <2> QED BY Zenon, <2>2 DEF Inv, Published
  <1>3. \A m \in Names : rec'[m] # NoRec => rec'[m].rv <= clock
    BY Zenon DEF Inv, Versions
  <1>4. \A u \in UIDs \ created : ~Catalogued(u)'
    BY Zenon DEF Inv, Fresh
  <1> QED BY Zenon, <1>1, <1>2, <1>3, <1>4, DeletingStep

\* What a status write does: it changes the status and the version at most.
LEMMA WriteEffect ==
    ASSUME TypeOK, NEW n \in Names, jobs[n] # NoJob, NEW s \in Status,
           WriteStatus(n, s)
    PROVE  /\ jobs'[n] # NoJob
           /\ jobs'[n].uid = jobs[n].uid /\ jobs'[n].status = s
           /\ jobs'[n].snapshot = jobs[n].snapshot
           /\ jobs'[n].target = jobs[n].target
           /\ \/ jobs'[n] = jobs[n] /\ clock' = clock
              \/ jobs'[n].rv = clock + 1 /\ clock' = clock + 1
           /\ \A m \in Names : m # n => jobs'[m] = jobs[m]
  <1>1. CASE jobs[n].status = s
    BY Zenon, <1>1 DEF WriteStatus, jobVars
  <1>2. CASE jobs[n].status # s
    <2> DEFINE j == jobs[n]
               k == [j EXCEPT !.status = s, !.rv = clock + 1]
    <2>1. /\ jobs \in [Names -> ScanJob \cup {NoJob}]
          /\ j \in ScanJob /\ clock + 1 \in Nat
      BY DEF TypeOK, ClusterTypeOK
    <2>2. clock' = clock + 1 /\ jobs' = [jobs EXCEPT ![n] = k]
      BY Zenon, <1>2, <2>1 DEF WriteStatus
    <2>3. k \in ScanJob
      <3> HIDE DEF j
      <3> QED BY Zenon, <2>1 DEF ScanJob
    <2>4. /\ k.uid = j.uid /\ k.status = s /\ k.snapshot = j.snapshot
          /\ k.target = j.target /\ k.rv = clock + 1
      BY Zenon, <2>1 DEF ScanJob
    <2> HIDE DEF k
    <2>5. k # NoJob
      BY Zenon, <2>3, ClusterAssumption
    <2> QED BY Zenon, <2>1, <2>2, <2>4, <2>5
  <1> QED BY Zenon, <1>1, <1>2

\* A status write keeps the invariant, if the completion metric agrees and the
\* controller does not take a job that leaves the pending state for one that
\* is still to be annotated.
LEMMA StatusWrite ==
    ASSUME Inv, TypeOK', Causality', Disturbs,
           NEW n \in Names, jobs[n] # NoJob, NEW s \in Status,
           WriteStatus(n, s),
           rec' = rec \/ rec' = [rec EXCEPT ![n] = NoRec],
           UNCHANGED <<jobCache, created, registry, published>>,
           \/ IsPending(s) \/ ~IsPending(jobs[n].status)
           \/ Catalogued(jobs[n].uid) \/ jobs[n].uid \in disturbed'
           \/ /\ jobCache[n] = jobs[n]
              /\ ~registry \/ jobs[n].target \in Undeclared \/ jobs[n].snapshot,
           \A v \in UIDs : v # jobs[n].uid => counted'[v] = counted[v],
           jobs[n].uid \notin disturbed'
              => counted'[jobs[n].uid] = IF JobFinished(s) THEN 1 ELSE 0
    PROVE  Inv'
  <1> DEFINE u == jobs[n].uid
  <1>1. clock \in Nat /\ u \in UIDs /\ u \in created /\ NameOf[u] = n
    BY Zenon, JobTypes DEF Inv, Versions, Fresh
  <1>2. /\ jobs'[n] # NoJob /\ jobs'[n].uid = u /\ jobs'[n].status = s
        /\ jobs'[n].snapshot = jobs[n].snapshot
        /\ jobs'[n].target = jobs[n].target
        /\ \/ jobs'[n] = jobs[n] /\ clock' = clock
           \/ jobs'[n].rv = clock + 1 /\ clock' = clock + 1
        /\ \A m \in Names : m # n => jobs'[m] = jobs[m]
    BY Zenon, WriteEffect DEF Inv
  <1>a. \A m \in Names : rec'[m] # NoRec => rec[m] # NoRec /\ rec'[m] = rec[m]
    BY Zenon DEF Inv, TypeOK, ControllerTypeOK
  <1>b. \A m \in Names :
           /\ jobCache[m] # NoJob => jobCache[m].rv # clock + 1
           /\ rec[m] # NoRec => rec[m].rv # clock + 1
    BY Zenon, <1>1, JobTypes, NewVersion DEF Inv, Versions
  <1>3. Versions'
    <2> SUFFICES ASSUME NEW m \in Names
                 PROVE  /\ jobs'[m] # NoJob
                              => NameOf[jobs'[m].uid] = m /\ jobs'[m].rv <= clock'
                        /\ jobCache[m] # NoJob
                              => NameOf[jobCache[m].uid] = m
                                 /\ jobCache[m].rv <= clock'
                        /\ rec'[m] # NoRec => rec'[m].rv <= clock'
      BY Zenon DEF Versions
    <2>1. \A v \in Nat : v <= clock => v <= clock'
      <3>1. \A v \in Nat : v <= clock => v <= clock + 1
        BY Zenon, <1>1, NewVersion
      <3>2. clock' = clock \/ clock' = clock + 1
        BY Zenon, <1>2
      <3>3. CASE clock' = clock
        BY Zenon, <3>3
      <3>4. CASE clock' = clock + 1
        BY Zenon, <3>1, <3>4
      <3> QED BY Zenon, <3>2, <3>3, <3>4
    <2>2. jobs[m] # NoJob => /\ NameOf[jobs[m].uid] = m
                             /\ jobs[m].rv \in Nat /\ jobs[m].rv <= clock
      BY Zenon, JobTypes DEF Inv, Versions
    <2>3. /\ jobCache[m] # NoJob
                => NameOf[jobCache[m].uid] = m /\ jobCache[m].rv <= clock'
          /\ rec'[m] # NoRec => rec'[m].rv <= clock'
      BY Zenon, <1>a, <2>1, JobTypes DEF Inv, Versions
    <2>4. CASE m = n
      <3>1. clock + 1 <= clock + 1
        BY Zenon, <1>1, NewVersion
      <3>2. jobs'[n].rv <= clock'
        BY Zenon, <1>2, <2>1, <2>2, <2>4, <3>1
      <3> QED BY Zenon, <1>1, <1>2, <2>3, <2>4, <3>2
    <2>5. CASE m # n
      BY Zenon, <1>2, <2>1, <2>2, <2>3, <2>5
    <2> QED BY Zenon, <2>4, <2>5
  <1>4. Fresh'
    BY Zenon, <1>1, <1>2 DEF Inv, Fresh, Disturbs, Catalogued
  <1>5. CacheAgrees'
    <2>1. Cached(n)' /\ jobCache[n].rv = jobs'[n].rv => jobs'[n] = jobs[n]
      BY Zenon, <1>2, <1>b DEF Cached
    <2>2. \A m \in Names : Cached(m)' => Cached(m)
      BY Zenon, <1>2 DEF Cached
    <2>3. \A m \in Names : Cached(m)' /\ jobCache[m].rv = jobs'[m].rv
                              => jobs'[m] = jobs[m]
      BY Zenon, <1>2, <2>1
    <2>4. \A m \in Names : Cached(m)' => /\ jobs'[m].uid = jobs[m].uid
                                         /\ jobs'[m].target = jobs[m].target
                                         /\ jobs'[m].snapshot = jobs[m].snapshot
      BY Zenon, <1>2
    <2> QED BY ZenonT(30), <2>2, <2>3, <2>4 DEF Inv, CacheAgrees
  <1>6. Published'
    <2>1. \A v \in UIDs : NameOf[v] \in Names
      BY Zenon, ClusterAssumption
    <2>2. \A m \in Names : jobs'[m] # NoJob =>
             /\ jobs[m] # NoJob /\ jobs'[m].uid = jobs[m].uid
             /\ jobs'[m].snapshot = jobs[m].snapshot
      BY Zenon, <1>2
    <2> QED BY Zenon, <2>1, <2>2 DEF Inv, Published, Catalogued, Live
  <1>7. Quiet'
    <2> SUFFICES ASSUME NEW m \in Names, Cached(m)', CachedPending(m),
                        ~jobCache[m].snapshot, registry,
                        jobCache[m].target \notin Undeclared,
                        ~IsPending(jobs'[m].status)
                 PROVE  jobs'[m].uid \in disturbed'
      BY Zenon DEF Quiet, CachedPending
    <2>1. /\ Cached(m) /\ jobs'[m].uid = jobs[m].uid
          /\ m # n => jobs'[m] = jobs[m]
      BY Zenon, <1>2 DEF Cached
    <2>2. CASE ~IsPending(jobs[m].status)
      BY Zenon, <2>1, <2>2 DEF Inv, Quiet, Disturbs
    <2>3. CASE IsPending(jobs[m].status)
      <3>1. m = n /\ ~IsPending(s)
        BY Zenon, <1>2, <2>1, <2>3
      <3>2. ~Catalogued(u)
        BY ZenonT(30), <1>1, <3>1 DEF Inv, Published, Live
      <3> QED BY Zenon, <1>2, <2>3, <3>1, <3>2
    <2> QED BY Zenon, <2>2, <2>3
  <1>8. HeldCopies'
    <2>1. \A m \in Names : Current(m)' => /\ Current(m) /\ rec'[m] = rec[m]
                                          /\ jobs'[m] = jobs[m]
      BY ZenonT(30), <1>2, <1>a, <1>b DEF Current
    <2> QED BY Zenon, <2>1 DEF Inv, HeldCopies, Disturbs
  <1>9. CountedExactly'
    <2> SUFFICES ASSUME NEW v \in UIDs, Regular(v)'
                 PROVE  counted'[v] = IF JobFinished(StatusOf(v)') THEN 1 ELSE 0
      BY Zenon DEF CountedExactly
    <2>1. CASE v = u
      BY Zenon, <1>1, <1>2, <2>1 DEF Regular, StatusOf
    <2>2. CASE v # u
      <3>1. NameOf[v] \in Names
        BY Zenon, ClusterAssumption
      <3>2. NameOf[v] # n
        BY Zenon, <1>2, <2>2 DEF Regular, Live
      <3>3. Regular(v) /\ StatusOf(v)' = StatusOf(v)
        BY Zenon, <1>2, <3>1, <3>2 DEF Regular, Live, StatusOf, Disturbs
      <3> QED BY Zenon, <2>2, <3>3 DEF Inv, CountedExactly
    <2> QED BY Zenon, <2>1, <2>2
  <1> QED BY Zenon, <1>3, <1>4, <1>5, <1>6, <1>7, <1>8, <1>9 DEF Inv

\* Publishing a first message, or a message of a job that has had its first,
\* keeps what is in the queue behind the first messages of the jobs.
LEMMA PublishCause ==
    ASSUME Inv, NEW m \in ScanMessages, Publish(m),
           Catalogued(m.uid) \/ m.kind = "createCatalog"
    PROVE  /\ \A u \in UIDs : Catalogued(u) => Catalogued(u)'
           /\ \A u \in UIDs : Catalogued(u)' => Catalogued(u) \/ u = m.uid
           /\ Catalogued(m.uid)'
           /\ \A k \in ScanMessages : published'[k] > 0 => Catalogued(k.uid)'
           /\ \A e \in Entries : InStream(e)' => Catalogued(e[1].uid)'
  <1>1. /\ published \in [ScanMessages -> 0..MaxCopies] /\ MaxCopies \in Nat
        /\ stream \in [Entries -> Delivery]
    BY Zenon, ClusterAssumption DEF Inv, TypeOK, ClusterTypeOK, QueueTypeOK
  <1>2. /\ \A k \in ScanMessages : k # m => published'[k] = published[k]
        /\ published'[m] > 0
        /\ \A e \in Entries : InStream(e)' => InStream(e) \/ e[1] = m
    BY <1>1 DEF Publish, Store, InStream, Entries
  <1>3. m.uid \in UIDs
    BY Zenon DEF ScanMessages
  <1>4. m.kind = "createCatalog" => m = Message("createCatalog", m.uid, NoImage)
    BY Zenon, <1>3, CatalogMessage
  <1>5. \A u \in UIDs : Catalogued(u) => Catalogued(u)'
    BY Zenon, <1>2, CatalogMessage DEF Catalogued
  <1>6. \A u \in UIDs : Catalogued(u)' => Catalogued(u) \/ u = m.uid
    BY Zenon, <1>2, CatalogMessage DEF Catalogued
  <1>7. Catalogued(m.uid)'
    BY Zenon, <1>2, <1>3, <1>4, <1>5 DEF Catalogued
  <1>8. \A k \in ScanMessages : k.uid \in UIDs
    BY Zenon DEF ScanMessages
  <1>9. \A e \in Entries : e[1] \in ScanMessages
    BY Zenon DEF Entries
  <1> QED BY Zenon, <1>2, <1>5, <1>6, <1>7, <1>8, <1>9 DEF Inv, Causality

\* A reconciliation that holds a copy of the cached pending job, with what it
\* means to write, keeps HeldCopies.
LEMMA HoldCopy ==
    ASSUME Inv, OnlyDeletes, NEW n \in Names, CachedPending(n),
           NEW s \in Status, NEW retry, Hold(n, jobCache[n].rv, s, retry),
           UNCHANGED <<jobCache, disturbed, registry>>,
           IsFailed(s) => ~registry \/ jobCache[n].target \in Undeclared,
           ~IsPending(s) /\ ~IsFailed(s) => jobCache[n].snapshot
    PROVE  /\ HeldCopies'
           /\ \A m \in Names : rec'[m] # NoRec => rec'[m].rv <= clock
  <1>1. /\ rec'[n].rv = jobCache[n].rv /\ rec'[n].status = s
        /\ \A m \in Names : m # n => rec'[m] = rec[m]
    BY Zenon DEF Hold, Inv, TypeOK, ControllerTypeOK
  <1>2. \A m \in Names : m # n /\ Current(m)' => Current(m) /\ jobs'[m] = jobs[m]
    BY Zenon, <1>1 DEF Current, OnlyDeletes
  <1>3. Current(n)' => jobs'[n] = jobs[n] /\ jobCache[n] = jobs[n]
    BY Zenon, <1>1 DEF Inv, Current, OnlyDeletes, CacheAgrees, Cached, CachedPending
  <1>4. HeldCopies'
    BY ZenonT(30), <1>1, <1>2, <1>3 DEF Inv, HeldCopies, CachedPending
  <1>5. \A m \in Names : rec'[m] # NoRec => rec'[m].rv <= clock
    BY ZenonT(30), <1>1 DEF Inv, Versions, CachedPending
  <1> QED BY Zenon, <1>4, <1>5

\* A step that annotates the job n, held from then on in the annotated
\* version, and deletes other jobs at most, keeps the invariant.
LEMMA SnapshotStep ==
    ASSUME Inv, TypeOK', Causality',
           UNCHANGED <<jobCache, created, registry, disturbed, counted>>,
           \A u \in UIDs : Catalogued(u)' => Catalogued(u),
           clock' = clock + 1,
           NEW n \in Names, jobs[n] # NoJob,
           jobs'[n] = Annotated(jobs[n], clock + 1),
           \A m \in Names : m # n => jobs'[m] \in {jobs[m], NoJob},
           rec'[n].rv = clock + 1,
           \A m \in Names : m # n => rec'[m] = rec[m],
           \/ IsPending(rec'[n].status) /\ IsPending(jobs[n].status)
           \/ jobs[n].uid \in disturbed /\ rec'[n].status = jobs[n].status
    PROVE  Inv'
  <1>1. jobs[n] \in ScanJob /\ clock \in Nat /\ clock + 1 \in Nat
    BY Zenon DEF Inv, TypeOK, ClusterTypeOK
  <1>2. /\ jobs'[n].uid = jobs[n].uid /\ jobs'[n].rv = clock + 1
        /\ jobs'[n].snapshot = TRUE /\ jobs'[n].target = jobs[n].target
        /\ jobs'[n].status = jobs[n].status
    <2> DEFINE k == Annotated(jobs[n], clock + 1)
    <2>1. /\ k.uid = jobs[n].uid /\ k.rv = clock + 1
          /\ k.snapshot = TRUE /\ k.target = jobs[n].target
          /\ k.status = jobs[n].status
      BY Zenon, <1>1, AnnotatedFacts
    <2>2. jobs'[n] = k
      BY Zenon
    <2> HIDE DEF k
    <2> QED BY Zenon, <2>1, <2>2
  <1>3. \A m \in Names : jobs'[m] # NoJob =>
           /\ jobs[m] # NoJob /\ jobs'[m].uid = jobs[m].uid
           /\ jobs'[m].target = jobs[m].target
           /\ jobs'[m].status = jobs[m].status
           /\ jobs[m].snapshot => jobs'[m].snapshot
           /\ m # n => jobs'[m] = jobs[m]
    BY Zenon, <1>2
  <1>4. \A u \in UIDs : NameOf[u] \in Names
    BY Zenon, ClusterAssumption
  <1>5. \A u \in UIDs : Live(u)' => Live(u)
    BY Zenon, <1>3, <1>4 DEF Live
  <1>6. Versions'
    <2>1. \A m \in Names :
             /\ jobCache[m] # NoJob => jobCache[m].rv \in Nat
             /\ rec[m] # NoRec => rec[m].rv \in Nat
             /\ jobs[m] # NoJob => jobs[m].rv \in Nat
      BY Zenon DEF Inv, TypeOK, ClusterTypeOK, ControllerTypeOK, ScanJob,
         Reconciliation
    <2> SUFFICES ASSUME NEW m \in Names
                 PROVE  /\ jobs'[m] # NoJob
                              => NameOf[jobs'[m].uid] = m /\ jobs'[m].rv <= clock + 1
                        /\ jobCache[m] # NoJob
                              => NameOf[jobCache[m].uid] = m
                                 /\ jobCache[m].rv <= clock + 1
                        /\ rec'[m] # NoRec => rec'[m].rv <= clock + 1
      BY Zenon DEF Versions
    <2>2. \A v \in Nat : v <= clock => v <= clock + 1
      BY <1>1
    <2>3. clock + 1 <= clock + 1
      BY <1>1
    <2>4. jobs[m] # NoJob => NameOf[jobs[m].uid] = m /\ jobs[m].rv <= clock
      BY Zenon DEF Inv, Versions
    <2>5. /\ jobCache[m] # NoJob
                => NameOf[jobCache[m].uid] = m /\ jobCache[m].rv <= clock
          /\ rec[m] # NoRec => rec[m].rv <= clock
      BY Zenon DEF Inv, Versions
    <2>6. jobs'[m] # NoJob
             => NameOf[jobs'[m].uid] = m /\ jobs'[m].rv <= clock + 1
      <3>1. CASE m = n
        BY Zenon, <1>2, <2>3, <2>4, <3>1
      <3>2. CASE m # n
        BY Zenon, <1>3, <2>1, <2>2, <2>4, <3>2
      <3> QED BY Zenon, <3>1, <3>2
    <2>7. rec'[m] # NoRec => rec'[m].rv <= clock + 1
      <3>1. CASE m = n
        BY Zenon, <2>3, <3>1
      <3>2. CASE m # n
        BY Zenon, <2>1, <2>2, <2>5, <3>2
      <3> QED BY Zenon, <3>1, <3>2
    <2> QED BY Zenon, <2>1, <2>2, <2>5, <2>6, <2>7
  <1>7. Fresh'
    BY Zenon, <1>3 DEF Inv, Fresh
  <1>8. CacheAgrees'
    <2>1. jobCache[n] # NoJob => jobCache[n].rv # clock + 1
      <3>1. jobCache[n] # NoJob => jobCache[n] \in ScanJob /\ jobCache[n].rv <= clock
        BY Zenon, <1>1 DEF Inv, Versions, TypeOK, ControllerTypeOK
      <3>2. clock \in Nat
        BY Zenon, <1>1 DEF TypeOK, ClusterTypeOK
      <3> QED BY <3>1, <3>2 DEF ScanJob
    <2>2. Cached(n)' => jobCache[n].rv # jobs'[n].rv
      BY Zenon, <1>2, <2>1 DEF Cached
    <2>3. Cached(n)' => jobs'[n].snapshot
      BY Zenon, <1>2
    <2> SUFFICES ASSUME NEW m \in Names, Cached(m)'
                 PROVE  /\ jobCache[m].rv = jobs'[m].rv => jobCache[m] = jobs'[m]
                        /\ jobCache[m].uid = jobs'[m].uid
                              => /\ jobCache[m].target = jobs'[m].target
                                 /\ jobCache[m].snapshot => jobs'[m].snapshot
      BY Zenon DEF CacheAgrees
    <2>4. /\ Cached(m) /\ jobs'[m].uid = jobs[m].uid
          /\ jobs'[m].target = jobs[m].target
          /\ m # n => jobs'[m] = jobs[m]
      BY Zenon, <1>3 DEF Cached
    <2>5. /\ jobCache[m].rv = jobs[m].rv => jobCache[m] = jobs[m]
          /\ jobCache[m].uid = jobs[m].uid
                => /\ jobCache[m].target = jobs[m].target
                   /\ jobCache[m].snapshot => jobs[m].snapshot
      BY Zenon, <2>4 DEF Inv, CacheAgrees
    <2> QED BY Zenon, <2>2, <2>3, <2>4, <2>5
  <1>9. Published'
    BY Zenon, <1>3, <1>4, <1>5 DEF Inv, Published, Live
  <1>10. Quiet'
    BY Zenon, <1>3 DEF Inv, Quiet, Cached, CachedPending
  <1>11. HeldCopies'
    <2> SUFFICES ASSUME NEW m \in Names, Current(m)'
                 PROVE  \/ /\ jobCache[m] = jobs'[m]
                           /\ IsPending(jobs'[m].status)
                           /\ IsFailed(rec'[m].status)
                                 => ~registry \/ jobs'[m].target \in Undeclared
                           /\ ~IsPending(rec'[m].status) /\ ~IsFailed(rec'[m].status)
                                 => jobs'[m].snapshot
                        \/ IsPending(rec'[m].status) /\ IsPending(jobs'[m].status)
                        \/ /\ jobs'[m].uid \in disturbed
                           /\ rec'[m].status = jobs'[m].status
      BY Zenon DEF HeldCopies
    <2>1. CASE m = n
      <3>1. /\ jobs'[m].status = jobs[n].status
            /\ jobs'[m].uid = jobs[n].uid /\ rec'[m] = rec'[n]
        BY Zenon, <1>2, <2>1
      <3> QED BY Zenon, <3>1
    <2>2. CASE m # n
      <3>1. Current(m) /\ jobs'[m] = jobs[m] /\ rec'[m] = rec[m]
        BY Zenon, <1>3, <2>2 DEF Current
      <3> QED BY Zenon, <3>1 DEF Inv, HeldCopies
    <2> QED BY Zenon, <2>1, <2>2
  <1>12. CountedExactly'
    <2>1. \A u \in UIDs : Regular(u)' => Regular(u) /\ StatusOf(u)' = StatusOf(u)
      BY Zenon, <1>3, <1>4, <1>5 DEF Regular, Live, StatusOf
    <2> QED BY Zenon, <2>1 DEF Inv, CountedExactly
  <1> QED BY Zenon, <1>6, <1>7, <1>8, <1>9, <1>10, <1>11, <1>12 DEF Inv

\* A step that publishes nothing keeps Causality, if what it takes from the
\* stream and what it labels belongs to a published job.
LEMMA UnpublishedStep ==
    ASSUME Inv, UNCHANGED <<published, reportCache>>,
           \A e \in Entries : InStream(e)' => InStream(e),
           \A w \in Workers : task'[w] # NoTask =>
              \/ task'[w] = task[w]
              \/ task'[w].entry \in Entries /\ InStream(task'[w].entry),
           \A i \in Images : reports'[i].uid # NoUID =>
              reports'[i].uid = reports[i].uid \/ Catalogued(reports'[i].uid)
    PROVE  Causality'
  <1>1. \A u : Catalogued(u)' <=> Catalogued(u)
    BY Zenon DEF Catalogued
  <1> QED BY Zenon, <1>1 DEF Inv, Causality

\* The job of the message a worker handles has been published.
LEMMA WorkerCause ==
    ASSUME Inv, NEW w \in Workers, task[w] # NoTask
    PROVE  UID(w) \in UIDs /\ Name(w) \in Names /\ Catalogued(UID(w))
  BY Zenon, MessageFacts DEF Inv, Causality, UID, M

\* A step of a worker that writes no ScanJob keeps the invariant.
LEMMA WorkerStep ==
    ASSUME Inv, TypeOK', Causality', Disturbs,
           UNCHANGED <<jobs, clock, registry, counted>>,
           UNCHANGED <<controllerVars, admissionVars>>,
           \A u \in UIDs : Catalogued(u)' => Catalogued(u)
    PROVE  Inv'
  BY Zenon, PassiveStep DEF OnlyDeletes, controllerVars, admissionVars

\* Marking jobs as disturbed marks jobs that exist.
LEMMA DisturbExisting ==
    ASSUME Inv, NEW S, Disturb(S)
    PROVE  Disturbs
  BY Zenon, ClusterAssumption DEF Disturb, Disturbs, Live, Inv, Fresh

\* A message published for the job of the message being handled adds no job to
\* the published ones.
LEMMA PublishingStep ==
    ASSUME Inv, NEW w \in Workers, task[w] # NoTask,
           NEW m \in ScanMessages, m.uid = UID(w), Publish(m),
           UNCHANGED <<task, reports, reportCache>>
    PROVE  Causality' /\ \A u \in UIDs : Catalogued(u)' => Catalogued(u)
  <1>1. Catalogued(m.uid)
    BY Zenon, WorkerCause
  <1>2. /\ \A u \in UIDs : Catalogued(u) => Catalogued(u)'
        /\ \A u \in UIDs : Catalogued(u)' => Catalogued(u)
        /\ \A k \in ScanMessages : published'[k] > 0 => Catalogued(k.uid)'
        /\ \A e \in Entries : InStream(e)' => Catalogued(e[1].uid)'
    BY Zenon, <1>1, PublishCause
  <1>3. \A v \in Workers : task[v] # NoTask => task[v].entry[1].uid \in UIDs
    BY Zenon, MessageFacts DEF UID, M, Inv
  <1>4. \A i \in Images : /\ reports[i].uid # NoUID => reports[i].uid \in UIDs
                          /\ reportCache[i] # NoUID => reportCache[i] \in UIDs
    BY Zenon DEF Inv, TypeOK, ClusterTypeOK, ReportTypeOK, Report
  <1> QED BY Zenon, <1>2, <1>3, <1>4 DEF Inv, Causality

-----------------------------------------------------------------------------
(* The queue.                                                              *)

\* What every step does to the queue: a message once published stays so, a
\* message published for the first time is in the stream, what is in the
\* stream was published, it leaves the stream with an acknowledgement only,
\* and a worker starts on what is in the stream.
QueueMoves ==
    /\ \A m \in ScanMessages :
          /\ published[m] > 0 => published'[m] > 0
          /\ published'[m] > 0 => published[m] > 0 \/ Stored(m)'
    /\ \A e \in Entries :
          /\ InStream(e)' => InStream(e) \/ published'[e[1]] > 0
          /\ InStream(e) => \/ InStream(e)'
                            \/ \E w \in Workers : At(w, "ack") /\ task[w].entry = e
    /\ \A w \in Workers :
          task'[w] # NoTask => \/ task'[w] = task[w]
                               \/ task'[w].entry \in Entries /\ InStream(task'[w].entry)

\* The state of the queue is well-formed.
LEMMA QueueTypes ==
    ASSUME TypeOK
    PROVE  /\ published \in [ScanMessages -> 0..MaxCopies] /\ MaxCopies \in Nat \ {0}
           /\ stream \in [Entries -> Delivery]
           /\ task \in [Workers -> Task \cup {NoTask}]
  BY Zenon, ClusterAssumption DEF TypeOK, ClusterTypeOK, QueueTypeOK

\* A step that leaves the queue alone.
LEMMA QueueStill ==
    ASSUME UNCHANGED <<published, stream, task>>
    PROVE  QueueMoves
  BY Zenon DEF QueueMoves, InStream

\* Publishing stores the message, or a copy of it was published before.
LEMMA PublishMoves ==
    ASSUME TypeOK, NEW m \in ScanMessages, Publish(m), UNCHANGED task
    PROVE  QueueMoves /\ published'[m] > 0
  <1>1. /\ published \in [ScanMessages -> 0..MaxCopies] /\ MaxCopies \in Nat \ {0}
        /\ stream \in [Entries -> Delivery]
    BY Zenon, QueueTypes
  <1>2. CASE published[m] > 0 /\ UNCHANGED <<published, stream>>
    BY Zenon, <1>2, QueueStill
  <1>3. CASE Store(m)
    <2>0. PICK c \in 1..MaxCopies : c = published[m] + 1
      BY <1>1, <1>3 DEF Store
    <2>1. /\ <<m, c>> \in Entries
          /\ published' = [published EXCEPT ![m] = c]
          /\ stream' = [stream EXCEPT ![<<m, c>>] = [st |-> "ready", n |-> 0]]
      BY <1>1, <1>3, <2>0 DEF Store, Entries
    <2>2. c > 0
      BY <1>1
    <2>3. /\ published'[m] = c /\ \A k \in ScanMessages : k # m => published'[k] = published[k]
          /\ stream'[<<m, c>>].st = "ready"
          /\ \A e \in Entries : e # <<m, c>> => stream'[e] = stream[e]
      BY Zenon, <1>1, <2>1
    <2>4. InStream(<<m, c>>)' /\ Stored(m)'
      BY Zenon, <2>3 DEF InStream, Stored
    <2>5. <<m, c>>[1] = m
      OBVIOUS
    <2> QED BY Zenon, <2>2, <2>3, <2>4, <2>5 DEF QueueMoves, InStream
  <1> QED BY Zenon, <1>2, <1>3 DEF Publish

\* A delivery hands an entry of the stream to a worker.
LEMMA DeliverMoves ==
    ASSUME TypeOK, NEW w \in Workers, NEW e \in Entries, Deliver(w, e)
    PROVE  QueueMoves
  <1>1. stream \in [Entries -> Delivery] /\ task \in [Workers -> Task \cup {NoTask}]
    BY Zenon, QueueTypes
  <1>2. /\ InStream(e) /\ InStream(e)'
        /\ \A f \in Entries : f # e => stream'[f] = stream[f]
    BY Zenon, <1>1 DEF Deliver, InStream
  <1>3. /\ task'[w].entry = e /\ \A v \in Workers : v # w => task'[v] = task[v]
        /\ published' = published
    BY Zenon, <1>1 DEF Deliver
  <1> QED BY Zenon, <1>2, <1>3 DEF QueueMoves, InStream

\* An entry that is due again stays in the stream.
LEMMA RedeliverMoves ==
    ASSUME TypeOK, NEW e \in Entries, Redeliver(e)
    PROVE  QueueMoves
  <1>1. stream \in [Entries -> Delivery]
    BY Zenon, QueueTypes
  <1>2. /\ InStream(e) /\ InStream(e)'
        /\ \A f \in Entries : f # e => stream'[f] = stream[f]
    BY Zenon, <1>1 DEF Redeliver, InStream, Delivery
  <1>3. UNCHANGED <<published, task>>
    BY Zenon DEF Redeliver
  <1> QED BY Zenon, <1>2, <1>3 DEF QueueMoves, InStream

\* A worker lets go of its entry; only an acknowledgement removes it.
LEMMA ReleaseMoves ==
    ASSUME TypeOK, NEW w \in Workers, task[w] # NoTask,
           (At(w, "ack") /\ Ack(w)) \/ Nak(w) \/ Abandon(w)
    PROVE  QueueMoves /\ task'[w] = NoTask
  <1>1. stream \in [Entries -> Delivery] /\ task \in [Workers -> Task \cup {NoTask}]
    BY Zenon, QueueTypes
  <1>2. PICK e \in Entries : e = task[w].entry
    BY Zenon, MessageFacts
  <1>3. /\ task'[w] = NoTask /\ \A v \in Workers : v # w => task'[v] = task[v]
        /\ published' = published
    BY Zenon, <1>1 DEF Ack, Nak, Abandon
  <1>4. \A f \in Entries : f # e => stream'[f] = stream[f]
    BY Zenon, <1>1, <1>2 DEF Ack, Nak, Abandon
  <1>5. /\ InStream(e)' => InStream(e)
        /\ InStream(e) => InStream(e)' \/ At(w, "ack")
    <2>1. CASE Ack(w) /\ At(w, "ack")
      BY Zenon, <1>1, <1>2, <2>1 DEF Ack, InStream, Delivery
    <2>2. CASE Nak(w)
      BY Zenon, <1>1, <1>2, <2>2 DEF Nak, InStream, Delivery
    <2>3. CASE Abandon(w)
      BY Zenon, <2>3 DEF Abandon, InStream
    <2> QED BY Zenon, <2>1, <2>2, <2>3
  <1> QED BY Zenon, <1>2, <1>3, <1>4, <1>5 DEF QueueMoves, InStream

-----------------------------------------------------------------------------
(* The jobs.                                                               *)

\* The empty set has no members.
LEMMA EmptyCount == Cardinality({}) = 0
  <1> DEFINE D == SUBSET {}
             G(f) == [T \in D |-> IF T = {} THEN 0 ELSE 1 + f[T \ {CHOOSE x : x \in T}]]
             z == [T \in D |-> 0]
             CS == CHOOSE f : f = G(f)
  <1>1. \A T \in D : T = {}
    OBVIOUS
  <1>2. z = G(z)
    BY <1>1
  <1>3. CS = G(CS)
    BY Zenon, <1>2
  <1>4. CS[{}] = 0
    <2>1. {} \in D
      OBVIOUS
    <2>2. G(CS)[{}] = 0
      BY Zenon, <2>1
    <2> QED BY Zenon, <1>3, <2>2
  <1>5. Cardinality({}) = CS[{}]
    BY Zenon DEF Cardinality
  <1> QED BY <1>4, <1>5

\* The history of a job only grows.
Grows ==
    /\ disturbed \subseteq disturbed'
    /\ \A u \in UIDs : /\ Catalogued(u) => Catalogued(u)'
                       /\ labelled[u] \subseteq labelled'[u]

\* What is settled stays settled, unless it is an object still to be created.
SettledStays == \A u \in created : Settled(u) => Settled(u)'

\* The conjuncts of Progress about the jobs and the controller.
JobFacts == Counts /\ OnItsWay /\ NoPrematureCompletion

\* All images of the catalogue were scanned, and status s counts them.
AllScanned(u, s) ==
    /\ catalog[u] # {}
    /\ catalog[u] \subseteq labelled[u]
    /\ s.scannedImagesCount = Cardinality(catalog[u])
    /\ s.imagesCount = Cardinality(catalog[u])

\* A status that claims all images were scanned.
Claims(s) == s.reason = "AllImagesScanned"

\* A step that deletes jobs at most.
LEMMA JobsDeleted ==
    ASSUME TypeOK, JobFacts, OnlyDeletes, Grows, UNCHANGED <<jobCache, jobQueue, rec, catalog>>
    PROVE  JobFacts' /\ SettledStays
  <1>0. \A u \in UIDs : NameOf[u] \in Names
    BY Zenon, ClusterAssumption
  <1>1. ASSUME NEW n \in Names, jobs'[n] # NoJob, jobs'[n].uid \notin disturbed'
        PROVE  /\ jobs'[n] = jobs[n] /\ jobs[n] # NoJob /\ jobs[n].uid \notin disturbed
    BY Zenon, <1>1 DEF OnlyDeletes, Grows
  <1>2. Counts'
    BY Zenon, <1>1 DEF JobFacts, Counts, CountsAt, Current
  <1>3. OnItsWay'
    <2> SUFFICES ASSUME NEW n \in Names, jobs'[n] # NoJob, jobs'[n].uid \notin disturbed'
                 PROVE  OnItsWayAt(n)'
      BY Zenon DEF OnItsWay, OnItsWayAt
    <2>1. /\ OnItsWayAt(n) /\ jobs'[n] = jobs[n] /\ jobs[n] # NoJob
          /\ jobs[n].uid \notin disturbed
      BY Zenon, <1>1 DEF JobFacts, OnItsWay
    <2>2. Catalogued(jobs[n].uid) => Catalogued(jobs[n].uid)'
      <3>1. PICK u \in UIDs : u = jobs[n].uid
        BY Zenon, <2>1, JobTypes
      <3>2. Catalogued(u) => Catalogued(u)'
        BY Zenon DEF Grows
      <3> QED BY Zenon, <2>1, <3>1, <3>2 DEF Catalogued
    <2> QED BY Zenon, <2>1, <2>2 DEF OnItsWayAt, Current, Cached
  <1>4. \A u \in UIDs : Regular(u)' => Regular(u) /\ StatusOf(u)' = StatusOf(u)
    BY Zenon, <1>0, <1>1 DEF Regular, Live, StatusOf
  <1>5. NoPrematureCompletion'
    BY Zenon, <1>4 DEF JobFacts, NoPrematureCompletion, Grows
  <1>6. SettledStays
    BY Zenon, <1>4 DEF SettledStays, Settled, Regular, TypeOK, ControllerTypeOK
  <1> QED BY Zenon, <1>2, <1>3, <1>5, <1>6 DEF JobFacts

\* What the job facts need of a status s that a handler or the completion
\* controller writes over the one of job u, called n.
Sound(n, u, s) ==
    /\ ~IsPending(s)
    /\ JobFinished(jobs[n].status) => JobFinished(s)
    /\ s.imagesCount = Cardinality(catalog'[u])
    /\ Claims(s) => s.conds = OnlyTrue("Complete") /\ AllScanned(u, s)'

\* A status write from outside the controller.
LEMMA JobWritten ==
    ASSUME Inv, JobFacts, Grows, UNCHANGED <<jobCache, jobQueue, rec>>,
           NEW n \in Names, NEW u \in UIDs, jobs[n] # NoJob, jobs[n].uid = u,
           Catalogued(u) \/ u \in disturbed',
           NEW s \in Status, WriteStatus(n, s),
           \A v \in UIDs : v # u => catalog'[v] = catalog[v],
           u \in disturbed' \/ Sound(n, u, s)
    PROVE  JobFacts' /\ SettledStays
  <1>0. \A v \in UIDs : NameOf[v] \in Names
    BY Zenon, ClusterAssumption
  <1>1. /\ TypeOK /\ created \subseteq UIDs
        /\ \A m \in Names : jobs[m] # NoJob => jobs[m].uid \in UIDs /\ NameOf[jobs[m].uid] = m
    BY Zenon, JobTypes DEF Inv, Versions, TypeOK, ControllerTypeOK
  <1>2. /\ jobs'[n] # NoJob /\ jobs'[n].uid = u /\ jobs'[n].status = s
        /\ \/ jobs'[n] = jobs[n] /\ clock' = clock
           \/ jobs'[n].rv = clock + 1 /\ clock' = clock + 1
        /\ \A m \in Names : m # n => jobs'[m] = jobs[m]
    BY Zenon, <1>1, WriteEffect
  <1>3. \A m \in Names :
           /\ jobCache[m] # NoJob => jobCache[m].rv # clock + 1
           /\ rec[m] # NoRec => rec[m].rv # clock + 1
    BY Zenon, <1>1, JobTypes, NewVersion DEF Inv, Versions
  <1>4. Current(n)' => Current(n) /\ jobs'[n] = jobs[n]
    BY Zenon, <1>2, <1>3 DEF Current
  <1>5. jobCache[n] = jobs'[n] => jobs'[n] = jobs[n]
    BY Zenon, <1>2, <1>3
  <1>6. ASSUME NEW m \in Names, m # n, jobs'[m] # NoJob, jobs'[m].uid \notin disturbed'
        PROVE  /\ jobs'[m] = jobs[m] /\ jobs[m] # NoJob /\ jobs[m].uid \notin disturbed
               /\ jobs[m].uid \in UIDs /\ catalog'[jobs[m].uid] = catalog[jobs[m].uid]
    <2>1. jobs'[m] = jobs[m] /\ jobs[m] # NoJob /\ jobs[m].uid \in UIDs
      BY Zenon, <1>1, <1>2, <1>6
    <2>2. jobs[m].uid # u
      BY Zenon, <1>1, <1>6, <2>1
    <2> QED BY Zenon, <1>6, <2>1, <2>2 DEF Grows
  <1>7. Counts'
    <2> SUFFICES ASSUME NEW m \in Names, jobs'[m] # NoJob, jobs'[m].uid \notin disturbed'
                 PROVE  CountsAt(m)'
      BY Zenon DEF Counts, CountsAt
    <2>1. CASE m # n
      <3>1. CountsAt(m) /\ jobs'[m] = jobs[m] /\ jobs[m] # NoJob /\ jobs[m].uid \notin disturbed
        BY Zenon, <1>6, <2>1 DEF JobFacts, Counts
      <3>2. catalog'[jobs'[m].uid] = catalog[jobs[m].uid]
        BY Zenon, <1>6, <2>1
      <3>3. Current(m)' => Current(m) /\ rec'[m] = rec[m]
        BY Zenon, <3>1 DEF Current
      <3> QED BY Zenon, <3>1, <3>2, <3>3 DEF CountsAt
    <2>2. CASE m = n
      <3>1. u \notin disturbed' /\ u \notin disturbed /\ Sound(n, u, s)
        BY Zenon, <1>2, <2>2 DEF Grows
      <3>2. /\ jobs'[n].status.imagesCount = Cardinality(catalog'[u])
            /\ Claims(s) => s.conds = OnlyTrue("Complete")
        BY Zenon, <1>2, <3>1 DEF Sound
      <3>3. Current(n)' => /\ rec[n].status.imagesCount = jobs'[n].status.imagesCount
                           /\ rec[n].status.reason # "AllImagesScanned"
        BY Zenon, <1>4, <3>1 DEF JobFacts, Counts, CountsAt
      <3> QED BY Zenon, <1>2, <2>2, <3>2, <3>3 DEF CountsAt, Claims
    <2> QED BY Zenon, <2>1, <2>2
  <1>8. OnItsWay'
    <2> SUFFICES ASSUME NEW m \in Names, jobs'[m] # NoJob, jobs'[m].uid \notin disturbed'
                 PROVE  OnItsWayAt(m)'
      BY Zenon DEF OnItsWay, OnItsWayAt
    <2>1. CASE m # n
      <3>1. PICK v \in UIDs : v = jobs[m].uid
        BY Zenon, <1>6, <2>1
      <3>2. Catalogued(v) => Catalogued(v)'
        BY Zenon DEF Grows
      <3>3. /\ OnItsWayAt(m) /\ jobs'[m] = jobs[m] /\ jobs[m] # NoJob
            /\ v \notin disturbed
        BY Zenon, <1>6, <2>1, <3>1 DEF JobFacts, OnItsWay
      <3> QED BY Zenon, <3>1, <3>2, <3>3 DEF OnItsWayAt, Current, Cached, Catalogued
    <2>2. CASE m = n
      <3>1. u \notin disturbed' /\ u \notin disturbed /\ Sound(n, u, s) /\ Catalogued(u)'
        BY Zenon, <1>2, <2>2 DEF Grows
      <3>2. OnItsWayAt(n)
        BY Zenon DEF JobFacts, OnItsWay
      <3>3. ~IsPending(jobs'[n].status) /\ Catalogued(jobs[n].uid)'
        BY Zenon, <1>2, <3>1 DEF Sound, Catalogued
      <3>4. Current(n)' /\ IsPending(rec[n].status)
               => jobCache[n] # jobs'[n] \/ n \in jobQueue \/ rec[n].retry
        BY Zenon, <1>4, <3>1, <3>2 DEF OnItsWayAt
      <3>5. /\ Cached(n)' /\ jobCache[n].uid = u /\ JobFinished(jobCache[n].status)
            => JobFinished(s)
        BY Zenon, <3>1, <3>2 DEF OnItsWayAt, Sound, Cached
      <3> QED BY Zenon, <1>2, <2>2, <3>3, <3>4, <3>5 DEF OnItsWayAt
    <2> QED BY Zenon, <2>1, <2>2
  <1>9. ASSUME NEW v \in UIDs, v # u, Regular(v)'
        PROVE  Regular(v) /\ StatusOf(v)' = StatusOf(v) /\ catalog'[v] = catalog[v]
    <2>1. NameOf[v] # n
      BY Zenon, <1>2, <1>9 DEF Regular, Live
    <2> QED BY Zenon, <1>0, <1>2, <1>9, <2>1 DEF Regular, Live, StatusOf, Grows
  <1>10. NameOf[u] = n /\ StatusOf(u)' = s /\ StatusOf(u) = jobs[n].status /\ Live(u)
    BY Zenon, <1>1, <1>2 DEF StatusOf, Live
  <1>11. NoPrematureCompletion'
    <2> SUFFICES ASSUME NEW v \in UIDs, Regular(v)', Claims(StatusOf(v)')
                 PROVE  AllScanned(v, StatusOf(v))'
      BY Zenon DEF NoPrematureCompletion, Claims, AllScanned
    <2>1. CASE v = u
      BY Zenon, <1>10, <2>1 DEF Sound, AllScanned, Regular
    <2>2. CASE v # u
      BY Zenon, <1>9, <2>2 DEF JobFacts, NoPrematureCompletion, AllScanned, Claims, Grows
    <2> QED BY Zenon, <2>1, <2>2
  <1>12. SettledStays
    <2> SUFFICES ASSUME NEW v \in UIDs, Settled(v), Regular(v)'
                 PROVE  JobFinished(StatusOf(v)')
      BY Zenon, <1>1 DEF SettledStays, Settled, Regular
    <2>1. CASE v = u
      BY Zenon, <1>10, <2>1 DEF Sound, Settled, Regular, Grows
    <2>2. CASE v # u
      BY Zenon, <1>9, <2>2 DEF Settled, Regular
    <2> QED BY Zenon, <2>1, <2>2
  <1> QED BY Zenon, <1>7, <1>8, <1>11, <1>12 DEF JobFacts

\* The job called n is the one that was there or a new one, and claims nothing
\* that was not claimed.
KeptAt(n) ==
    jobs'[n] # NoJob /\ jobs'[n].uid \notin disturbed' =>
        \/ /\ jobs[n] # NoJob /\ jobs'[n].uid = jobs[n].uid
           /\ JobFinished(jobs[n].status) => JobFinished(jobs'[n].status)
           /\ Claims(jobs'[n].status) => jobs'[n].status = jobs[n].status
        \/ jobs'[n].uid \notin created /\ ~Claims(jobs'[n].status)

\* A step of the controller or of a user that concerns one name, and may delete
\* jobs of other names.
LEMMA OneName ==
    ASSUME TypeOK, JobFacts, Grows, UNCHANGED <<catalog, disturbed>>,
           NEW n \in Names, CountsAt(n)', OnItsWayAt(n)', KeptAt(n),
           \A m \in Names : m # n => /\ jobs'[m] \in {jobs[m], NoJob}
                                     /\ jobCache'[m] = jobCache[m]
                                     /\ rec'[m] = rec[m]
                                     /\ m \in jobQueue => m \in jobQueue'
    PROVE  JobFacts' /\ SettledStays
  <1>0. \A u \in UIDs : NameOf[u] \in Names
    BY Zenon, ClusterAssumption
  <1>1. ASSUME NEW m \in Names, m # n, jobs'[m] # NoJob, jobs'[m].uid \notin disturbed'
        PROVE  /\ jobs'[m] = jobs[m] /\ jobs[m] # NoJob /\ jobs[m].uid \notin disturbed
               /\ jobCache'[m] = jobCache[m] /\ rec'[m] = rec[m] /\ jobs[m].uid \in UIDs
    BY Zenon, <1>1, JobTypes
  <1>2. Counts'
    <2> SUFFICES ASSUME NEW m \in Names, m # n, jobs'[m] # NoJob, jobs'[m].uid \notin disturbed'
                 PROVE  CountsAt(m)'
      BY Zenon DEF Counts, CountsAt
    <2>1. CountsAt(m)
      BY Zenon DEF JobFacts, Counts
    <2> QED BY Zenon, <1>1, <2>1 DEF CountsAt, Current
  <1>3. OnItsWay'
    <2> SUFFICES ASSUME NEW m \in Names, m # n, jobs'[m] # NoJob, jobs'[m].uid \notin disturbed'
                 PROVE  OnItsWayAt(m)'
      BY Zenon DEF OnItsWay, OnItsWayAt
    <2>1. OnItsWayAt(m) /\ jobs[m].uid \in UIDs
      BY Zenon, <1>1 DEF JobFacts, OnItsWay
    <2>2. Catalogued(jobs[m].uid) => Catalogued(jobs[m].uid)'
      BY Zenon, <1>1 DEF Grows, Catalogued
    <2> QED BY Zenon, <1>1, <2>1, <2>2 DEF OnItsWayAt, Current, Cached
  <1>4. \A u \in UIDs : NameOf[u] # n /\ Regular(u)' => Regular(u) /\ StatusOf(u)' = StatusOf(u)
    BY Zenon, <1>0, <1>1 DEF Regular, Live, StatusOf
  <1>5. \A u \in UIDs : NameOf[u] = n /\ Regular(u)' =>
            \/ /\ Regular(u)
               /\ JobFinished(StatusOf(u)) => JobFinished(StatusOf(u)')
               /\ Claims(StatusOf(u)') => StatusOf(u)' = StatusOf(u)
            \/ u \notin created /\ ~Claims(StatusOf(u)')
    BY Zenon DEF Regular, Live, StatusOf, KeptAt
  <1>6. NoPrematureCompletion'
    <2> SUFFICES ASSUME NEW u \in UIDs, Regular(u)', Claims(StatusOf(u)')
                 PROVE  AllScanned(u, StatusOf(u))'
      BY Zenon DEF NoPrematureCompletion, Claims, AllScanned
    <2>1. Regular(u) /\ StatusOf(u)' = StatusOf(u)
      BY Zenon, <1>4, <1>5
    <2> QED BY Zenon, <2>1 DEF JobFacts, NoPrematureCompletion, AllScanned, Claims, Grows
  <1>7. SettledStays
    BY Zenon, <1>4, <1>5 DEF SettledStays, Settled, Regular, TypeOK, ControllerTypeOK
  <1> QED BY Zenon, <1>2, <1>3, <1>6, <1>7 DEF JobFacts

\* A reconciliation that keeps a copy made from the cached job for its status
\* update.
LEMMA CopyHeld ==
    ASSUME Inv, JobFacts, Grows, UNCHANGED <<jobCache, catalog, disturbed>>, OnlyDeletes,
           NEW n \in Names, CachedPending(n), jobQueue' = jobQueue \ {n},
           NEW s \in Status, NEW retry \in BOOLEAN, Hold(n, jobCache[n].rv, s, retry),
           s.imagesCount = jobCache[n].status.imagesCount, ~Claims(s),
           IsPending(s) => retry = TRUE,
           ~IsPending(s) /\ ~IsFailed(s) => Catalogued(jobCache[n].uid)'
    PROVE  JobFacts' /\ SettledStays
  <1>1. TypeOK
    BY Zenon DEF Inv
  <1>2. jobCache[n] # NoJob /\ jobCache[n].rv \in Nat
    BY Zenon, <1>1, JobTypes DEF CachedPending
  <1>3. /\ rec'[n] = [rv |-> jobCache[n].rv, status |-> s, retry |-> retry]
        /\ \A m \in Names : m # n => rec'[m] = rec[m]
    BY Zenon, <1>1 DEF Hold, TypeOK, ControllerTypeOK
  <1>4. /\ rec'[n] # NoRec /\ rec'[n].rv = jobCache[n].rv /\ rec'[n].status = s
        /\ rec'[n].retry = retry
    <2>1. [rv |-> jobCache[n].rv, status |-> s, retry |-> retry] \in Reconciliation
      BY Zenon, <1>2 DEF Reconciliation
    <2>2. rec'[n] # NoRec
      BY Zenon, <1>3, <2>1, ControllerAssumption
    <2>3. rec'[n].rv = jobCache[n].rv /\ rec'[n].status = s /\ rec'[n].retry = retry
      BY <1>3
    <2> QED BY Zenon, <2>2, <2>3
  <1>5. jobs'[n] # NoJob => jobs'[n] = jobs[n] /\ jobs[n].uid \in UIDs
    BY Zenon, <1>1, JobTypes DEF OnlyDeletes
  <1>6. Current(n)' => jobCache[n] = jobs[n]
    BY Zenon, <1>2, <1>4, <1>5 DEF Current, Cached, Inv, CacheAgrees
  <1>7. CountsAt(n) /\ OnItsWayAt(n)
    BY Zenon DEF JobFacts, Counts, OnItsWay
  <1>8. CountsAt(n)'
    BY Zenon, <1>4, <1>5, <1>6, <1>7 DEF CountsAt, Claims
  <1>9. OnItsWayAt(n)'
    <2>1. jobs'[n] # NoJob /\ Catalogued(jobs[n].uid) => Catalogued(jobs[n].uid)'
      BY Zenon, <1>5 DEF Grows, Catalogued
    <2>2. Current(n)' /\ ~IsPending(s) /\ ~IsFailed(s) => Catalogued(jobs[n].uid)'
      BY Zenon, <1>5, <1>6 DEF Current, Catalogued
    <2> QED BY Zenon, <1>4, <1>5, <1>7, <2>1, <2>2 DEF OnItsWayAt, Cached
  <1>10. KeptAt(n)
    BY Zenon, <1>5 DEF KeptAt
  <1> QED BY Zenon, <1>1, <1>3, <1>8, <1>9, <1>10, OneName DEF OnlyDeletes

-----------------------------------------------------------------------------
(* The users, the environment and the two controllers.                     *)

\* Users keep the invariant, the creation of a ScanJob under a UID that
\* nothing refers to included.
LEMMA InvUsers ==
    ASSUME Inv, Users
    PROVE  Inv'
  <1>1. TypeOK' /\ TypeOK
    BY Zenon, TypeEnvironment DEF Inv
  <1>2. Causality'
    BY Zenon DEF Inv, Causality, Users, ValidateCreate, CreateScanJob, DeleteScanJob,
       objectVars, queueVars, reportVars, InStream, Catalogued
  <1>3. \A u \in UIDs : Catalogued(u)' <=> Catalogued(u)
    BY Zenon DEF Users, ValidateCreate, CreateScanJob, DeleteScanJob, queueVars,
       Catalogued
  <1>4. ASSUME NEW n \in Names, NEW t \in Targets, ValidateCreate(n, t)
        PROVE  Inv'
    BY Zenon, <1>1, <1>2, <1>3, <1>4, PassiveStep
       DEF ValidateCreate, OnlyDeletes, Disturbs, jobVars, historyVars,
           controllerVars
  <1>5. ASSUME NEW n \in Names, DeleteScanJob(n)
        PROVE  Inv'
    <2>1. OnlyDeletes
      BY Zenon, <1>1, <1>5 DEF DeleteScanJob, OnlyDeletes, TypeOK, ClusterTypeOK
    <2> QED BY Zenon, <1>1, <1>2, <1>3, <1>5, <2>1, PassiveStep
            DEF DeleteScanJob, Disturbs, historyVars, controllerVars,
                admissionVars
  <1>6. ASSUME NEW u \in UIDs, CreateScanJob(u)
        PROVE  Inv'
    <2> DEFINE n == NameOf[u]
    <2>0. n \in Names
      BY Zenon, ClusterAssumption
    <2>1. CASE jobs[n] # NoJob
      <3>1. /\ OnlyDeletes /\ Disturbs
            /\ UNCHANGED <<clock, jobCache, rec, created, counted, registry>>
        BY Zenon, <1>6, <2>1 DEF CreateScanJob, OnlyDeletes, Disturbs, jobVars,
           userVars, historyVars, controllerVars
      <3> QED BY Zenon, <1>1, <1>2, <1>3, <3>1, PassiveStep
    <2>2. CASE jobs[n] = NoJob
      <3>1. /\ u \notin created /\ created' = created \cup {u}
            /\ clock' = clock + 1
            /\ \A m \in Names : m # n => jobs'[m] = jobs[m]
            /\ UNCHANGED <<jobCache, rec, counted, registry, disturbed, published>>
        BY Zenon, <1>1, <1>6, <2>0, <2>2
           DEF CreateScanJob, TypeOK, ClusterTypeOK, userVars, queueVars,
               historyVars, controllerVars
      <3>2. /\ jobs'[n].uid = u /\ jobs'[n].rv = clock + 1
            /\ jobs'[n].status = EmptyStatus
        <4>1. jobs' = [jobs EXCEPT ![n] =
                         [uid |-> u, rv |-> clock + 1, stamp |-> clock + 1,
                          snapshot |-> FALSE, target |-> admitted[n],
                          status |-> EmptyStatus]]
          BY Zenon, <1>6, <2>2 DEF CreateScanJob
        <4>2. jobs \in [Names -> ScanJob \cup {NoJob}]
          BY Zenon, <1>1 DEF TypeOK, ClusterTypeOK
        <4>3. jobs'[n] = [uid |-> u, rv |-> clock + 1, stamp |-> clock + 1,
                          snapshot |-> FALSE, target |-> admitted[n],
                          status |-> EmptyStatus]
          BY Zenon, <2>0, <4>1, <4>2
        <4> QED BY <4>3
      <3>3. /\ IsPending(jobs'[n].status) /\ ~JobFinished(jobs'[n].status)
            /\ clock \in Nat
        BY Zenon, <1>1, <3>2, EmptyStatusFacts DEF TypeOK, ClusterTypeOK
      <3>4. /\ clock + 1 <= clock + 1
            /\ \A v \in Nat : v <= clock => v <= clock + 1
            /\ \A m \in Names :
                  /\ jobCache[m] # NoJob => jobCache[m].rv # clock + 1
                  /\ rec[m] # NoRec => rec[m].rv # clock + 1
        BY Zenon, <1>1, <3>3, JobTypes, NewVersion DEF Inv, Versions
      <3>5. Versions'
        <4> SUFFICES ASSUME NEW m \in Names
                     PROVE  /\ jobs'[m] # NoJob
                                  => /\ NameOf[jobs'[m].uid] = m
                                     /\ jobs'[m].rv <= clock + 1
                            /\ jobCache[m] # NoJob
                                  => /\ NameOf[jobCache[m].uid] = m
                                     /\ jobCache[m].rv <= clock + 1
                            /\ rec[m] # NoRec => rec[m].rv <= clock + 1
          BY Zenon, <3>1 DEF Versions
        <4>1. /\ jobs[m] # NoJob => /\ NameOf[jobs[m].uid] = m
                                    /\ jobs[m].rv <= clock + 1
              /\ jobCache[m] # NoJob => /\ NameOf[jobCache[m].uid] = m
                                        /\ jobCache[m].rv <= clock + 1
              /\ rec[m] # NoRec => rec[m].rv <= clock + 1
          BY Zenon, <1>1, <3>4, JobTypes DEF Inv, Versions
        <4>2. CASE m = n
          BY Zenon, <3>2, <3>4, <4>1, <4>2
        <4>3. CASE m # n
          BY Zenon, <3>1, <4>1, <4>3
        <4> QED BY Zenon, <4>2, <4>3
      <3>6. Fresh'
        BY Zenon, <2>0, <3>1, <3>2 DEF Inv, Fresh, Catalogued
      <3>7. CacheAgrees'
        <4>1. \A m \in Names : /\ Cached(m)'
                                /\ \/ jobCache[m].rv = jobs'[m].rv
                                   \/ jobCache[m].uid = jobs'[m].uid
                                => m # n
          BY Zenon, <3>1, <3>2, <3>4 DEF Inv, Fresh, Cached
        <4> QED BY Zenon, <3>1, <4>1 DEF Inv, CacheAgrees, Cached
      <3>8. Published'
        <4>1. \A v \in UIDs : Catalogued(v)' => Catalogued(v) /\ v # u
          BY Zenon, <3>1 DEF Inv, Fresh, Catalogued
        <4>2. \A v \in UIDs : v # u /\ Live(v)' => NameOf[v] # n
          BY Zenon, <3>2 DEF Live
        <4>3. \A v \in UIDs : NameOf[v] \in Names
          BY Zenon, ClusterAssumption
        <4> QED BY Zenon, <3>1, <4>1, <4>2, <4>3 DEF Inv, Published, Live
      <3>9. Quiet'
        BY Zenon, <2>0, <3>1, <3>3 DEF Inv, Quiet, Cached, CachedPending
      <3>10. HeldCopies'
        <4>1. \A m \in Names : Current(m)' => m # n /\ Current(m)
          BY Zenon, <3>1, <3>2, <3>4 DEF Current
        <4> QED BY Zenon, <3>1, <4>1 DEF Inv, HeldCopies
      <3>11. CountedExactly'
        <4> SUFFICES ASSUME NEW v \in UIDs, Regular(v)'
                     PROVE  counted[v] = IF JobFinished(StatusOf(v)') THEN 1 ELSE 0
          BY Zenon, <3>1 DEF CountedExactly
        <4>1. CASE v = u
          BY Zenon, <3>1, <3>3, <4>1 DEF Inv, Fresh, StatusOf
        <4>2. CASE v # u
          <5>1. NameOf[v] \in Names /\ NameOf[v] # n
            BY Zenon, <3>2, <4>2, ClusterAssumption DEF Regular, Live
          <5>2. Regular(v) /\ StatusOf(v)' = StatusOf(v)
            BY Zenon, <3>1, <5>1 DEF Regular, Live, StatusOf
          <5> QED BY Zenon, <5>2 DEF Inv, CountedExactly
        <4> QED BY Zenon, <4>1, <4>2
      <3> QED BY Zenon, <1>1, <1>2, <3>5, <3>6, <3>7, <3>8, <3>9, <3>10, <3>11 DEF Inv
    <2> QED BY Zenon, <2>1, <2>2
  <1> QED BY Zenon, <1>4, <1>5, <1>6 DEF Users

\* The environment keeps the invariant.
LEMMA InvEnvironment ==
    ASSUME Inv, Environment
    PROVE  Inv'
  <1>1. TypeOK' /\ TypeOK
    BY Zenon, TypeEnvironment DEF Inv
  <1>a. UNCHANGED <<clock, jobCache, rec, created, counted, published, stream,
                    task, reportCache>>
    BY Zenon DEF Environment, ChangeTag, DeleteRegistry, CollectScanJob, CollectImage,
       CollectSBOM, CollectReport, jobVars, queueVars, controllerVars,
       admissionVars, reportVars
  <1>b. registry' = registry \/ registry' = FALSE
    BY Zenon DEF Environment, ChangeTag, DeleteRegistry, CollectScanJob, CollectImage,
       CollectSBOM, CollectReport, userVars
  <1>c. registry' => registry
    BY <1>b, Zenon
  <1>3. \A i \in Images : reports'[i].uid \in {reports[i].uid, NoUID}
    <2>1. reports' = reports \/ \E i \in Images : CollectSBOM(i) \/ CollectReport(i)
      BY Zenon DEF Environment, ChangeTag, DeleteRegistry, CollectScanJob,
         CollectImage, objectVars
    <2>2. reports \in [Images -> Report]
      BY Zenon, <1>1 DEF TypeOK, ClusterTypeOK
    <2>3. ASSUME NEW i \in Images, CollectSBOM(i)
          PROVE  \A k \in Images : reports'[k].uid = reports[k].uid
      BY Zenon, <2>2, <2>3 DEF CollectSBOM, Report
    <2>4. ASSUME NEW i \in Images, CollectReport(i)
          PROVE  \A k \in Images : reports'[k].uid \in {reports[k].uid, NoUID}
      BY Zenon, <2>2, <2>4 DEF CollectReport, NoReport
    <2> QED BY Zenon, <2>1, <2>3, <2>4
  <1>4. Causality'
    BY Zenon, <1>a, <1>3 DEF Inv, Causality, InStream, Catalogued
  <1>5. OnlyDeletes
    BY Zenon, <1>1 DEF OnlyDeletes, Environment, ChangeTag, DeleteRegistry,
       CollectScanJob, CollectImage, CollectSBOM, CollectReport, jobVars,
       TypeOK, ClusterTypeOK
  <1>6. Disturbs
    <2>1. disturbed' = disturbed \/ \E i \in Images : Disturb({reports[i].uid})
      BY Zenon DEF Environment, ChangeTag, DeleteRegistry, CollectScanJob,
         CollectImage, CollectSBOM, CollectReport, historyVars
    <2> QED BY Zenon, <2>1, ClusterAssumption DEF Disturbs, Disturb, Live, Inv, Fresh
  <1> QED BY Zenon, <1>1, <1>a, <1>c, <1>4, <1>5, <1>6, PassiveStep DEF Catalogued

\* A restart of the controller keeps the invariant: the caches are current.
LEMMA InvRestart ==
    ASSUME Inv, RestartController
    PROVE  Inv'
  <1>1. TypeOK' /\ TypeOK
    BY Zenon, TypeEnvironment DEF Inv
  <1>2. /\ UNCHANGED <<jobs, clock, created, counted, registry, disturbed,
                       published, stream, task, reports>>
        /\ jobCache' = jobs
        /\ \A n \in Names : rec'[n] = NoRec
        /\ \A i \in Images : reportCache'[i] = reports[i].uid
    BY Zenon DEF RestartController, jobVars, queueVars, userVars, historyVars,
       admissionVars
  <1>3. Causality'
    BY Zenon, <1>2 DEF Inv, Causality, InStream, Catalogued
  <1>4. Versions' /\ Fresh' /\ HeldCopies'
    BY Zenon, <1>2 DEF Inv, Versions, Fresh, HeldCopies, Current, Catalogued
  <1>5. CacheAgrees' /\ Quiet'
    BY Zenon, <1>2 DEF CacheAgrees, Quiet, Cached, CachedPending
  <1>6. Published'
    BY Zenon, <1>2, ClusterAssumption DEF Inv, Published, Live, Catalogued
  <1>7. CountedExactly'
    BY Zenon, <1>2 DEF Inv, CountedExactly, Regular, Live, StatusOf
  <1> QED BY Zenon, <1>1, <1>3, <1>4, <1>5, <1>6, <1>7 DEF Inv

\* A watch event for a ScanJob keeps the invariant.
LEMMA InvWatch ==
    ASSUME Inv, NEW n \in Names, WatchScanJob(n)
    PROVE  Inv'
  <1>1. TypeOK' /\ TypeOK
    BY Zenon, TypeJobController DEF Inv
  <1>2. /\ UNCHANGED <<jobs, clock, rec, created, counted, registry, disturbed,
                       published, stream, task, reports, reportCache>>
        /\ jobCache[n] # jobs[n] /\ jobCache'[n] = jobs[n]
        /\ \A m \in Names : m # n => jobCache'[m] = jobCache[m]
    BY Zenon, <1>1 DEF WatchScanJob, SyncScanJob, jobVars, objectVars, queueVars,
       userVars, historyVars, admissionVars, reportVars, TypeOK,
       ControllerTypeOK
  <1>3. Causality'
    BY Zenon, <1>2 DEF Inv, Causality, InStream, Catalogued
  <1>4. Versions' /\ Fresh' /\ HeldCopies'
    <2>1. Versions'
      BY Zenon, <1>2 DEF Inv, Versions
    <2>2. Fresh'
      BY Zenon, <1>2 DEF Inv, Fresh, Catalogued
    <2>3. HeldCopies'
      <3>1. \A m \in Names :
               /\ Current(m)' => Current(m)
               /\ jobCache[m] = jobs[m] => jobCache'[m] = jobs[m]
        BY Zenon, <1>2 DEF Current
      <3> QED BY Zenon, <1>2, <3>1 DEF Inv, HeldCopies
    <2> QED BY Zenon, <2>1, <2>2, <2>3
  <1>5. CacheAgrees' /\ Quiet'
    BY Zenon, <1>2 DEF Inv, CacheAgrees, Quiet, Cached, CachedPending
  <1>6. Published'
    BY Zenon, <1>2, ClusterAssumption DEF Inv, Published, Live, Catalogued
  <1>7. CountedExactly'
    BY Zenon, <1>2 DEF Inv, CountedExactly, Regular, Live, StatusOf
  <1> QED BY Zenon, <1>1, <1>3, <1>4, <1>5, <1>6, <1>7 DEF Inv

\* The steps of ScanJobReconciler keep the invariant.
LEMMA InvJobController ==
    ASSUME Inv, NEW n \in Names, JobController(n)
    PROVE  Inv'
  <1> DEFINE c == jobCache[n]
             init == InitializeConditions(c.status)
  <1>1. TypeOK' /\ TypeOK
    BY Zenon, TypeJobController DEF Inv
  <1>2. UNCHANGED <<jobCache, created, registry, task, reports, reportCache,
                    disturbed>>
    BY Zenon DEF JobController, Reconcile, SkipScanJob, RejectScanJob,
       SnapshotRegistry, ScheduleScanJob, FailReconcile, UpdateScanJobStatus,
       RetryScanJob, objectVars, userVars, historyVars, admissionVars,
       reportVars
  <1>3. Disturbs
    BY Zenon, <1>2 DEF Disturbs
  <1>4. ASSUME UNCHANGED <<published, stream>>
        PROVE  /\ Causality'
               /\ \A u \in UIDs : Catalogued(u)' <=> Catalogued(u)
    BY Zenon, <1>2, <1>4 DEF Inv, Causality, InStream, Catalogued
  <1>5. jobs' \in {jobs, JobsAfterCleanup} => OnlyDeletes
    BY Zenon DEF JobsAfterCleanup, OnlyDeletes
  <1>6. ASSUME Begin(n)
        PROVE  /\ CachedPending(n) /\ c \in ScanJob /\ c.uid \in UIDs
               /\ init \in Status /\ IsPending(init)
               /\ c.uid \in created /\ NameOf[c.uid] = n
    <2>1. CachedPending(n) /\ c \in ScanJob
      BY Zenon, <1>1, <1>6 DEF Begin, CachedPending, TypeOK, ControllerTypeOK
    <2>2. c.status \in Status /\ c.uid \in UIDs
      BY Zenon, <2>1 DEF ScanJob
    <2>3. init \in Status /\ IsPending(init)
      BY Zenon, <2>2, MarkType, MarkEffect, ReasonFacts
    <2> QED BY Zenon, <2>1, <2>2, <2>3 DEF Inv, Fresh, Versions, CachedPending
  <1>7. ASSUME UNCHANGED <<published, stream, clock, counted>>, OnlyDeletes,
               HeldCopies',
               \A m \in Names : rec'[m] # NoRec => rec'[m].rv <= clock
        PROVE  Inv'
    <2>1. Published'
      BY Zenon, <1>2, <1>4, <1>7, ClusterAssumption
         DEF Inv, Published, Live, OnlyDeletes
    <2>2. \A u \in UIDs \ created : ~Catalogued(u)'
      BY Zenon, <1>4, <1>7 DEF Inv, Fresh
    <2> QED BY Zenon, <1>1, <1>2, <1>3, <1>4, <1>7, <2>1, <2>2, DeletingStep
  <1>8. CASE SkipScanJob(n)
    <2>1. UNCHANGED <<jobs, clock, counted, rec, published, stream>>
      BY Zenon, <1>8 DEF SkipScanJob, jobVars, queueVars
    <2> QED BY Zenon, <1>1, <1>2, <1>3, <1>4, <1>5, <2>1, PassiveStep
  <1>9. CASE RejectScanJob(n)
    <2> DEFINE r == IF ~registry THEN "RegistryNotFound" ELSE TargetReason(c.target)
               s == MarkFailed(init, r)
    <2>1. r \in Reasons
      BY Zenon DEF Reasons, TargetReason
    <2>2. /\ Begin(n) /\ Hold(n, c.rv, s, FALSE)
          /\ ~registry \/ c.target \in Undeclared
          /\ jobs' = JobsAfterCleanup
          /\ UNCHANGED <<published, stream, clock, counted>>
      BY Zenon, <1>9 DEF RejectScanJob, queueVars
    <2> HIDE DEF r
    <2>3. s \in Status /\ IsFailed(s) /\ ~IsPending(s)
      BY Zenon, <1>6, <2>1, <2>2, MarkType, MarkEffect
    <2> HIDE DEF s
    <2>4. /\ HeldCopies'
          /\ \A m \in Names : rec'[m] # NoRec => rec'[m].rv <= clock
      BY Zenon, <1>2, <1>5, <1>6, <2>2, <2>3, HoldCopy
    <2> QED BY Zenon, <1>5, <1>7, <2>2, <2>4
  <1>10. CASE FailReconcile(n)
    <2>1. /\ Begin(n) /\ Hold(n, c.rv, init, TRUE)
          /\ jobs' \in {jobs, JobsAfterCleanup}
          /\ UNCHANGED <<published, stream, clock, counted>>
      BY Zenon, <1>10 DEF FailReconcile, queueVars
    <2>2. ~IsFailed(init)
      BY Zenon, <1>6, <2>1 DEF IsPending
    <2>3. /\ HeldCopies'
          /\ \A m \in Names : rec'[m] # NoRec => rec'[m].rv <= clock
      BY Zenon, <1>2, <1>5, <1>6, <2>1, <2>2, HoldCopy
    <2> QED BY Zenon, <1>5, <1>7, <2>1, <2>3
  <1>11. CASE RetryScanJob(n)
    <2>1. /\ rec' = [rec EXCEPT ![n] = NoRec]
          /\ UNCHANGED <<jobs, published, stream, clock, counted>>
      BY Zenon, <1>11 DEF RetryScanJob, jobVars, queueVars
    <2>2. \A m \in Names : rec'[m] # NoRec => rec'[m] = rec[m]
      BY Zenon, <1>1, <2>1 DEF TypeOK, ControllerTypeOK
    <2>3. HeldCopies'
      BY Zenon, <1>2, <2>1, <2>2 DEF Inv, HeldCopies, Current
    <2>4. \A m \in Names : rec'[m] # NoRec => rec'[m].rv <= clock
      BY Zenon, <2>2 DEF Inv, Versions
    <2> QED BY Zenon, <1>5, <1>7, <2>1, <2>3, <2>4
  <1>12. CASE ScheduleScanJob(n)
    <2> DEFINE m0 == Message("createCatalog", c.uid, NoImage)
    <2>1. /\ Begin(n) /\ c.snapshot /\ Publish(m0)
          /\ jobs' = JobsAfterCleanup
          /\ \/ Hold(n, c.rv, MarkScheduled(init), FALSE)
             \/ Hold(n, c.rv, init, TRUE)
          /\ UNCHANGED <<clock, counted>>
      BY Zenon, <1>12 DEF ScheduleScanJob
    <2>2. m0 \in ScanMessages /\ m0.uid = c.uid /\ m0.kind = "createCatalog"
      BY Zenon, <1>6, <2>1, CatalogMessage DEF Message
    <2>3. /\ \A u \in UIDs : Catalogued(u) => Catalogued(u)'
          /\ \A u \in UIDs : Catalogued(u)' => Catalogued(u) \/ u = c.uid
          /\ \A k \in ScanMessages : published'[k] > 0 => Catalogued(k.uid)'
          /\ \A e \in Entries : InStream(e)' => Catalogued(e[1].uid)'
      <3> HIDE DEF m0
      <3> QED BY Zenon, <2>1, <2>2, PublishCause
    <2>4. Causality'
      <3>1. \A w \in Workers : task[w] # NoTask => task[w].entry[1].uid \in UIDs
        BY Zenon, <1>1, MessageFacts DEF UID, M
      <3>2. \A i \in Images : /\ reports[i].uid # NoUID => reports[i].uid \in UIDs
                              /\ reportCache[i] # NoUID => reportCache[i] \in UIDs
        BY Zenon, <1>1 DEF TypeOK, ClusterTypeOK, ReportTypeOK, Report
      <3> QED BY Zenon, <1>2, <2>3, <3>1, <3>2 DEF Inv, Causality
    <2>5. ASSUME NEW s \in Status, ~IsFailed(s), NEW retry,
                 Hold(n, c.rv, s, retry)
          PROVE  /\ HeldCopies'
                 /\ \A m \in Names : rec'[m] # NoRec => rec'[m].rv <= clock
      BY Zenon, <1>2, <1>5, <1>6, <2>1, <2>5, HoldCopy
    <2>6. /\ HeldCopies'
          /\ \A m \in Names : rec'[m] # NoRec => rec'[m].rv <= clock
      <3>1. MarkScheduled(init) \in Status /\ ~IsFailed(MarkScheduled(init))
        BY Zenon, <1>6, <2>1, MarkType, MarkEffect, ReasonFacts
      <3>2. init \in Status /\ ~IsFailed(init)
        BY Zenon, <1>6, <2>1 DEF IsPending
      <3>3. CASE Hold(n, c.rv, MarkScheduled(init), FALSE)
        BY Zenon, <2>5, <3>1, <3>3
      <3>4. CASE Hold(n, c.rv, init, TRUE)
        BY Zenon, <2>5, <3>2, <3>4
      <3> QED BY Zenon, <2>1, <3>3, <3>4
    <2>7. Published'
      <3>1. OnlyDeletes
        BY Zenon, <1>5, <2>1
      <3> SUFFICES ASSUME NEW u \in UIDs, Catalogued(u)', Live(u)'
                   PROVE  /\ jobs'[NameOf[u]].snapshot
                          /\ jobCache[NameOf[u]] # NoJob
                          /\ jobCache[NameOf[u]].uid = u
                          /\ jobCache[NameOf[u]].snapshot
        BY Zenon, <1>2 DEF Published
      <3>2. NameOf[u] \in Names
        BY Zenon, ClusterAssumption
      <3>3. Live(u) /\ jobs'[NameOf[u]] = jobs[NameOf[u]]
        BY Zenon, <3>1, <3>2 DEF Live, OnlyDeletes
      <3>4. CASE Catalogued(u)
        BY Zenon, <3>3, <3>4 DEF Inv, Published
      <3>5. CASE u = c.uid
        BY Zenon, <1>6, <2>1, <3>3, <3>5
           DEF Inv, Live, CacheAgrees, Cached, CachedPending
      <3> QED BY Zenon, <2>3, <3>4, <3>5
    <2>8. \A u \in UIDs \ created : ~Catalogued(u)'
      BY Zenon, <1>6, <2>1, <2>3 DEF Inv, Fresh
    <2> QED BY Zenon, <1>1, <1>2, <1>3, <1>5, <2>1, <2>4, <2>6, <2>7, <2>8, DeletingStep
  <1>13. CASE SnapshotRegistry(n)
    <2> DEFINE j == jobs[n]
               s == IF j.status.conds = EmptyStatus.conds
                    THEN InitializeConditions(j.status) ELSE j.status
    <2>1. /\ Begin(n) /\ registry /\ c.target \notin Undeclared /\ ~c.snapshot
          /\ JobsAfterCleanup[n] = j /\ j # NoJob
          /\ clock' = clock + 1
          /\ jobs' = [JobsAfterCleanup EXCEPT ![n] = Annotated(j, clock + 1)]
          /\ Hold(n, clock + 1, s, FALSE)
          /\ UNCHANGED <<published, stream, counted>>
      <3>1. JobsAfterCleanup[n] # NoJob
        BY Zenon, <1>13 DEF SnapshotRegistry
      <3>2. JobsAfterCleanup[n] = j
        BY Zenon, <3>1 DEF JobsAfterCleanup
      <3> QED BY Zenon, <1>13, <3>1, <3>2 DEF SnapshotRegistry, queueVars
    <2>2. j \in ScanJob /\ j.status \in Status
      BY Zenon, <1>1, <2>1 DEF TypeOK, ClusterTypeOK, ScanJob
    <2>3. /\ jobs'[n] = Annotated(j, clock + 1)
          /\ \A m \in Names : m # n => jobs'[m] \in {jobs[m], NoJob}
          /\ rec'[n].rv = clock + 1 /\ rec'[n].status = s
          /\ \A m \in Names : m # n => rec'[m] = rec[m]
      BY Zenon, <1>1, <2>1 DEF JobsAfterCleanup, Hold, TypeOK, ControllerTypeOK
    <2>4. IsPending(j.status) => IsPending(s)
      BY Zenon, <2>2, MarkEffect, ReasonFacts
    <2>5. ~IsPending(j.status) => s = j.status /\ j.uid \in disturbed
      <3>1. j.status.conds = EmptyStatus.conds => IsPending(j.status)
        BY Zenon, EmptyStatusFacts
           DEF IsPending, IsScheduled, IsInProgress, IsComplete, IsFailed
      <3>2. ~IsPending(j.status) => j.uid \in disturbed
        BY Zenon, <1>6, <2>1 DEF Inv, Quiet, Cached, CachedPending
      <3> QED BY Zenon, <3>1, <3>2
    <2> HIDE DEF s
    <2>6. \/ IsPending(rec'[n].status) /\ IsPending(j.status)
          \/ j.uid \in disturbed /\ rec'[n].status = j.status
      BY Zenon, <2>3, <2>4, <2>5
    <2>7. Causality' /\ \A u \in UIDs : Catalogued(u)' => Catalogued(u)
      BY Zenon, <1>4, <2>1
    <2> QED BY Zenon, <1>1, <1>2, <2>1, <2>3, <2>6, <2>7, SnapshotStep
  <1>14. CASE UpdateScanJobStatus(n)
    <2> DEFINE s == rec[n].status
               u == jobs[n].uid
    <2>1. /\ Current(n) /\ jobs[n] # NoJob /\ WriteStatus(n, s)
          /\ RecordScanJobFinished(u, s)
          /\ rec' = [rec EXCEPT ![n] = NoRec]
          /\ UNCHANGED <<published, stream>>
      BY Zenon, <1>14 DEF UpdateScanJobStatus, StatusUpdateAccepted, Current, queueVars
    <2>2. s \in Status /\ u \in UIDs /\ NameOf[u] = n
      <3>1. rec[n] \in Reconciliation /\ jobs[n] \in ScanJob
        BY Zenon, <1>1, <2>1 DEF Current, TypeOK, ClusterTypeOK, ControllerTypeOK
      <3> QED BY Zenon, <2>1, <3>1 DEF ScanJob, Reconciliation, Inv, Versions
    <2>3. \/ /\ jobCache[n] = jobs[n]
             /\ IsPending(jobs[n].status)
             /\ IsFailed(s) => ~registry \/ jobs[n].target \in Undeclared
             /\ ~IsPending(s) /\ ~IsFailed(s) => jobs[n].snapshot
          \/ IsPending(s) /\ IsPending(jobs[n].status)
          \/ u \in disturbed /\ s = jobs[n].status
      BY Zenon, <2>1 DEF Inv, HeldCopies
    <2>4. u \in disturbed \/ counted[u] = 0
      <3>1. IsPending(jobs[n].status) => ~JobFinished(jobs[n].status)
        BY Zenon DEF IsPending, JobFinished
      <3> QED BY Zenon, <2>1, <2>2, <2>3, <3>1
              DEF Inv, CountedExactly, Regular, Live, StatusOf
    <2>5. /\ \A v \in UIDs : v # u => counted'[v] = counted[v]
          /\ u \notin disturbed' => counted'[u] = IF JobFinished(s) THEN 1 ELSE 0
      <3>1. counted \in [UIDs -> Nat] /\ disturbed' = disturbed
        BY Zenon, <1>1, <1>2 DEF TypeOK, ClusterTypeOK
      <3>2. counted[u] = 0 => counted[u] + 1 = 1
        OBVIOUS
      <3> QED BY Zenon, <2>1, <2>2, <2>4, <3>1, <3>2, RecordEffect
    <2>6. \/ IsPending(s) \/ ~IsPending(jobs[n].status)
          \/ u \in disturbed'
          \/ /\ jobCache[n] = jobs[n]
             /\ ~registry \/ jobs[n].target \in Undeclared \/ jobs[n].snapshot
      BY Zenon, <1>2, <2>3
    <2> HIDE DEF s
    <2> QED BY Zenon, <1>1, <1>2, <1>3, <1>4, <2>1, <2>2, <2>5, <2>6, StatusWrite
  <1> QED BY Zenon, <1>8, <1>9, <1>10, <1>11, <1>12, <1>13, <1>14
          DEF JobController, Reconcile

\* The steps of VulnerabilityReportReconciler keep the invariant.
LEMMA InvCompletion ==
    ASSUME Inv, NEW i \in Images, WatchReport(i) \/ CompletionController(i)
    PROVE  Inv'
  <1>1. TypeOK' /\ TypeOK
    BY Zenon, TypeCompletion DEF Inv
  <1>2. /\ UNCHANGED <<jobCache, rec, created, registry, task, published, stream,
                       reports, disturbed>>
        /\ \A k \in Images : reportCache'[k] \in {reportCache[k], reports[k].uid}
    BY Zenon, <1>1 DEF WatchReport, CompletionController, ReconcileReport, SyncReport,
       SkipReport, CountReports, objectVars, queueVars, userVars, historyVars,
       controllerVars, admissionVars, TypeOK, ReportTypeOK
  <1>3. Causality' /\ Disturbs
    BY Zenon, <1>2 DEF Inv, Causality, InStream, Catalogued, Disturbs
  <1>4. CASE WatchReport(i) \/ SkipReport(i)
    <2>1. OnlyDeletes /\ UNCHANGED <<clock, counted>>
      BY Zenon, <1>4 DEF WatchReport, SyncReport, SkipReport, jobVars, OnlyDeletes
    <2>2. \A u \in UIDs : Catalogued(u)' => Catalogued(u)
      BY Zenon, <1>2 DEF Catalogued
    <2> QED BY Zenon, <1>1, <1>2, <1>3, <2>1, <2>2, PassiveStep
  <1>5. CASE CountReports(i)
    <2> DEFINE u == reportCache[i]
               n == NameOf[u]
               k == Cardinality(ReportsOf(u))
               s == CountedStatus(jobCache[n].status, k)
    <2>1. /\ u \in UIDs /\ n \in Names /\ Catalogued(u)
          /\ jobCache[n] # NoJob /\ jobCache[n].uid = u
          /\ ~IsComplete(jobCache[n].status)
          /\ jobs[n] # NoJob /\ jobs[n].rv = jobCache[n].rv
          /\ WriteStatus(n, s)
          /\ IF IsFailed(jobCache[n].status) THEN counted' = counted
                                             ELSE RecordScanJobFinished(u, s)
      BY Zenon, <1>1, <1>5, ClusterAssumption
         DEF CountReports, Counting, TypeOK, ReportTypeOK, Inv, Causality
    <2>2. jobCache[n] = jobs[n]
      BY Zenon, <2>1 DEF Inv, CacheAgrees, Cached
    <2>3. jobs[n].status \in Status /\ k \in Nat
      BY Zenon, <1>1, <2>1, ImageCount DEF TypeOK, ClusterTypeOK, ScanJob, ReportsOf
    <2>4. /\ s \in Status
          /\ IsFailed(jobs[n].status) => JobFinished(s)
      <3> DEFINE c == [jobs[n].status EXCEPT !.scannedImagesCount = k]
      <3>1. c \in Status /\ c.conds = jobs[n].status.conds
        BY Zenon, <2>3 DEF Status
      <3>2. "AllImagesScanned" \in Reasons /\ "ImageScanInProgress" \in Reasons
        BY Zenon DEF Reasons
      <3> QED BY Zenon, <2>2, <3>1, <3>2, MarkType
              DEF CountedStatus, JobFinished, IsFailed
    <2> HIDE DEF s, k
    <2>5. \A v \in UIDs : v # u => counted'[v] = counted[v]
      BY Zenon, <1>1, <2>1, RecordEffect DEF TypeOK, ClusterTypeOK
    <2>6. u \notin disturbed' => counted'[u] = IF JobFinished(s) THEN 1 ELSE 0
      <3>1. SUFFICES ASSUME u \notin disturbed
                     PROVE  counted'[u] = IF JobFinished(s) THEN 1 ELSE 0
        BY Zenon, <1>2
      <3>2. counted[u] = IF JobFinished(jobs[n].status) THEN 1 ELSE 0
        BY Zenon, <2>1, <2>2, <3>1 DEF Inv, CountedExactly, Regular, Live, StatusOf
      <3>3. CASE IsFailed(jobs[n].status)
        BY Zenon, <2>1, <2>2, <2>4, <3>2, <3>3 DEF JobFinished
      <3>4. CASE ~IsFailed(jobs[n].status)
        <4>1. counted[u] = 0 /\ counted \in [UIDs -> Nat]
          BY Zenon, <1>1, <2>1, <2>2, <3>2, <3>4 DEF JobFinished, TypeOK, ClusterTypeOK
        <4>2. counted[u] = 0 => counted[u] + 1 = 1
          OBVIOUS
        <4> QED BY Zenon, <2>1, <2>2, <3>4, <4>1, <4>2, RecordEffect
      <3> QED BY Zenon, <3>3, <3>4
    <2>7. jobs[n].uid = u
      BY Zenon, <2>1, <2>2
    <2>8. /\ Catalogued(jobs[n].uid)
          /\ \A v \in UIDs : v # jobs[n].uid => counted'[v] = counted[v]
          /\ jobs[n].uid \notin disturbed'
                => counted'[jobs[n].uid] = IF JobFinished(s) THEN 1 ELSE 0
      BY Zenon, <2>1, <2>5, <2>6, <2>7
    <2>9. n \in Names /\ jobs[n] # NoJob /\ s \in Status /\ WriteStatus(n, s)
      BY Zenon, <2>1, <2>4
    <2> HIDE DEF u, n
    <2> QED BY Zenon, <1>1, <1>2, <1>3, <2>8, <2>9, StatusWrite
  <1> QED BY Zenon, <1>4, <1>5 DEF CompletionController, ReconcileReport

-----------------------------------------------------------------------------
(* The workers, and what follows from the invariant.                       *)

\* The initial state satisfies the invariant.
LEMMA InvInit == Init => Inv
  <1> SUFFICES ASSUME Init
               PROVE  Inv
    BY Zenon
  <1>1. TypeOK
    BY Zenon, TypeInit
  <1>2. \A u \in UIDs : ~Catalogued(u) /\ ~Live(u)
    BY CatalogMessage, ClusterAssumption
       DEF Init, ClusterInit, QueueInit, Catalogued, Live
  <1>3. Causality
    BY <1>2 DEF Init, ClusterInit, QueueInit, ReportInit, NoReport, InStream,
       Causality
  <1> QED BY Zenon, <1>1, <1>2, <1>3
          DEF Init, ClusterInit, ControllerInit, QueueInit, Inv, Versions, Fresh,
              CacheAgrees, Published, Quiet, HeldCopies, Cached, Current,
              CountedExactly, Regular

\* The steps of a subscriber keep the invariant.
LEMMA InvSubscriber ==
    ASSUME Inv, NEW w \in Workers,
           \/ \E e \in Entries : Receive(w, e)
           \/ Acknowledge(w) \/ Crash(w) \/ HandlerError(w) \/ RetryLater(w)
           \/ GiveUp(w) \/ GiveUpSilently(w),
           UNCHANGED <<controllerVars, admissionVars, reportVars>>
    PROVE  Inv'
  <1>1. TypeOK' /\ TypeOK
    BY Zenon, TypeSubscriber DEF Inv
  <1>2. UNCHANGED <<reportCache, published, reports, registry>>
    BY Zenon DEF Receive, Deliver, Acknowledge, Ack, Crash, Abandon, HandlerError,
       RetryLater, Nak, GiveUp, GiveUpSilently, objectVars, userVars, queueVars,
       reportVars
  <1>3. \A u \in UIDs : Catalogued(u)' <=> Catalogued(u)
    BY Zenon, <1>2 DEF Catalogued
  <1>4. \A e \in Entries : InStream(e)' => InStream(e)
    <2>1. stream \in [Entries -> Delivery]
      BY Zenon, <1>1 DEF TypeOK, ClusterTypeOK, QueueTypeOK
    <2>2. CASE UNCHANGED stream
      BY Zenon, <2>2 DEF InStream
    <2>3. ASSUME NEW e \in Entries, Deliver(w, e)
          PROVE  \A f \in Entries : InStream(f)' => InStream(f)
      BY Zenon, <2>1, <2>3 DEF Deliver, InStream
    <2>4. CASE Ack(w)
      BY Zenon, <2>1, <2>4 DEF Ack, InStream, Delivery
    <2>5. CASE Nak(w)
      BY Zenon, <2>1, <2>5 DEF Nak, InStream, Delivery
    <2> QED BY Zenon, <2>2, <2>3, <2>4, <2>5
            DEF Receive, Acknowledge, Crash, Abandon, HandlerError, RetryLater,
                GiveUp, GiveUpSilently, queueVars
  <1>5. \A v \in Workers : task'[v] # NoTask =>
           \/ task'[v] = task[v]
           \/ task'[v].entry \in Entries /\ InStream(task'[v].entry)
    <2>1. task \in [Workers -> Task \cup {NoTask}]
      BY Zenon, <1>1 DEF TypeOK, ClusterTypeOK, QueueTypeOK
    <2>2. \/ task' = task \/ task' = [task EXCEPT ![w] = NoTask]
          \/ \E e \in Entries : Deliver(w, e)
      BY Zenon DEF Receive, Acknowledge, Ack, Crash, Abandon, HandlerError,
             RetryLater, Nak, GiveUp, GiveUpSilently
    <2>3. CASE task' = task \/ task' = [task EXCEPT ![w] = NoTask]
      <3>1. \A v \in Workers : task'[v] = task[v] \/ task'[v] = NoTask
        BY Zenon, <2>1, <2>3
      <3> QED BY Zenon, <3>1
    <2>4. ASSUME NEW e \in Entries, Deliver(w, e)
          PROVE  \A v \in Workers :
                    \/ task'[v] = task[v]
                    \/ task'[v].entry = e /\ InStream(e)
      BY Zenon, <2>1, <2>4 DEF Deliver, InStream
    <2>5. CASE \E e \in Entries : Deliver(w, e)
      BY Zenon, <2>4, <2>5
    <2> QED BY Zenon, <2>2, <2>3, <2>5
  <1>6. Causality'
    BY Zenon, <1>2, <1>4, <1>5, UnpublishedStep
  <1>7. CASE \/ \E e \in Entries : Receive(w, e)
             \/ Acknowledge(w) \/ Crash(w) \/ HandlerError(w) \/ RetryLater(w)
             \/ GiveUpSilently(w)
    <2>1. UNCHANGED <<jobs, clock, counted>>
      BY Zenon, <1>7 DEF Receive, Acknowledge, Crash, HandlerError, RetryLater,
         GiveUpSilently, jobVars
    <2>2. UNCHANGED disturbed \/ Disturb({UID(w)})
      BY Zenon, <1>7 DEF Receive, Acknowledge, Crash, HandlerError, RetryLater,
         GiveUpSilently, historyVars
    <2>3. Disturbs
      <3>1. CASE UNCHANGED disturbed
        BY Zenon, <3>1 DEF Disturbs
      <3> QED BY Zenon, <2>2, <3>1, DisturbExisting
    <2> QED BY Zenon, <1>1, <1>2, <1>3, <1>6, <2>1, <2>3, WorkerStep
  <1>8. CASE GiveUp(w)
    <2> DEFINE n == Name(w)
    <2>1. UID(w) \in UIDs /\ n \in Names /\ Catalogued(UID(w))
      BY Zenon, <1>8, WorkerCause DEF GiveUp, At
    <2>2. CASE jobs[n] = NoJob
      <3>1. UNCHANGED <<jobs, clock, counted, disturbed>>
        BY Zenon, <1>8, <2>2 DEF GiveUp, jobVars
      <3> QED BY Zenon, <1>1, <1>2, <1>3, <1>6, <3>1, WorkerStep DEF Disturbs
    <2>3. CASE jobs[n] # NoJob
      <3> DEFINE u == jobs[n].uid
                 s == MarkFailed(jobs[n].status, "InternalError")
      <3>1. /\ WriteStatus(n, s)
            /\ IF JobFinished(jobs[n].status) THEN counted' = counted
                                              ELSE RecordScanJobFinished(u, s)
            /\ disturbed' = disturbed \cup ({u} \ {UID(w)})
        BY Zenon, <1>8, <2>3 DEF GiveUp
      <3>2. /\ u \in UIDs /\ jobs[n].status \in Status
            /\ u \in created /\ NameOf[u] = n
        BY Zenon, <1>1, <2>1, <2>3, JobTypes DEF Inv, Versions, Fresh
      <3>3. s \in Status /\ JobFinished(s)
        BY Zenon, <3>2, MarkType, MarkEffect, ReasonFacts
      <3> HIDE DEF s
      <3>4. Disturbs /\ (u = UID(w) \/ u \in disturbed')
        BY Zenon, <3>1, <3>2 DEF Disturbs
      <3>5. /\ \A v \in UIDs : v # u => counted'[v] = counted[v]
            /\ u \notin disturbed' => counted'[u] = 1
        <4>1. counted \in [UIDs -> Nat]
          BY Zenon, <1>1 DEF TypeOK, ClusterTypeOK
        <4>2. u \notin disturbed' =>
                 counted[u] = IF JobFinished(jobs[n].status) THEN 1 ELSE 0
          BY Zenon, <2>3, <3>2, <3>4
             DEF Inv, CountedExactly, Regular, Live, StatusOf, Disturbs
        <4>3. counted[u] = 0 => counted[u] + 1 = 1
          OBVIOUS
        <4> QED BY Zenon, <3>1, <3>2, <3>3, <4>1, <4>2, <4>3, RecordEffect
      <3>6. UNCHANGED <<jobCache, rec, created>>
        BY Zenon DEF controllerVars, admissionVars
      <3> QED BY Zenon, <1>1, <1>2, <1>6, <2>1, <2>3, <3>1, <3>2, <3>3, <3>4, <3>5,
                 <3>6, StatusWrite
    <2> QED BY Zenon, <2>2, <2>3
  <1> QED BY Zenon, <1>7, <1>8

\* The steps of CreateCatalogHandler keep the invariant.
LEMMA InvCatalog ==
    ASSUME Inv, NEW w \in Workers,
           \/ CatalogStart(w) \/ CatalogDiscover(w) \/ CatalogList(w)
           \/ CatalogObsolete(w) \/ CatalogUpdate(w)
           \/ \E i \in Images : \/ CatalogCreateImage(w, i)
                                \/ CatalogDeleteImage(w, i)
                                \/ CatalogPublish(w, i),
           UNCHANGED <<controllerVars, admissionVars, reportVars>>
    PROVE  Inv'
  <1> DEFINE u == UID(w)
             n == Name(w)
  <1>1. TypeOK' /\ TypeOK
    BY Zenon, TypeCatalog DEF Inv
  <1>2. /\ task[w] # NoTask
        /\ UNCHANGED <<task, reports, reportCache, registry, jobCache, rec, created>>
    BY Zenon DEF CatalogStart, CatalogDiscover, CatalogList, CatalogObsolete,
           CatalogUpdate, CatalogCreateImage, CatalogDeleteImage,
           CatalogPublish, Handling, At, objectVars, userVars, controllerVars,
           admissionVars, reportVars
  <1>3. u \in UIDs /\ n \in Names /\ NameOf[u] = n /\ Catalogued(u)
    BY Zenon, <1>2, WorkerCause DEF Name
  <1>4. ASSUME UNCHANGED <<published, stream>>
        PROVE  Causality' /\ \A v \in UIDs : Catalogued(v)' => Catalogued(v)
    BY Zenon, <1>2, <1>4, UnpublishedStep DEF InStream, Catalogued
  <1>5. ASSUME Live(u)
        PROVE  /\ jobs[n] # NoJob /\ jobs[n].uid = u /\ jobs[n].status \in Status
               /\ StatusOf(u) = jobs[n].status
    BY Zenon, <1>1, <1>3, <1>5 DEF Live, StatusOf, TypeOK, ClusterTypeOK, ScanJob
  <1>6. counted \in [UIDs -> Nat]
    BY Zenon, <1>1 DEF TypeOK, ClusterTypeOK
  <1>7. CASE \/ CatalogDiscover(w) \/ CatalogList(w) \/ CatalogObsolete(w)
             \/ \E i \in Images : CatalogCreateImage(w, i) \/ CatalogDeleteImage(w, i)
    <2>1. UNCHANGED <<jobs, clock, counted, published, stream, disturbed>>
      BY Zenon, <1>7 DEF CatalogDiscover, CatalogList, CatalogObsolete,
         CatalogCreateImage, CatalogDeleteImage, jobVars, queueVars, historyVars
    <2> QED BY Zenon, <1>1, <1>2, <1>4, <2>1, WorkerStep DEF Disturbs
  <1>8. CASE CatalogStart(w)
    <2>1. UNCHANGED <<counted, published, stream, disturbed>> /\ Disturbs
      BY Zenon, <1>8 DEF CatalogStart, queueVars, historyVars, Disturbs
    <2>2. CASE ~Live(u) \/ JobFinished(StatusOf(u))
      <3>1. UNCHANGED <<jobs, clock>>
        BY Zenon, <1>8, <2>2 DEF CatalogStart, jobVars
      <3> QED BY Zenon, <1>1, <1>2, <1>4, <2>1, <3>1, WorkerStep
    <2>3. CASE Live(u) /\ ~JobFinished(StatusOf(u))
      <3> DEFINE s == MarkInProgress(StatusOf(u), "CatalogCreationInProgress")
      <3>1. WriteStatus(n, s)
        BY Zenon, <1>8, <2>3 DEF CatalogStart
      <3>2. s \in Status /\ ~JobFinished(s)
        BY Zenon, <1>5, <2>3, MarkType, MarkEffect,
           ReasonFacts
      <3> HIDE DEF s
      <3>3. u \notin disturbed' => counted'[u] = IF JobFinished(s) THEN 1 ELSE 0
        BY Zenon, <1>3, <2>1, <2>3, <3>2 DEF Inv, CountedExactly, Regular
      <3> QED BY Zenon, <1>1, <1>2, <1>3, <1>4, <1>5, <2>1, <2>3, <3>1, <3>2, <3>3,
                 StatusWrite
    <2> QED BY Zenon, <2>2, <2>3
  <1>9. CASE CatalogUpdate(w)
    <2>1. UNCHANGED <<published, stream>>
      BY Zenon, <1>9 DEF CatalogUpdate, queueVars
    <2>2. CASE ~Live(u)
      <3>1. UNCHANGED <<jobs, clock, counted, disturbed>>
        BY Zenon, <1>9, <2>2 DEF CatalogUpdate, jobVars, historyVars
      <3> QED BY Zenon, <1>1, <1>2, <1>4, <2>1, <3>1, WorkerStep DEF Disturbs
    <2>3. CASE Live(u)
      <3> DEFINE f == local[w].found
                 s == CatalogStatus(StatusOf(u), f)
                 was == JobFinished(StatusOf(u))
      <3>1. /\ WriteStatus(n, s)
            /\ IF was THEN counted' = counted ELSE RecordScanJobFinished(u, s)
            /\ disturbed' = IF was \/ catalog[u] \notin {{}, f}
                            THEN disturbed \cup {u} ELSE disturbed
        BY Zenon, <1>9, <2>3 DEF CatalogUpdate
      <3>2. s \in Status
        <4>1. f \subseteq Images
          BY Zenon, <1>1 DEF TypeOK, WorkerTypeOK, Local
        <4> QED BY Zenon, <1>5, <2>3, <4>1, CatalogStatusType
      <3>3. u \in created
        BY Zenon, <1>3, <1>5, <2>3 DEF Inv, Fresh
      <3> HIDE DEF s
      <3>4. Disturbs /\ (was => u \in disturbed')
        BY Zenon, <3>1, <3>3 DEF Disturbs
      <3>5. /\ \A v \in UIDs : v # u => counted'[v] = counted[v]
            /\ u \notin disturbed' => counted'[u] = IF JobFinished(s) THEN 1 ELSE 0
        <4>1. CASE was
          BY Zenon, <3>1, <3>4, <4>1
        <4>2. CASE ~was
          <5>1. counted[u] = 0 => counted[u] + 1 = 1
            OBVIOUS
          <5>2. u \notin disturbed' => counted[u] = 0
            BY Zenon, <1>3, <2>3, <3>4, <4>2
               DEF Inv, CountedExactly, Regular, Disturbs
          <5> QED BY Zenon, <1>3, <1>6, <3>1, <4>2, <5>1, <5>2, RecordEffect
        <4> QED BY Zenon, <4>1, <4>2
      <3> QED BY Zenon, <1>1, <1>2, <1>3, <1>4, <1>5, <2>1, <2>3, <3>1, <3>2, <3>4,
                 <3>5, StatusWrite
    <2> QED BY Zenon, <2>2, <2>3
  <1>10. ASSUME NEW i \in Images, CatalogPublish(w, i)
         PROVE  Inv'
    <2> DEFINE m == Message("generateSBOM", u, i)
    <2>1. m \in ScanMessages /\ m.uid = u
      BY Zenon, <1>3 DEF Message, ScanMessages
    <2>2. Publish(m) /\ UNCHANGED <<jobs, clock, counted, disturbed>>
      BY Zenon, <1>10 DEF CatalogPublish, jobVars, historyVars
    <2> HIDE DEF m
    <2>3. Causality' /\ \A v \in UIDs : Catalogued(v)' => Catalogued(v)
      BY Zenon, <1>2, <2>1, <2>2, PublishingStep
    <2> QED BY Zenon, <1>1, <1>2, <2>2, <2>3, WorkerStep DEF Disturbs
  <1> QED BY Zenon, <1>7, <1>8, <1>9, <1>10

\* The steps of GenerateSBOMHandler and ScanSBOMHandler keep the invariant.
LEMMA InvScan ==
    ASSUME Inv, NEW w \in Workers,
           \/ GenerateStart(w) \/ GenerateCreate(w) \/ GeneratePublish(w)
           \/ ScanStart(w)
           \/ \E newResults \in BOOLEAN : ScanReport(w, newResults),
           UNCHANGED <<controllerVars, admissionVars, reportVars>>
    PROVE  Inv'
  <1> DEFINE u == UID(w)
             i == M(w).img
  <1>1. TypeOK' /\ TypeOK
    BY Zenon, TypeScan DEF Inv
  <1>2. /\ task[w] # NoTask /\ M(w).kind # "createCatalog"
        /\ UNCHANGED <<jobs, clock, registry, counted, task, reportCache>>
    BY Zenon DEF GenerateStart, GenerateCreate, GeneratePublish, ScanStart,
           ScanReport, Handling, At, jobVars, userVars, reportVars
  <1>3. u \in UIDs /\ i \in Images /\ Catalogued(u)
    BY Zenon, <1>1, <1>2, WorkerCause, MessageFacts
  <1>4. Disturbs
    <2>1. \/ UNCHANGED disturbed
          \/ \E S \in {{u}, {reports[i].uid} \ {u}} : Disturb(S)
      BY Zenon DEF GenerateStart, GenerateCreate, GeneratePublish, ScanStart,
             ScanReport, historyVars
    <2>2. CASE UNCHANGED disturbed
      BY Zenon, <2>2 DEF Disturbs
    <2> QED BY Zenon, <2>1, <2>2, DisturbExisting
  <1>5. CASE GeneratePublish(w)
    <2> DEFINE m == Message("scanSBOM", u, i)
    <2>1. m \in ScanMessages /\ m.uid = u
      BY Zenon, <1>3 DEF Message, ScanMessages
    <2>2. Publish(m) /\ UNCHANGED reports
      BY Zenon, <1>5 DEF GeneratePublish, objectVars
    <2> HIDE DEF m
    <2>3. Causality' /\ \A v \in UIDs : Catalogued(v)' => Catalogued(v)
      BY Zenon, <1>2, <2>1, <2>2, PublishingStep
    <2> QED BY Zenon, <1>1, <1>2, <1>4, <2>3, WorkerStep
  <1>6. CASE \/ GenerateStart(w) \/ GenerateCreate(w) \/ ScanStart(w)
             \/ \E newResults \in BOOLEAN : ScanReport(w, newResults)
    <2>1. UNCHANGED <<published, stream>>
      BY Zenon, <1>6 DEF GenerateStart, GenerateCreate, ScanStart, ScanReport, queueVars
    <2>2. \A k \in Images : reports'[k].uid \in {reports[k].uid, u}
      <3>1. reports \in [Images -> Report]
        BY Zenon, <1>1 DEF TypeOK, ClusterTypeOK
      <3>2. \/ reports' = reports
            \/ \E o : reports' = [reports EXCEPT ![i] = [uid |-> u, owner |-> o]]
        BY Zenon, <1>6
           DEF GenerateStart, GenerateCreate, ScanStart, ScanReport, objectVars
      <3>3. CASE reports' = reports
        BY Zenon, <3>3
      <3>4. ASSUME NEW o, reports' = [reports EXCEPT ![i] = [uid |-> u, owner |-> o]]
            PROVE  \A k \in Images : reports'[k].uid \in {reports[k].uid, u}
        <4> HIDE DEF i, u
        <4>1. \A k \in Images : k # i => reports'[k] = reports[k]
          BY Zenon, <3>1, <3>4
        <4>2. reports'[i].uid = u
          BY Zenon, <1>3, <3>1, <3>4
        <4> QED BY Zenon, <4>1, <4>2
      <3> QED BY Zenon, <3>2, <3>3, <3>4
    <2>3. Causality'
      BY Zenon, <1>2, <1>3, <2>1, <2>2, UnpublishedStep DEF InStream
    <2> QED BY Zenon, <1>1, <1>2, <1>4, <2>1, <2>3, WorkerStep DEF Catalogued
  <1> QED BY Zenon, <1>5, <1>6

-----------------------------------------------------------------------------

\* Every step of the scan keeps the invariant.
LEMMA InvStep == Inv /\ [Next]_vars => Inv'
  <1> SUFFICES ASSUME Inv, [Next]_vars
               PROVE  Inv'
    BY Zenon
  <1>1. CASE Users \/ Environment \/ RestartController
    BY Zenon, <1>1, InvUsers, InvEnvironment, InvRestart
  <1>2. ASSUME NEW n \in Names, WatchScanJob(n) \/ JobController(n)
        PROVE  Inv'
    BY Zenon, <1>2, InvWatch, InvJobController
  <1>3. ASSUME NEW i \in Images, WatchReport(i) \/ CompletionController(i)
        PROVE  Inv'
    BY Zenon, <1>3, InvCompletion
  <1>4. ASSUME NEW w \in Workers, Consume(w) \/ Failures(w)
        PROVE  Inv'
    BY Zenon, <1>4, InvSubscriber, InvCatalog, InvScan DEF Consume, Failures, Handle
  <1>5. ASSUME NEW e \in Entries, Redelivery(e)
        PROVE  Inv'
    <2>1. /\ UNCHANGED <<jobs, clock, registry, counted, disturbed, published, task,
                         reports, reportCache>>
          /\ Redeliver(e)
      BY Zenon, <1>5 DEF Redelivery, AckWaitElapsed, Redeliver, jobVars, objectVars,
         userVars, historyVars, reportVars
    <2>2. TypeOK' /\ stream \in [Entries -> Delivery]
      BY Zenon, <1>5, TypeStep DEF Next, Inv, TypeOK, ClusterTypeOK, QueueTypeOK
    <2>3. \A f \in Entries : InStream(f)' => InStream(f)
      BY Zenon, <2>1, <2>2 DEF Redeliver, InStream, Delivery
    <2>4. Causality'
      BY Zenon, <2>1, <2>3, UnpublishedStep
    <2> QED BY Zenon, <1>5, <2>1, <2>2, <2>4, WorkerStep
            DEF Redelivery, Disturbs, Catalogued
  <1>6. CASE UNCHANGED vars
    <2>1. TypeOK'
      BY Zenon, TypeStep DEF Inv
    <2>2. Causality'
      BY Zenon, <1>6 DEF vars, Inv, Causality, Catalogued, InStream
    <2> QED BY Zenon, <1>6, <2>1, <2>2, WorkerStep
            DEF vars, Disturbs, Catalogued, controllerVars, admissionVars
  <1> QED BY Zenon, <1>1, <1>2, <1>3, <1>4, <1>5, <1>6 DEF Next

\* The invariant holds throughout every scan.
THEOREM Invariance == Spec => []Inv
  BY InvInit, InvStep, PTL DEF Spec

\* The completion metric of an undisturbed job is exact: 1 once the job is
\* finished and 0 before, whichever of the controller, the completion
\* controller, the catalogue handler and the failure handler finishes it, for
\* any number of workers, redeliveries, crashes and stale reads.
THEOREM CountedExactlyOnce == Spec => []CountedExactly
  <1>1. Inv => CountedExactly
    BY Zenon DEF Inv
  <1> QED BY <1>1, Invariance, PTL

\* A handler always finds the Registry snapshot on the job of its message: the
\* controller publishes only what it has read back annotated.
THEOREM SnapshotFirst == Spec => []SnapshotBeforeMessage
  <1>1. Inv => SnapshotBeforeMessage
    <2>1. \A m \in ScanMessages : m.uid \in UIDs
      BY Zenon DEF ScanMessages
    <2> QED BY Zenon, <2>1 DEF Inv, Causality, Published, SnapshotBeforeMessage
  <1> QED BY <1>1, Invariance, PTL

-----------------------------------------------------------------------------
(* No step takes a job back to pending or scheduled.                       *)

\* Going from status s to status t does not go back before s.
Onward(s, t) == ~IsPending(s) => ~IsPending(t) /\ (IsScheduled(t) => IsScheduled(s))

OnwardStep ==
    \A n \in Names :
        jobs[n] # NoJob /\ jobs'[n] # NoJob /\ jobs'[n].uid = jobs[n].uid
            => Onward(jobs[n].status, jobs'[n].status)

\* A status write is a step onward if the status written is.
LEMMA OnwardWrite ==
    ASSUME TypeOK, NEW n \in Names, jobs[n] # NoJob, NEW s \in Status,
           WriteStatus(n, s), Onward(jobs[n].status, s)
    PROVE  OnwardStep
  <1>1. \A m \in Names : m # n => jobs'[m] = jobs[m]
    BY Zenon, WriteEffect
  <1>2. jobs'[n].status = s
    BY Zenon, WriteEffect
  <1> QED BY Zenon, <1>1, <1>2 DEF OnwardStep, Onward

\* Counting reports takes a job onward; a failed job stays failed.
LEMMA CountedOnward ==
    ASSUME NEW s \in Status, NEW k \in Nat
    PROVE  CountedStatus(s, k) \in Status /\ Onward(s, CountedStatus(s, k))
  <1> DEFINE c == [s EXCEPT !.scannedImagesCount = k]
  <1>1. c \in Status /\ c.conds = s.conds
    BY Zenon DEF Status
  <1>2. "AllImagesScanned" \in Reasons /\ "ImageScanInProgress" \in Reasons
    BY Zenon DEF Reasons
  <1>3. CASE IsFailed(s)
    BY Zenon, <1>1, <1>3 DEF CountedStatus, Onward, IsPending, IsScheduled,
       IsInProgress, IsComplete, IsFailed
  <1>4. CASE ~IsFailed(s)
    <2> HIDE DEF c
    <2>1. CountedStatus(s, k) \in {MarkComplete(c, "AllImagesScanned"),
                                   MarkInProgress(c, "ImageScanInProgress")}
      BY Zenon, <1>4 DEF CountedStatus, c
    <2> QED BY Zenon, <1>1, <1>2, <2>1, MarkType, MarkEffect DEF Onward
  <1> QED BY Zenon, <1>3, <1>4

\* The catalogue leaves a job in progress or complete.
LEMMA CatalogOnward ==
    ASSUME NEW s \in Status, NEW f
    PROVE  ~IsPending(CatalogStatus(s, f)) /\ ~IsScheduled(CatalogStatus(s, f))
  <1>1. "NoImagesToScan" \in Reasons /\ "SBOMGenerationInProgress" \in Reasons
    BY Zenon DEF Reasons
  <1>2. CASE f = {}
    BY Zenon, <1>1, <1>2, MarkEffect DEF CatalogStatus
  <1>3. CASE f # {}
    BY Zenon, <1>3 DEF CatalogStatus, MarkInProgress, OnlyTrue, CondTypes, Status,
       IsPending, IsScheduled, IsInProgress
  <1> QED BY Zenon, <1>2, <1>3

\* Every step of the scan takes every job onward.
LEMMA OnwardNext ==
    ASSUME Inv, [Next]_vars
    PROVE  OnwardStep
  <1>1. TypeOK
    BY Zenon DEF Inv
  <1>2. OnlyDeletes => OnwardStep
    BY Zenon DEF OnlyDeletes, OnwardStep, Onward
  <1>3. ASSUME NEW n \in Names, jobs[n] # NoJob
        PROVE  jobs[n].status \in Status /\ jobs[n].uid \in UIDs
    BY Zenon, <1>1, <1>3 DEF TypeOK, ClusterTypeOK, ScanJob
  <1>4. CASE Users
    <2>1. CASE jobs' = jobs
      BY Zenon, <1>2, <2>1 DEF OnlyDeletes
    <2>2. ASSUME NEW n \in Names, DeleteScanJob(n)
          PROVE  OnwardStep
      BY Zenon, <1>1, <1>2, <2>2 DEF DeleteScanJob, OnlyDeletes, TypeOK, ClusterTypeOK
    <2>3. ASSUME NEW u \in UIDs, CreateScanJob(u), jobs' # jobs
          PROVE  OnwardStep
      <3>1. /\ jobs[NameOf[u]] = NoJob
            /\ \A m \in Names : m # NameOf[u] => jobs'[m] = jobs[m]
        BY Zenon, <1>1, <2>3 DEF CreateScanJob, jobVars, TypeOK, ClusterTypeOK
      <3> QED BY Zenon, <3>1 DEF OnwardStep, Onward
    <2> QED BY Zenon, <1>4, <2>1, <2>2, <2>3 DEF Users, ValidateCreate, jobVars
  <1>5. CASE Environment \/ RestartController
    BY Zenon, <1>1, <1>2, <1>5
       DEF OnlyDeletes, Environment, ChangeTag, DeleteRegistry, CollectScanJob,
           CollectImage, CollectSBOM, CollectReport, RestartController, jobVars,
           TypeOK, ClusterTypeOK
  <1>6. ASSUME NEW n \in Names, WatchScanJob(n) \/ JobController(n)
        PROVE  OnwardStep
    <2>1. CASE SnapshotRegistry(n)
      <3>1. /\ JobsAfterCleanup[n] = jobs[n]
            /\ jobs'[n].status = jobs[n].status
            /\ \A m \in Names : m # n => jobs'[m] \in {jobs[m], NoJob}
        BY Zenon, <2>1 DEF SnapshotRegistry, JobsAfterCleanup, Annotated
      <3> QED BY Zenon, <3>1 DEF OnwardStep, Onward
    <2>2. CASE UpdateScanJobStatus(n)
      <3> DEFINE s == rec[n].status
      <3>1. Current(n) /\ jobs[n] # NoJob /\ WriteStatus(n, s)
        BY Zenon, <2>2 DEF UpdateScanJobStatus, StatusUpdateAccepted, Current
      <3>2. s \in Status
        BY Zenon, <1>1, <3>1 DEF Current, TypeOK, ControllerTypeOK, Reconciliation
      <3>3. IsPending(jobs[n].status) \/ s = jobs[n].status
        BY Zenon, <3>1 DEF Inv, HeldCopies
      <3>4. Onward(jobs[n].status, s)
        BY Zenon, <3>3 DEF Onward
      <3> HIDE DEF s
      <3> QED BY Zenon, <1>1, <3>1, <3>2, <3>4, OnwardWrite
    <2>3. ~SnapshotRegistry(n) /\ ~UpdateScanJobStatus(n)
             => jobs' \in {jobs, JobsAfterCleanup}
      BY Zenon, <1>6 DEF WatchScanJob, SyncScanJob, JobController, Reconcile,
         SkipScanJob, RejectScanJob, ScheduleScanJob, FailReconcile,
         RetryScanJob, jobVars
    <2>4. jobs' \in {jobs, JobsAfterCleanup} => OnwardStep
      BY Zenon, <1>2 DEF JobsAfterCleanup, OnlyDeletes
    <2> QED BY Zenon, <2>1, <2>2, <2>3, <2>4
  <1>7. ASSUME NEW i \in Images, WatchReport(i) \/ CompletionController(i)
        PROVE  OnwardStep
    <2>1. CASE jobs' = jobs
      BY Zenon, <1>2, <2>1 DEF OnlyDeletes
    <2>2. CASE CountReports(i)
      <3> DEFINE u == reportCache[i]
                 n == NameOf[u]
                 k == Cardinality(ReportsOf(u))
                 s == CountedStatus(jobs[n].status, k)
      <3>1. /\ u \in UIDs /\ n \in Names /\ jobs[n] # NoJob
            /\ jobCache[n] # NoJob /\ jobs[n].rv = jobCache[n].rv
            /\ WriteStatus(n, CountedStatus(jobCache[n].status, k))
        BY Zenon, <1>1, <2>2, ClusterAssumption
           DEF CountReports, Counting, TypeOK, ReportTypeOK
      <3>2. jobCache[n] = jobs[n]
        BY Zenon, <3>1 DEF Inv, CacheAgrees, Cached
      <3>3. k \in Nat /\ jobs[n].status \in Status
        BY Zenon, <1>3, <3>1, ImageCount DEF ReportsOf
      <3>4. s \in Status /\ Onward(jobs[n].status, s)
        BY Zenon, <3>3, CountedOnward
      <3> QED BY Zenon, <1>1, <3>1, <3>2, <3>4, OnwardWrite
    <2> QED BY Zenon, <1>7, <2>1, <2>2 DEF WatchReport, SyncReport,
            CompletionController, ReconcileReport, SkipReport, jobVars
  <1>8. ASSUME NEW w \in Workers, Consume(w) \/ Failures(w)
        PROVE  OnwardStep
    <2> DEFINE u == UID(w)
               n == Name(w)
    <2>1. CASE jobs' = jobs
      BY Zenon, <1>2, <2>1 DEF OnlyDeletes
    <2>2. ASSUME task[w] # NoTask, jobs[n] # NoJob,
                 NEW s \in Status, WriteStatus(n, s),
                 ~IsPending(s), ~IsScheduled(s)
          PROVE  OnwardStep
      BY Zenon, <1>1, <2>2, MessageFacts, OnwardWrite DEF Onward
    <2>3. ASSUME Live(u), task[w] # NoTask
          PROVE  /\ jobs[n] # NoJob /\ StatusOf(u) \in Status
                 /\ local[w].found \subseteq Images
      BY Zenon, <1>1, <1>3, <2>3, MessageFacts
         DEF Live, StatusOf, Name, TypeOK, WorkerTypeOK, Local
    <2>4. CASE CatalogStart(w) /\ jobs' # jobs
      <3> DEFINE s == MarkInProgress(StatusOf(u), "CatalogCreationInProgress")
      <3>1. task[w] # NoTask /\ Live(u) /\ WriteStatus(n, s)
        BY Zenon, <2>4 DEF CatalogStart, Handling, At, jobVars
      <3>2. s \in Status /\ ~IsPending(s) /\ ~IsScheduled(s)
        BY Zenon, <2>3, <3>1, MarkType, MarkEffect,
           ReasonFacts
      <3> HIDE DEF s
      <3> QED BY Zenon, <2>2, <2>3, <3>1, <3>2
    <2>5. CASE CatalogUpdate(w) /\ jobs' # jobs
      <3> DEFINE s == CatalogStatus(StatusOf(u), local[w].found)
      <3>1. task[w] # NoTask /\ Live(u) /\ WriteStatus(n, s)
        BY Zenon, <2>5 DEF CatalogUpdate, Handling, At, jobVars
      <3>2. s \in Status /\ ~IsPending(s) /\ ~IsScheduled(s)
        BY Zenon, <2>3, <3>1, CatalogStatusType, CatalogOnward
      <3> HIDE DEF s
      <3> QED BY Zenon, <2>2, <2>3, <3>1, <3>2
    <2>6. CASE GiveUp(w) /\ jobs' # jobs
      <3> DEFINE s == MarkFailed(jobs[n].status, "InternalError")
      <3>1. task[w] # NoTask /\ jobs[n] # NoJob /\ WriteStatus(n, s)
        BY Zenon, <2>6 DEF GiveUp, At, jobVars
      <3>2. s \in Status /\ ~IsPending(s) /\ ~IsScheduled(s)
        BY Zenon, <1>1, <1>3, <3>1, MessageFacts, MarkType, MarkEffect,
           ReasonFacts
      <3> HIDE DEF s
      <3> QED BY Zenon, <2>2, <3>1, <3>2
    <2>7. \/ jobs' = jobs \/ CatalogStart(w) \/ CatalogUpdate(w) \/ GiveUp(w)
      BY Zenon, <1>8 DEF Consume, Failures, Handle, Receive, RetryLater, Acknowledge,
         Crash, HandlerError, GiveUpSilently, CatalogDiscover, CatalogList,
         CatalogCreateImage, CatalogObsolete, CatalogDeleteImage,
         CatalogPublish, GenerateStart, GenerateCreate, GeneratePublish,
         ScanStart, ScanReport, jobVars
    <2> QED BY Zenon, <2>1, <2>4, <2>5, <2>6, <2>7
  <1>9. CASE UNCHANGED vars \/ \E e \in Entries : Redelivery(e)
    BY Zenon, <1>2, <1>9 DEF OnlyDeletes, vars, Redelivery, AckWaitElapsed, jobVars
  <1> QED BY Zenon, <1>4, <1>5, <1>6, <1>7, <1>8, <1>9 DEF Next

\* A job that has left the pending state never returns to it or to scheduled,
\* although the controller writes from a copy it may have held for long.
THEOREM NoRescheduling == Spec => NeverRescheduled
  <1>1. ASSUME Inv, [Next]_vars
        PROVE  \A u \in UIDs :
                  Live(u) /\ ~IsPending(StatusOf(u)) /\ Live(u)'
                     => /\ ~IsPending(StatusOf(u)')
                        /\ IsScheduled(StatusOf(u)') => IsScheduled(StatusOf(u))
    BY Zenon, <1>1, OnwardNext, ClusterAssumption
       DEF OnwardStep, Onward, Live, StatusOf
  <1> QED BY <1>1, Invariance, PTL DEF Spec, NeverRescheduled

-----------------------------------------------------------------------------
(* The facts Progress rests on, of every step.                             *)

\* A catalogue is written for a job that exists, and over another one only at
\* the price of disturbing it.
CatalogKept ==
    \A u \in UIDs : \/ catalog'[u] = catalog[u]
                    \/ u \in created /\ (catalog[u] = {} \/ u \in disturbed')

\* What is shown of every step first: the jobs, and what the rest relies on.
StepFacts == JobFacts' /\ SettledStays /\ Grows /\ QueueMoves /\ CatalogKept

\* A step that leaves the queue and the history alone.
LEMMA StillFacts ==
    ASSUME UNCHANGED <<published, stream, task, catalog, labelled>>,
           disturbed \subseteq disturbed'
    PROVE  Grows /\ QueueMoves /\ CatalogKept
  BY Zenon, QueueStill DEF Grows, CatalogKept, Catalogued

\* The steps of the users.
LEMMA UserFacts ==
    ASSUME Inv, Progress, Users
    PROVE  StepFacts
  <1>1. TypeOK /\ JobFacts
    BY Zenon DEF Inv, Progress, JobFacts
  <1>2. UNCHANGED <<published, stream, task, catalog, labelled, disturbed,
                    jobCache, jobQueue, rec>>
    BY Zenon DEF Users, ValidateCreate, CreateScanJob, DeleteScanJob, queueVars,
       historyVars, controllerVars
  <1>3. Grows /\ QueueMoves /\ CatalogKept
    BY Zenon, <1>2, StillFacts
  <1>4. CASE OnlyDeletes
    BY Zenon, <1>1, <1>2, <1>3, <1>4, JobsDeleted DEF StepFacts
  <1>5. ASSUME NEW u \in UIDs, CreateScanJob(u), jobs' # jobs
        PROVE  StepFacts
    <2>0. PICK n \in Names : n = NameOf[u]
      BY Zenon, ClusterAssumption
    <2>1. /\ u \notin created /\ jobs[n] = NoJob
          /\ jobs' = [jobs EXCEPT ![n] =
                [uid |-> u, rv |-> clock + 1, stamp |-> clock + 1,
                 snapshot |-> FALSE, target |-> admitted[n],
                 status |-> EmptyStatus]]
      BY Zenon, <1>5, <2>0 DEF CreateScanJob, jobVars
    <2>2. /\ jobs'[n] = [uid |-> u, rv |-> clock + 1, stamp |-> clock + 1,
                         snapshot |-> FALSE, target |-> admitted[n],
                         status |-> EmptyStatus]
          /\ \A m \in Names : m # n => jobs'[m] = jobs[m]
      BY Zenon, <1>1, <2>1 DEF TypeOK, ClusterTypeOK
    <2>3. jobs'[n].uid = u /\ jobs'[n].rv = clock + 1 /\ jobs'[n].status = EmptyStatus
      BY <2>2
    <2>4. /\ jobCache[n] # NoJob => jobCache[n].rv # clock + 1 /\ jobCache[n].uid # u
          /\ rec[n] # NoRec => rec[n].rv # clock + 1
      <3>1. jobCache[n] # NoJob => jobCache[n].uid # u
        BY Zenon, <2>1 DEF Inv, Fresh
      <3>2. /\ jobCache[n] # NoJob => jobCache[n].rv # clock + 1
            /\ rec[n] # NoRec => rec[n].rv # clock + 1
        BY Zenon, <1>1, JobTypes, NewVersion DEF Inv, Versions
      <3> QED BY Zenon, <3>1, <3>2
    <2>5. jobs'[n] # NoJob => jobCache[n] # jobs'[n]
      BY Zenon, <2>3, <2>4
    <2>6. catalog[u] = {} /\ Cardinality({}) = 0
      BY Zenon, <2>1, EmptyCount DEF Progress, Catalogues
    <2>7. EmptyStatus.imagesCount = 0 /\ EmptyStatus.reason # "AllImagesScanned"
      BY DEF EmptyStatus
    <2>8. ~Current(n)'
      BY Zenon, <1>2, <2>3, <2>4 DEF Current
    <2>9. CountsAt(n)'
      BY Zenon, <1>2, <2>3, <2>6, <2>7, <2>8 DEF CountsAt
    <2>10. OnItsWayAt(n)'
      BY Zenon, <1>2, <2>3, <2>4, <2>5, <2>8, EmptyStatusFacts DEF OnItsWayAt, Cached
    <2>11. KeptAt(n)
      BY Zenon, <2>1, <2>3, <2>7 DEF KeptAt, Claims
    <2>12. JobFacts' /\ SettledStays
      BY Zenon, <1>1, <1>2, <1>3, <2>2, <2>9, <2>10, <2>11, OneName
    <2> QED BY Zenon, <1>3, <2>12 DEF StepFacts
  <1>6. OnlyDeletes \/ \E u \in UIDs : CreateScanJob(u) /\ jobs' # jobs
    BY Zenon, <1>1 DEF Users, ValidateCreate, DeleteScanJob, OnlyDeletes, jobVars,
       TypeOK, ClusterTypeOK
  <1> QED BY Zenon, <1>4, <1>5, <1>6

\* The steps of the environment.
LEMMA EnvironmentFacts ==
    ASSUME Inv, Progress, Environment
    PROVE  StepFacts
  <1>1. TypeOK /\ JobFacts
    BY Zenon DEF Inv, Progress, JobFacts
  <1>2. /\ UNCHANGED <<published, stream, task, catalog, labelled, jobCache, jobQueue, rec>>
        /\ disturbed \subseteq disturbed'
    BY Zenon DEF Environment, ChangeTag, DeleteRegistry, CollectScanJob, CollectImage,
       CollectSBOM, CollectReport, Disturb, queueVars, historyVars, controllerVars
  <1>3. OnlyDeletes
    BY Zenon, <1>1 DEF OnlyDeletes, Environment, ChangeTag, DeleteRegistry,
       CollectScanJob, CollectImage, CollectSBOM, CollectReport, jobVars,
       TypeOK, ClusterTypeOK
  <1> QED BY Zenon, <1>1, <1>2, <1>3, StillFacts, JobsDeleted DEF StepFacts

\* A restart of the controllers.
LEMMA RestartFacts ==
    ASSUME Inv, Progress, RestartController
    PROVE  StepFacts
  <1>1. TypeOK /\ JobFacts
    BY Zenon DEF Inv, Progress, JobFacts
  <1>2. /\ UNCHANGED <<published, stream, task, catalog, labelled, disturbed, jobs>>
        /\ jobCache' = jobs
        /\ jobQueue' = {n \in Names : jobs[n] # NoJob}
        /\ \A n \in Names : rec'[n] = NoRec
    BY Zenon DEF RestartController, jobVars, queueVars, historyVars
  <1>3. Counts'
    BY Zenon, <1>1, <1>2 DEF JobFacts, Counts, CountsAt, Current
  <1>4. OnItsWay'
    BY Zenon, <1>1, <1>2 DEF JobFacts, OnItsWay, OnItsWayAt, Current, Cached, Catalogued
  <1>5. NoPrematureCompletion' /\ SettledStays
    BY Zenon, <1>1, <1>2 DEF JobFacts, NoPrematureCompletion, SettledStays, Settled,
       Regular, Live, StatusOf
  <1> QED BY Zenon, <1>2, <1>3, <1>4, <1>5, StillFacts DEF StepFacts, JobFacts

\* The Mark functions set the reason and leave the counters.
LEMMA MarkCounts ==
    ASSUME NEW s \in Status, NEW r
    PROVE  /\ InitializeConditions(s).imagesCount = s.imagesCount
           /\ InitializeConditions(s).reason = "Pending"
           /\ MarkScheduled(s).imagesCount = s.imagesCount
           /\ MarkScheduled(s).reason = "Scheduled"
           /\ MarkInProgress(s, r).imagesCount = s.imagesCount
           /\ MarkInProgress(s, r).reason = r
           /\ MarkFailed(s, r).imagesCount = s.imagesCount
           /\ MarkFailed(s, r).reason = r
           /\ MarkComplete(s, r).imagesCount = s.imagesCount
           /\ MarkComplete(s, r).scannedImagesCount = s.scannedImagesCount
           /\ MarkComplete(s, r).reason = r
           /\ MarkComplete(s, r).conds = OnlyTrue("Complete")
  BY DEF Status, InitializeConditions, MarkScheduled, MarkInProgress, MarkFailed,
         MarkComplete

LEMMA InProgressCounts ==
    ASSUME NEW s \in Status, NEW r
    PROVE  /\ MarkInProgress(s, r).imagesCount = s.imagesCount
           /\ MarkInProgress(s, r).reason = r
  BY Zenon, MarkCounts

\* A pending status is not finished, and the status of a complete job is not
\* pending.
LEMMA PendingFacts ==
    ASSUME NEW s \in Status
    PROVE  /\ IsPending(s) => ~JobFinished(s) /\ ~IsFailed(s)
           /\ s.conds = OnlyTrue("Complete") => ~IsPending(s) /\ JobFinished(s)
  BY DEF OnlyTrue, CondTypes, IsPending, IsScheduled, IsInProgress, IsComplete,
         IsFailed, JobFinished

\* A watch event for a ScanJob.
LEMMA WatchFacts ==
    ASSUME Inv, Progress, NEW n \in Names, WatchScanJob(n)
    PROVE  StepFacts
  <1>1. TypeOK /\ JobFacts
    BY Zenon DEF Inv, Progress, JobFacts
  <1>2. /\ UNCHANGED <<published, stream, task, catalog, labelled, disturbed, jobs, rec>>
        /\ jobCache'[n] = jobs[n] /\ n \in jobQueue' /\ jobQueue \subseteq jobQueue'
        /\ \A m \in Names : m # n => jobCache'[m] = jobCache[m]
    BY Zenon, <1>1 DEF WatchScanJob, SyncScanJob, jobVars, queueVars, historyVars, TypeOK,
       ControllerTypeOK
  <1>3. Grows /\ QueueMoves /\ CatalogKept
    BY Zenon, <1>2, StillFacts
  <1>4. CountsAt(n) /\ OnItsWayAt(n)
    BY Zenon, <1>1 DEF JobFacts, Counts, OnItsWay
  <1>5. CountsAt(n)' /\ OnItsWayAt(n)' /\ KeptAt(n)
    BY Zenon, <1>2, <1>4 DEF CountsAt, OnItsWayAt, KeptAt, Current, Cached, Catalogued
  <1> QED BY Zenon, <1>1, <1>2, <1>3, <1>5, OneName DEF StepFacts

\* The steps of ScanJobReconciler.
LEMMA ReconcileFacts ==
    ASSUME Inv, Progress, NEW n \in Names, JobController(n)
    PROVE  StepFacts
  <1> DEFINE c == jobCache[n]
             init == InitializeConditions(c.status)
  <1>1. TypeOK /\ JobFacts
    BY Zenon DEF Inv, Progress, JobFacts
  <1>2. UNCHANGED <<jobCache, catalog, labelled, disturbed, task>>
    BY Zenon DEF JobController, Reconcile, SkipScanJob, RejectScanJob,
       SnapshotRegistry, ScheduleScanJob, FailReconcile, UpdateScanJobStatus,
       RetryScanJob, historyVars
  <1>3. ASSUME UNCHANGED <<published, stream>>
        PROVE  Grows /\ QueueMoves /\ CatalogKept
    BY Zenon, <1>2, <1>3, StillFacts
  <1>4. jobs' \in {jobs, JobsAfterCleanup} => OnlyDeletes
    BY Zenon DEF JobsAfterCleanup, OnlyDeletes
  <1>5. CountsAt(n) /\ OnItsWayAt(n)
    BY Zenon, <1>1 DEF JobFacts, Counts, OnItsWay
  <1>6. ASSUME Begin(n)
        PROVE  /\ CachedPending(n) /\ c.uid \in UIDs /\ jobQueue' = jobQueue \ {n}
               /\ init \in Status /\ IsPending(init)
               /\ init.imagesCount = c.status.imagesCount /\ ~Claims(init)
               /\ c # NoJob /\ c.rv \in Nat /\ c.rv # clock + 1
    <2>1. CachedPending(n) /\ c \in ScanJob /\ jobQueue' = jobQueue \ {n} /\ c # NoJob
      BY Zenon, <1>1, <1>6 DEF Begin, CachedPending, TypeOK, ControllerTypeOK
    <2>2. c.status \in Status /\ c.uid \in UIDs
      BY Zenon, <2>1 DEF ScanJob
    <2>3. init \in Status /\ IsPending(init)
      BY Zenon, <2>2, MarkType, MarkEffect, ReasonFacts
    <2>4. init.imagesCount = c.status.imagesCount /\ init.reason = "Pending"
      BY Zenon, <2>2, MarkCounts
    <2>5. c.rv \in Nat /\ c.rv # clock + 1
      BY Zenon, <1>1, <2>1, JobTypes, NewVersion DEF Inv, Versions
    <2>6. ~Claims(init)
      BY <2>4 DEF Claims
    <2> QED BY Zenon, <2>1, <2>2, <2>3, <2>4, <2>5, <2>6
  <1>7. CASE SkipScanJob(n)
    <2>1. /\ UNCHANGED <<jobs, clock, rec, published, stream>>
          /\ ~CachedPending(n) /\ rec[n] = NoRec /\ jobQueue' = jobQueue \ {n}
      BY Zenon, <1>7 DEF SkipScanJob, jobVars, queueVars
    <2>2. CountsAt(n)' /\ OnItsWayAt(n)' /\ KeptAt(n)
      BY Zenon, <1>2, <1>5, <2>1 DEF CountsAt, OnItsWayAt, KeptAt, Current, Cached,
         Catalogued, CachedPending
    <2> QED BY Zenon, <1>1, <1>2, <1>3, <2>1, <2>2, OneName DEF StepFacts
  <1>8. CASE RejectScanJob(n)
    <2> DEFINE r == IF ~registry THEN "RegistryNotFound" ELSE TargetReason(c.target)
               s == MarkFailed(init, r)
    <2>1. r \in Reasons /\ r # "AllImagesScanned"
      BY DEF Reasons, TargetReason
    <2>2. /\ Begin(n) /\ Hold(n, c.rv, s, FALSE) /\ jobs' = JobsAfterCleanup
          /\ UNCHANGED <<published, stream>>
      BY Zenon, <1>8 DEF RejectScanJob, queueVars
    <2> HIDE DEF r
    <2>3. /\ s \in Status /\ IsFailed(s) /\ ~IsPending(s)
          /\ s.imagesCount = c.status.imagesCount /\ ~Claims(s)
      BY Zenon, <1>6, <2>1, <2>2, MarkType, MarkEffect, MarkCounts DEF Claims
    <2> HIDE DEF s
    <2>4. JobFacts' /\ SettledStays
      BY Zenon, <1>1, <1>2, <1>3, <1>4, <1>6, <2>2, <2>3, CopyHeld
    <2> QED BY Zenon, <1>3, <2>2, <2>4 DEF StepFacts
  <1>9. CASE FailReconcile(n)
    <2>1. /\ Begin(n) /\ Hold(n, c.rv, init, TRUE)
          /\ jobs' \in {jobs, JobsAfterCleanup}
          /\ UNCHANGED <<published, stream>>
      BY Zenon, <1>9 DEF FailReconcile, queueVars
    <2>2. JobFacts' /\ SettledStays
      <3> HIDE DEF init
      <3> QED BY Zenon, <1>1, <1>2, <1>3, <1>4, <1>6, <2>1, CopyHeld
    <2> QED BY Zenon, <1>3, <2>1, <2>2 DEF StepFacts
  <1>10. CASE ScheduleScanJob(n)
    <2>0. PICK u \in UIDs : u = c.uid /\ Begin(n)
      BY Zenon, <1>6, <1>10 DEF ScheduleScanJob
    <2>1. PICK m0 \in ScanMessages : m0 = Message("createCatalog", u, NoImage)
      BY Zenon, CatalogMessage
    <2>2. /\ Publish(m0) /\ jobs' = JobsAfterCleanup
          /\ \/ Hold(n, c.rv, MarkScheduled(init), FALSE)
             \/ Hold(n, c.rv, init, TRUE)
      BY Zenon, <1>10, <2>0, <2>1 DEF ScheduleScanJob
    <2>3. QueueMoves /\ published'[m0] > 0
      BY Zenon, <1>1, <1>2, <2>2, PublishMoves
    <2>4. Grows /\ CatalogKept
      BY Zenon, <1>2, <2>3, CatalogMessage DEF Grows, CatalogKept, QueueMoves, Catalogued
    <2>5. Catalogued(c.uid)'
      BY Zenon, <1>2, <2>0, <2>1, <2>3 DEF Catalogued
    <2>6. CASE Hold(n, c.rv, init, TRUE)
      <3> HIDE DEF init
      <3> QED BY Zenon, <1>1, <1>2, <1>4, <1>6, <2>0, <2>2, <2>3, <2>4, <2>6, CopyHeld
              DEF StepFacts
    <2>7. CASE Hold(n, c.rv, MarkScheduled(init), FALSE)
      <3> DEFINE s == MarkScheduled(init)
      <3>1. s \in Status /\ ~IsPending(s)
        BY Zenon, <1>6, <2>0, MarkType, MarkEffect, ReasonFacts
      <3>2. s.imagesCount = c.status.imagesCount /\ s.reason = "Scheduled"
        BY Zenon, <1>6, <2>0, MarkCounts
      <3>3. ~Claims(s)
        BY <3>2 DEF Claims
      <3> HIDE DEF s
      <3>4. Hold(n, c.rv, s, FALSE)
        BY Zenon, <2>7 DEF s
      <3> QED BY Zenon, <1>1, <1>2, <1>4, <1>6, <2>0, <2>2, <2>3, <2>4, <2>5, <3>1, <3>2,
                 <3>3, <3>4, CopyHeld DEF StepFacts
    <2> QED BY Zenon, <2>2, <2>6, <2>7
  <1>11. CASE SnapshotRegistry(n)
    <2> DEFINE j == jobs[n]
               s == IF j.status.conds = EmptyStatus.conds
                    THEN InitializeConditions(j.status) ELSE j.status
    <2>1. /\ Begin(n) /\ registry /\ c.target \notin Undeclared /\ ~c.snapshot
          /\ JobsAfterCleanup[n] = j /\ j # NoJob
          /\ jobs' = [JobsAfterCleanup EXCEPT ![n] = Annotated(j, clock + 1)]
          /\ Hold(n, clock + 1, s, FALSE)
          /\ UNCHANGED <<published, stream>>
      <3>1. JobsAfterCleanup[n] # NoJob
        BY Zenon, <1>11 DEF SnapshotRegistry
      <3>2. JobsAfterCleanup[n] = j
        BY Zenon, <3>1 DEF JobsAfterCleanup
      <3> QED BY Zenon, <1>11, <3>1, <3>2 DEF SnapshotRegistry, queueVars
    <2>2. j \in ScanJob /\ j.status \in Status /\ clock + 1 \in Nat
      BY Zenon, <1>1, <2>1, JobTypes, NewVersion
    <2>3. /\ \A m \in Names : m # n => jobs'[m] \in {jobs[m], NoJob}
          /\ rec'[n].status = s
          /\ \A m \in Names : m # n => rec'[m] = rec[m]
      BY Zenon, <1>1, <2>1 DEF JobsAfterCleanup, Hold, TypeOK, ControllerTypeOK
    <2>4. jobs'[n].uid = j.uid /\ jobs'[n].status = j.status /\ jobs'[n].rv = clock + 1
      <3>1. jobs'[n] = Annotated(j, clock + 1)
        BY Zenon, <2>1 DEF JobsAfterCleanup
      <3>2. /\ Annotated(j, clock + 1).uid = j.uid
            /\ Annotated(j, clock + 1).rv = clock + 1
            /\ Annotated(j, clock + 1).status = j.status
        BY Zenon, <2>2, AnnotatedFacts
      <3> QED BY Zenon, <3>1, <3>2
    <2>5. c # jobs'[n] /\ ~JobFinished(c.status)
      BY Zenon, <1>6, <2>1, <2>4 DEF CachedPending, IsPending, JobFinished
    <2>6. j.uid \notin disturbed => IsPending(j.status)
      BY Zenon, <1>6, <2>1 DEF Inv, Quiet, Cached, CachedPending
    <2>7. IsPending(j.status) => IsPending(s)
      BY Zenon, <2>2, MarkEffect, ReasonFacts
    <2>8. s.imagesCount = j.status.imagesCount /\ (Claims(s) => Claims(j.status))
      BY Zenon, <2>2, MarkCounts DEF Claims
    <2>9. j.uid \notin disturbed => ~Claims(j.status)
      BY Zenon, <1>5, <2>1, <2>2, <2>6, PendingFacts DEF CountsAt, Claims
    <2> HIDE DEF s
    <2>10. CountsAt(n)'
      <3> SUFFICES ASSUME j.uid \notin disturbed
                   PROVE  CountsAt(n)'
        BY Zenon, <1>2, <2>4 DEF CountsAt
      <3>1. j.status.imagesCount = Cardinality(catalog[j.uid])
        BY Zenon, <1>5, <2>1 DEF CountsAt
      <3>2. jobs'[n].status.imagesCount = Cardinality(catalog'[jobs'[n].uid])
        BY Zenon, <1>2, <2>4, <3>1
      <3>3. rec'[n].status.imagesCount = jobs'[n].status.imagesCount
        BY Zenon, <2>3, <2>4, <2>8
      <3>4. jobs'[n].status.reason # "AllImagesScanned"
        BY Zenon, <2>4, <2>9 DEF Claims
      <3>5. rec'[n].status.reason # "AllImagesScanned"
        BY Zenon, <2>3, <2>8, <2>9 DEF Claims
      <3> QED BY Zenon, <3>2, <3>3, <3>4, <3>5 DEF CountsAt
    <2>11. OnItsWayAt(n)'
      <3> SUFFICES ASSUME j.uid \notin disturbed
                   PROVE  OnItsWayAt(n)'
        BY Zenon, <1>2, <2>4 DEF OnItsWayAt
      <3>1. jobCache'[n] # jobs'[n] /\ ~JobFinished(jobCache'[n].status)
        BY Zenon, <1>2, <2>5
      <3>2. IsPending(jobs'[n].status) /\ IsPending(rec'[n].status)
        BY Zenon, <2>3, <2>4, <2>6, <2>7
      <3> QED BY Zenon, <3>1, <3>2 DEF OnItsWayAt
    <2>12. KeptAt(n)
      BY Zenon, <2>1, <2>4 DEF KeptAt
    <2> QED BY Zenon, <1>1, <1>2, <1>3, <1>6, <2>1, <2>3, <2>10, <2>11, <2>12, OneName
            DEF StepFacts
  <1>12. CASE UpdateScanJobStatus(n)
    <2> DEFINE s == rec[n].status
    <2>1. /\ Current(n) /\ jobs[n] # NoJob /\ WriteStatus(n, s)
          /\ rec' = [rec EXCEPT ![n] = NoRec]
          /\ jobQueue \subseteq jobQueue' /\ (rec[n].retry => n \in jobQueue')
          /\ UNCHANGED <<published, stream>>
      BY Zenon, <1>12 DEF UpdateScanJobStatus, StatusUpdateAccepted, Current, queueVars
    <2>2. s \in Status /\ jobs[n].status \in Status
      <3>1. rec[n] \in Reconciliation
        BY Zenon, <1>1, <2>1 DEF Current, TypeOK, ControllerTypeOK
      <3> QED BY Zenon, <1>1, <2>1, <3>1, JobTypes DEF Reconciliation
    <2>3. /\ jobs'[n] # NoJob /\ jobs'[n].uid = jobs[n].uid /\ jobs'[n].status = s
          /\ jobs'[n] = jobs[n] \/ jobs'[n].rv = clock + 1
          /\ \A m \in Names : m # n => jobs'[m] = jobs[m]
      <3> HIDE DEF s
      <3> QED BY Zenon, <1>1, <2>1, <2>2, WriteEffect
    <2>4. rec'[n] = NoRec /\ \A m \in Names : m # n => rec'[m] = rec[m]
      BY Zenon, <1>1, <2>1 DEF TypeOK, ControllerTypeOK
    <2>5. c # NoJob => c.rv # clock + 1
      BY Zenon, <1>1, JobTypes, NewVersion DEF Inv, Versions
    <2>6. c = jobs'[n] => jobs'[n] = jobs[n]
      BY Zenon, <1>1, <2>1, <2>3, <2>5
    <2>7. jobs[n].uid \notin disturbed => IsPending(jobs[n].status)
      BY Zenon, <2>1 DEF Inv, HeldCopies
    <2>8. CountsAt(n)'
      BY Zenon, <1>2, <1>5, <2>1, <2>3, <2>4 DEF CountsAt, Current
    <2>9. OnItsWayAt(n)'
      <3> SUFFICES ASSUME jobs[n].uid \notin disturbed
                   PROVE  OnItsWayAt(n)'
        BY Zenon, <1>2, <2>3 DEF OnItsWayAt
      <3>1. IsPending(s) => c # jobs'[n] \/ n \in jobQueue'
        BY Zenon, <1>5, <2>1, <2>6 DEF OnItsWayAt
      <3>2. ~IsPending(s) => Catalogued(jobs[n].uid)' \/ JobFinished(s)
        BY Zenon, <1>5, <2>1, <2>3 DEF OnItsWayAt, JobFinished, Catalogued
      <3>3. Cached(n)' /\ jobCache'[n].uid = jobs'[n].uid => ~JobFinished(c.status)
        BY Zenon, <1>2, <1>5, <2>1, <2>2, <2>3, <2>7, PendingFacts DEF OnItsWayAt, Cached
      <3> QED BY Zenon, <1>2, <2>3, <2>4, <3>1, <3>2, <3>3 DEF OnItsWayAt, Current
    <2>10. KeptAt(n)
      BY Zenon, <1>2, <1>5, <2>1, <2>2, <2>3, <2>7, PendingFacts DEF KeptAt, CountsAt, Claims
    <2> QED BY Zenon, <1>1, <1>2, <1>3, <2>1, <2>3, <2>4, <2>8, <2>9, <2>10, OneName
            DEF StepFacts
  <1>13. CASE RetryScanJob(n)
    <2>1. /\ rec' = [rec EXCEPT ![n] = NoRec] /\ jobQueue' = jobQueue \cup {n}
          /\ UNCHANGED <<jobs, published, stream>>
      BY Zenon, <1>13 DEF RetryScanJob, jobVars, queueVars
    <2>2. rec'[n] = NoRec /\ \A m \in Names : m # n => rec'[m] = rec[m]
      BY Zenon, <1>1, <2>1 DEF TypeOK, ControllerTypeOK
    <2>3. CountsAt(n)' /\ OnItsWayAt(n)' /\ KeptAt(n)
      BY Zenon, <1>2, <1>5, <2>1, <2>2 DEF CountsAt, OnItsWayAt, KeptAt, Current, Cached,
         Catalogued
    <2> QED BY Zenon, <1>1, <1>2, <1>3, <2>1, <2>2, <2>3, OneName DEF StepFacts
  <1> QED BY Zenon, <1>7, <1>8, <1>9, <1>10, <1>11, <1>12, <1>13
          DEF JobController, Reconcile

\* Counting reports leaves a job in progress or finished, and claims that all
\* images were scanned only of as many reports as images.
LEMMA CountedFacts ==
    ASSUME NEW s \in Status, NEW k \in Nat
    PROVE  LET t == CountedStatus(s, k)
           IN  /\ t \in Status /\ ~IsPending(t) /\ t.imagesCount = s.imagesCount
               /\ IsFailed(s) => JobFinished(t)
               /\ Claims(t) => \/ IsFailed(s) /\ Claims(s)
                               \/ /\ k = s.imagesCount /\ t.scannedImagesCount = k
                                  /\ t.conds = OnlyTrue("Complete")
  <1> DEFINE c == [s EXCEPT !.scannedImagesCount = k]
             t == CountedStatus(s, k)
  <1>1. /\ c \in Status /\ c.conds = s.conds /\ c.imagesCount = s.imagesCount
        /\ c.reason = s.reason /\ c.scannedImagesCount = k
    BY DEF Status
  <1>2. /\ "AllImagesScanned" \in Reasons /\ "ImageScanInProgress" \in Reasons
        /\ "ImageScanInProgress" # "AllImagesScanned"
    BY DEF Reasons
  <1>3. CASE IsFailed(s)
    <2>1. t = c
      BY Zenon, <1>3 DEF CountedStatus
    <2>2. ~IsPending(c) /\ JobFinished(c)
      BY Zenon, <1>1, <1>3 DEF IsPending, IsFailed, JobFinished
    <2> QED BY Zenon, <1>1, <1>3, <2>1, <2>2 DEF Claims
  <1>4. CASE ~IsFailed(s)
    <2> HIDE DEF c
    <2>a. /\ MarkComplete(c, "AllImagesScanned") \in Status
          /\ ~IsPending(MarkComplete(c, "AllImagesScanned"))
          /\ MarkInProgress(c, "ImageScanInProgress") \in Status
          /\ ~IsPending(MarkInProgress(c, "ImageScanInProgress"))
      BY Zenon, <1>1, <1>2, MarkType, MarkEffect
    <2>b. /\ MarkComplete(c, "AllImagesScanned").imagesCount = s.imagesCount
          /\ MarkComplete(c, "AllImagesScanned").scannedImagesCount = k
          /\ MarkComplete(c, "AllImagesScanned").conds = OnlyTrue("Complete")
          /\ MarkInProgress(c, "ImageScanInProgress").imagesCount = s.imagesCount
          /\ MarkInProgress(c, "ImageScanInProgress").reason = "ImageScanInProgress"
      <3>1. ASSUME NEW r
            PROVE  /\ MarkComplete(c, r).imagesCount = c.imagesCount
                   /\ MarkComplete(c, r).scannedImagesCount = c.scannedImagesCount
                   /\ MarkComplete(c, r).conds = OnlyTrue("Complete")
                   /\ MarkInProgress(c, r).imagesCount = c.imagesCount
                   /\ MarkInProgress(c, r).reason = r
        BY Zenon, <1>1, MarkCounts
      <3> QED BY Zenon, <1>1, <3>1
    <2>1. CASE k = s.imagesCount
      <3>1. t = MarkComplete(c, "AllImagesScanned")
        BY Zenon, <1>4, <2>1 DEF CountedStatus, c
      <3> QED BY Zenon, <1>4, <2>a, <2>b, <2>1, <3>1
    <2>2. CASE k # s.imagesCount
      <3>1. t = MarkInProgress(c, "ImageScanInProgress")
        BY Zenon, <1>4, <2>2 DEF CountedStatus, c
      <3>2. ~Claims(t)
        BY Zenon, <1>2, <2>b, <3>1 DEF Claims
      <3> QED BY Zenon, <1>4, <2>a, <2>b, <3>1, <3>2
    <2> QED BY Zenon, <2>1, <2>2
  <1> QED BY Zenon, <1>3, <1>4

\* Two sets of images of which one includes the other and that have as many
\* members are the same.
LEMMA SameImages ==
    ASSUME NEW S, NEW T, S \subseteq T, T \subseteq Images, Cardinality(S) = Cardinality(T)
    PROVE  S = T
  <1>1. T \in SUBSET Images /\ S \in SUBSET T
    BY Zenon
  <1> QED BY Zenon, <1>1, FiniteAssumption

\* The steps of VulnerabilityReportReconciler.
LEMMA CompletionFacts ==
    ASSUME Inv, Progress, NEW i \in Images, WatchReport(i) \/ CompletionController(i)
    PROVE  StepFacts
  <1>1. TypeOK /\ JobFacts
    BY Zenon DEF Inv, Progress, JobFacts
  <1>2. UNCHANGED <<jobCache, jobQueue, rec, task, published, stream, disturbed, catalog,
                    labelled>>
    BY Zenon DEF WatchReport, CompletionController, ReconcileReport, SyncReport,
       SkipReport, CountReports, queueVars, historyVars, controllerVars
  <1>3. Grows /\ QueueMoves /\ CatalogKept
    BY Zenon, <1>2, StillFacts
  <1>4. CASE jobs' = jobs
    BY Zenon, <1>1, <1>2, <1>3, <1>4, JobsDeleted DEF StepFacts, OnlyDeletes
  <1>5. CASE CountReports(i)
    <2>1. PICK u \in UIDs : u = reportCache[i] /\ u # NoUID /\ Catalogued(u)
      BY Zenon, <1>1, <1>5 DEF CountReports, Counting, TypeOK, ReportTypeOK, Inv, Causality
    <2>2. PICK n \in Names : n = NameOf[u]
      BY Zenon, ClusterAssumption
    <2>3. PICK k \in Nat : k = Cardinality(ReportsOf(u))
      BY Zenon, ImageCount DEF ReportsOf
    <2>4. /\ jobCache[n] # NoJob /\ jobCache[n].uid = u
          /\ ~IsComplete(jobCache[n].status)
          /\ jobs[n] # NoJob /\ jobs[n].rv = jobCache[n].rv
          /\ WriteStatus(n, CountedStatus(jobCache[n].status, k))
      BY Zenon, <1>5, <2>1, <2>2, <2>3 DEF CountReports, Counting
    <2>5. jobCache[n] = jobs[n]
      BY Zenon, <2>4 DEF Inv, CacheAgrees, Cached
    <2>6. PICK t \in Status : t = jobs[n].status
      BY Zenon, <1>1, <2>4, JobTypes
    <2>7. PICK s \in Status : s = CountedStatus(t, k)
      BY Zenon, CountedFacts
    <2>8. /\ ~IsPending(s) /\ s.imagesCount = t.imagesCount
          /\ IsFailed(t) => JobFinished(s)
          /\ Claims(s) => \/ IsFailed(t) /\ Claims(t)
                          \/ /\ k = t.imagesCount /\ s.scannedImagesCount = k
                             /\ s.conds = OnlyTrue("Complete")
      BY Zenon, <2>7, CountedFacts
    <2>9. jobs[n].uid = u /\ WriteStatus(n, s) /\ ~IsComplete(t)
      BY Zenon, <2>4, <2>5, <2>6, <2>7
    <2>10. ASSUME u \notin disturbed
           PROVE  Sound(n, u, s)
      <3>1. t.imagesCount = Cardinality(catalog[u]) /\ (Claims(t) => t.conds = OnlyTrue("Complete"))
        BY Zenon, <1>1, <2>4, <2>6, <2>9, <2>10 DEF JobFacts, Counts, CountsAt, Claims
      <3>2. ~Claims(t)
        <4>1. t.conds = OnlyTrue("Complete") => IsComplete(t)
          BY DEF OnlyTrue, CondTypes, IsComplete
        <4> QED BY Zenon, <2>9, <3>1, <4>1
      <3>3. ASSUME Claims(s)
            PROVE  s.conds = OnlyTrue("Complete") /\ AllScanned(u, s)'
        <4>1. k = t.imagesCount /\ s.scannedImagesCount = k /\ s.conds = OnlyTrue("Complete")
          BY Zenon, <2>8, <3>2, <3>3
        <4>2. ReportsOf(u) \subseteq labelled[u] /\ i \in ReportsOf(u)
          BY Zenon, <2>1 DEF ReportsOf, Progress, Labels
        <4>3. labelled[u] \subseteq catalog[u] /\ catalog[u] \subseteq Images
          BY Zenon, <1>1, <2>10 DEF Progress, Catalogues, TypeOK, ClusterTypeOK
        <4>4. ReportsOf(u) \subseteq catalog[u]
          BY Zenon, <4>2, <4>3
        <4>5. Cardinality(ReportsOf(u)) = Cardinality(catalog[u])
          BY Zenon, <2>3, <3>1, <4>1
        <4>6. ReportsOf(u) = catalog[u]
          BY Zenon, <4>3, <4>4, <4>5, SameImages
        <4>7. catalog[u] # {} /\ catalog[u] \subseteq labelled[u]
          BY Zenon, <4>2, <4>6
        <4> QED BY Zenon, <1>2, <2>8, <3>1, <4>1, <4>7 DEF AllScanned
      <3>4. JobFinished(jobs[n].status) => JobFinished(s)
        BY Zenon, <2>6, <2>8, <2>9 DEF JobFinished
      <3> QED BY Zenon, <1>2, <2>8, <3>1, <3>3, <3>4 DEF Sound
    <2>11. JobFacts' /\ SettledStays
      BY Zenon, <1>1, <1>2, <1>3, <2>1, <2>4, <2>9, <2>10, JobWritten
    <2> QED BY Zenon, <1>3, <2>11 DEF StepFacts
  <1> QED BY Zenon, <1>4, <1>5 DEF WatchReport, SyncReport, CompletionController,
          ReconcileReport, SkipReport, jobVars
=============================================================================
