------------------------ MODULE RegistryScanProgress ------------------------
(***************************************************************************)
(* Progress is invariant, conjunct by conjunct, on top of what is shown of *)
(* every step first (StepFacts).  It follows that no job is completed before *)
(* its last report, and that none is left behind.                          *)
(***************************************************************************)
EXTENDS RegistryScanProofs

(* What the steps of the workers do to jobs and queue.                     *)

\* A step of a worker that writes no ScanJob and no catalogue.
LEMMA WorkerFacts ==
    ASSUME Inv, Progress, UNCHANGED <<jobs, catalog>>, UNCHANGED controllerVars, QueueMoves,
           disturbed \subseteq disturbed',
           \A u \in UIDs : labelled[u] \subseteq labelled'[u]
    PROVE  StepFacts
  <1>1. TypeOK /\ JobFacts
    BY Zenon DEF Inv, Progress, JobFacts
  <1>2. Grows /\ CatalogKept
    BY Zenon, CatalogMessage DEF Grows, CatalogKept, Catalogued, QueueMoves
  <1> QED BY Zenon, <1>1, <1>2, JobsDeleted DEF StepFacts, OnlyDeletes, controllerVars

\* The steps of a subscriber.
LEMMA SubscriberFacts ==
    ASSUME Inv, Progress, NEW w \in Workers,
           \/ \E e \in Entries : Receive(w, e)
           \/ Acknowledge(w) \/ Crash(w) \/ HandlerError(w) \/ RetryLater(w)
           \/ GiveUp(w) \/ GiveUpSilently(w),
           UNCHANGED <<controllerVars, admissionVars, reportVars>>
    PROVE  StepFacts
  <1>1. TypeOK /\ JobFacts
    BY Zenon DEF Inv, Progress, JobFacts
  <1>2. UNCHANGED <<catalog, labelled>>
    BY Zenon DEF Receive, Acknowledge, Crash, HandlerError, RetryLater, GiveUp,
       GiveUpSilently, historyVars
  <1>3. QueueMoves
    <2>1. ASSUME NEW e \in Entries, Receive(w, e)
          PROVE  QueueMoves
      BY Zenon, <1>1, <2>1, DeliverMoves DEF Receive
    <2>2. CASE Acknowledge(w) \/ Crash(w) \/ RetryLater(w)
      <3>1. task[w] # NoTask /\ ((At(w, "ack") /\ Ack(w)) \/ Nak(w) \/ Abandon(w))
        BY Zenon, <2>2 DEF Acknowledge, Crash, RetryLater, At
      <3> QED BY Zenon, <1>1, <3>1, ReleaseMoves
    <2>3. CASE HandlerError(w) \/ GiveUp(w) \/ GiveUpSilently(w)
      BY Zenon, <2>3, QueueStill DEF HandlerError, GiveUp, GiveUpSilently, queueVars
    <2> QED BY Zenon, <2>1, <2>2, <2>3
  <1>4. CASE jobs' = jobs
    <2>1. disturbed \subseteq disturbed'
      BY Zenon DEF Receive, Acknowledge, Crash, HandlerError, RetryLater, GiveUp,
         GiveUpSilently, historyVars, Disturb
    <2> QED BY Zenon, <1>2, <1>3, <1>4, <2>1, WorkerFacts
  <1>5. CASE GiveUp(w) /\ jobs' # jobs
    <2>1. PICK n \in Names : n = Name(w)
      BY Zenon, <1>5, WorkerCause DEF GiveUp, At
    <2>2. /\ task[w] # NoTask /\ jobs[n] # NoJob
          /\ WriteStatus(n, MarkFailed(jobs[n].status, "InternalError"))
          /\ disturbed' = disturbed \cup ({jobs[n].uid} \ {UID(w)})
      BY Zenon, <1>5, <2>1 DEF GiveUp, At, jobVars
    <2>3. PICK u \in UIDs : u = jobs[n].uid
      BY Zenon, <1>1, <2>2, JobTypes
    <2>4. u \in disturbed' \/ Catalogued(u)
      BY Zenon, <2>2, <2>3, WorkerCause
    <2>5. jobs[n].status \in Status
      BY Zenon, <1>1, <2>2, JobTypes
    <2>6. PICK s \in Status : s = MarkFailed(jobs[n].status, "InternalError")
      BY Zenon, <2>5, MarkType, ReasonFacts
    <2>7. /\ ~IsPending(s) /\ JobFinished(s) /\ s.imagesCount = jobs[n].status.imagesCount
          /\ s.reason = "InternalError"
      <3>1. ~IsPending(s) /\ JobFinished(s)
        BY Zenon, <2>5, <2>6, MarkEffect, ReasonFacts
      <3>2. s.imagesCount = jobs[n].status.imagesCount /\ s.reason = "InternalError"
        <4>1. PICK t \in Status : t = jobs[n].status
          BY Zenon, <2>5
        <4>2. /\ MarkFailed(t, "InternalError").imagesCount = t.imagesCount
              /\ MarkFailed(t, "InternalError").reason = "InternalError"
          BY Zenon, MarkCounts
        <4> QED BY Zenon, <2>6, <4>1, <4>2
      <3> QED BY Zenon, <3>1, <3>2
    <2>8. ~Claims(s)
      BY <2>7 DEF Claims
    <2>9. disturbed \subseteq disturbed' /\ Grows /\ CatalogKept
      BY Zenon, <1>2, <1>3, <2>2, CatalogMessage
         DEF Grows, CatalogKept, Catalogued, QueueMoves
    <2>10. u \notin disturbed' => Sound(n, u, s)
      BY Zenon, <1>1, <1>2, <2>2, <2>3, <2>7, <2>8, <2>9
         DEF Sound, JobFacts, Counts, CountsAt
    <2>11. JobFacts' /\ SettledStays
      BY Zenon, <1>1, <1>2, <2>2, <2>3, <2>4, <2>6, <2>9, <2>10, JobWritten
         DEF controllerVars
    <2> QED BY Zenon, <1>3, <2>9, <2>11 DEF StepFacts
  <1> QED BY Zenon, <1>4, <1>5 DEF Receive, Acknowledge, Crash, HandlerError, RetryLater,
          GiveUpSilently, jobVars

\* What the second status update of a catalogue writes.
LEMMA CatalogStatusFacts ==
    ASSUME NEW s \in Status, NEW f, f \subseteq Images,
           f = {} => s.imagesCount = Cardinality({})
    PROVE  /\ CatalogStatus(s, f).imagesCount = Cardinality(f)
           /\ ~Claims(CatalogStatus(s, f))
           /\ JobFinished(CatalogStatus(s, f)) <=> f = {}
  <1>1. /\ "NoImagesToScan" \in Reasons /\ "SBOMGenerationInProgress" \in Reasons
        /\ "NoImagesToScan" # "AllImagesScanned"
        /\ "SBOMGenerationInProgress" # "AllImagesScanned"
    BY DEF Reasons
  <1>2. CASE f = {}
    <2> DEFINE t == MarkComplete(s, "NoImagesToScan")
    <2>1. JobFinished(t)
      BY Zenon, <1>1, MarkEffect
    <2>2. t.imagesCount = s.imagesCount /\ t.reason = "NoImagesToScan"
      BY Zenon, MarkCounts
    <2>3. CatalogStatus(s, f) = t
      BY Zenon, <1>2 DEF CatalogStatus
    <2> HIDE DEF t
    <2> QED BY Zenon, <1>1, <1>2, <2>1, <2>2, <2>3 DEF Claims
  <1>3. CASE f # {}
    <2> DEFINE t == MarkInProgress(s, "SBOMGenerationInProgress")
               c == [t EXCEPT !.imagesCount = Cardinality(f), !.scannedImagesCount = 0]
    <2>1. t \in Status /\ ~JobFinished(t)
      BY Zenon, <1>1, MarkType, MarkEffect
    <2>2. t.reason = "SBOMGenerationInProgress"
      BY Zenon, MarkCounts
    <2>3. CatalogStatus(s, f) = c
      BY Zenon, <1>3 DEF CatalogStatus
    <2> HIDE DEF t
    <2>4. c.imagesCount = Cardinality(f) /\ c.reason = t.reason /\ c.conds = t.conds
      BY <2>1 DEF Status
    <2> HIDE DEF c
    <2> QED BY Zenon, <1>1, <1>3, <2>1, <2>2, <2>3, <2>4
            DEF Claims, JobFinished, IsComplete, IsFailed
  <1> QED BY Zenon, <1>2, <1>3

\* The two status updates of CreateCatalogHandler.
LEMMA CatalogWriteFacts ==
    ASSUME Inv, Progress, NEW w \in Workers,
           (CatalogStart(w) /\ jobs' # jobs) \/ (CatalogUpdate(w) /\ Live(UID(w))),
           UNCHANGED <<controllerVars, admissionVars, reportVars>>
    PROVE  StepFacts
  <1>1. TypeOK /\ JobFacts
    BY Zenon DEF Inv, Progress, JobFacts
  <1>2. /\ task[w] # NoTask /\ UNCHANGED <<task, published, stream, labelled>>
        /\ disturbed \subseteq disturbed'
    BY Zenon DEF CatalogStart, CatalogUpdate, Handling, At, queueVars, historyVars
  <1>3. Live(UID(w))
    BY Zenon DEF CatalogStart, jobVars
  <1>4. PICK u \in UIDs : u = UID(w) /\ Live(u) /\ Catalogued(u)
    BY Zenon, <1>2, <1>3, WorkerCause
  <1>5. PICK n \in Names : n = NameOf[u] /\ n = Name(w)
    BY Zenon, <1>4, ClusterAssumption DEF Name
  <1>6. jobs[n] # NoJob /\ jobs[n].uid = u /\ StatusOf(u) = jobs[n].status /\ u \in created
    BY Zenon, <1>4, <1>5 DEF Live, StatusOf, Inv, Fresh
  <1>7. PICK t \in Status : t = jobs[n].status
    BY Zenon, <1>1, <1>6, JobTypes
  <1>8. u \notin disturbed' => t.imagesCount = Cardinality(catalog[u])
    BY Zenon, <1>1, <1>2, <1>6, <1>7 DEF JobFacts, Counts, CountsAt
  <1>9. QueueMoves /\ Grows
    BY Zenon, <1>2, QueueStill DEF Grows, Catalogued
  <1>10. CASE CatalogStart(w) /\ jobs' # jobs
    <2>1. /\ WriteStatus(n, MarkInProgress(t, "CatalogCreationInProgress"))
          /\ UNCHANGED catalog /\ ~JobFinished(t)
      BY Zenon, <1>4, <1>5, <1>6, <1>7, <1>10 DEF CatalogStart, historyVars, jobVars
    <2>2. PICK s \in Status : s = MarkInProgress(t, "CatalogCreationInProgress")
      BY Zenon, MarkType, ReasonFacts
    <2>3. /\ ~IsPending(s) /\ s.imagesCount = t.imagesCount
          /\ s.reason = "CatalogCreationInProgress"
      <3>1. ~IsPending(s)
        BY Zenon, <2>2, MarkEffect, ReasonFacts
      <3>2. s.imagesCount = t.imagesCount /\ s.reason = "CatalogCreationInProgress"
        BY Zenon, <2>2, InProgressCounts
      <3> QED BY Zenon, <3>1, <3>2
    <2>4. ~Claims(s)
      BY <2>3 DEF Claims
    <2>5. u \notin disturbed' => Sound(n, u, s)
      BY Zenon, <1>7, <1>8, <2>1, <2>3, <2>4 DEF Sound
    <2>6. JobFacts' /\ SettledStays
      BY Zenon, <1>1, <1>4, <1>6, <1>9, <2>1, <2>2, <2>5, JobWritten DEF controllerVars
    <2> QED BY Zenon, <1>9, <2>1, <2>6 DEF StepFacts, CatalogKept
  <1>11. CASE CatalogUpdate(w)
    <2>1. PICK f \in SUBSET Images : f = local[w].found
      BY Zenon, <1>1 DEF TypeOK, WorkerTypeOK, Local
    <2>2. /\ WriteStatus(n, CatalogStatus(t, f))
          /\ catalog' = [catalog EXCEPT ![u] = f]
          /\ disturbed' = IF JobFinished(t) \/ catalog[u] \notin {{}, f}
                          THEN disturbed \cup {u} ELSE disturbed
      BY Zenon, <1>4, <1>5, <1>6, <1>7, <1>11, <2>1 DEF CatalogUpdate
    <2>3. catalog'[u] = f /\ \A v \in UIDs : v # u => catalog'[v] = catalog[v]
      BY Zenon, <1>1, <2>2 DEF TypeOK, ClusterTypeOK
    <2>4. u \notin disturbed' => ~JobFinished(t) /\ catalog[u] \in {{}, f}
      BY Zenon, <2>2
    <2>5. PICK s \in Status : s = CatalogStatus(t, f)
      BY Zenon, CatalogStatusType
    <2>6. u \notin disturbed' => Sound(n, u, s)
      <3> SUFFICES ASSUME u \notin disturbed'
                   PROVE  Sound(n, u, s)
        BY Zenon
      <3>1. f = {} => t.imagesCount = Cardinality({})
        BY Zenon, <1>8, <2>4
      <3>2. s.imagesCount = Cardinality(f) /\ ~Claims(s)
        BY Zenon, <2>5, <3>1, CatalogStatusFacts
      <3>3. ~IsPending(s)
        BY Zenon, <2>5, CatalogOnward
      <3> QED BY Zenon, <1>7, <2>3, <2>4, <3>2, <3>3 DEF Sound
    <2>7. JobFacts' /\ SettledStays
      BY Zenon, <1>1, <1>4, <1>6, <1>9, <2>2, <2>3, <2>5, <2>6, JobWritten
         DEF controllerVars
    <2>8. CatalogKept
      <3>1. catalog[u] = f \/ catalog[u] = {} \/ u \in disturbed'
        BY Zenon, <2>4
      <3> QED BY Zenon, <1>6, <2>3, <3>1 DEF CatalogKept
    <2> QED BY Zenon, <1>9, <2>7, <2>8 DEF StepFacts
  <1> QED BY Zenon, <1>10, <1>11

\* The steps of the handlers.
LEMMA HandleFacts ==
    ASSUME Inv, Progress, NEW w \in Workers, Handle(w),
           UNCHANGED <<controllerVars, admissionVars, reportVars>>
    PROVE  StepFacts
  <1>1. TypeOK
    BY Zenon DEF Inv
  <1>2. task[w] # NoTask /\ UNCHANGED task
    BY Zenon DEF Handle, CatalogStart, CatalogDiscover, CatalogList, CatalogCreateImage,
       CatalogObsolete, CatalogDeleteImage, CatalogUpdate, CatalogPublish, GenerateStart,
       GenerateCreate, GeneratePublish, ScanStart, ScanReport, Handling, At
  <1>3. PICK u \in UIDs : u = UID(w)
    BY Zenon, <1>2, WorkerCause
  <1>4. QueueMoves
    <2>1. ASSUME NEW i \in Images, CatalogPublish(w, i)
          PROVE  QueueMoves
      <3>1. PICK m \in ScanMessages : m = Message("generateSBOM", u, i)
        BY Zenon DEF Message, ScanMessages
      <3> QED BY Zenon, <1>1, <1>2, <1>3, <2>1, <3>1, PublishMoves DEF CatalogPublish
    <2>2. CASE GeneratePublish(w)
      <3>1. M(w).img \in Images
        BY Zenon, <1>1, <1>2, <2>2, MessageFacts DEF GeneratePublish, Handling
      <3>2. PICK m \in ScanMessages : m = Message("scanSBOM", u, M(w).img)
        BY Zenon, <3>1 DEF Message, ScanMessages
      <3> QED BY Zenon, <1>1, <1>2, <1>3, <2>2, <3>2, PublishMoves DEF GeneratePublish
    <2>3. CASE UNCHANGED <<published, stream>>
      BY Zenon, <1>2, <2>3, QueueStill
    <2> QED BY Zenon, <2>1, <2>2, <2>3 DEF Handle, CatalogStart, CatalogDiscover,
            CatalogList, CatalogCreateImage, CatalogObsolete, CatalogDeleteImage,
            CatalogUpdate, GenerateStart, GenerateCreate, ScanStart, ScanReport, queueVars
  <1>5. CASE (CatalogStart(w) /\ jobs' # jobs) \/ (CatalogUpdate(w) /\ Live(UID(w)))
    BY Zenon, <1>5, CatalogWriteFacts
  <1>6. CASE CatalogUpdate(w) /\ ~Live(UID(w))
    <2>1. UNCHANGED <<labelled, catalog, disturbed, jobs>>
      BY Zenon, <1>6 DEF CatalogUpdate, historyVars, jobVars
    <2> QED BY Zenon, <1>4, <2>1, WorkerFacts
  <1>7. CASE ~CatalogUpdate(w) /\ jobs' = jobs
    <2>1. UNCHANGED catalog /\ disturbed \subseteq disturbed'
      BY Zenon, <1>7 DEF Handle, CatalogStart, CatalogDiscover, CatalogList,
         CatalogCreateImage, CatalogObsolete, CatalogDeleteImage, CatalogPublish,
         GenerateStart, GenerateCreate, GeneratePublish, ScanStart, ScanReport, Disturb,
         historyVars
    <2>2. \A v \in UIDs : labelled[v] \subseteq labelled'[v]
      <3>1. \/ labelled' = labelled
            \/ labelled' = [labelled EXCEPT ![u] = @ \cup {M(w).img}]
        BY Zenon, <1>3, <1>7 DEF Handle, CatalogStart, CatalogDiscover, CatalogList,
           CatalogCreateImage, CatalogObsolete, CatalogDeleteImage, CatalogPublish,
           GenerateStart, GenerateCreate, GeneratePublish, ScanStart, ScanReport,
           historyVars
      <3>2. labelled \in [UIDs -> SUBSET Images]
        BY Zenon, <1>1 DEF TypeOK, ClusterTypeOK
      <3> QED BY Zenon, <3>1, <3>2
    <2> QED BY Zenon, <1>4, <1>7, <2>1, <2>2, WorkerFacts
  <1>8. CatalogStart(w) \/ CatalogUpdate(w) \/ jobs' = jobs
    BY Zenon DEF Handle, CatalogDiscover, CatalogList, CatalogCreateImage,
       CatalogObsolete, CatalogDeleteImage, CatalogPublish, GenerateStart,
       GenerateCreate, GeneratePublish, ScanStart, ScanReport, jobVars
  <1> QED BY Zenon, <1>5, <1>6, <1>7, <1>8

\* The facts hold of every step.
LEMMA NextFacts ==
    ASSUME Inv, Progress, [Next]_vars
    PROVE  StepFacts
  <1>1. CASE Users \/ Environment \/ RestartController
    BY Zenon, <1>1, UserFacts, EnvironmentFacts, RestartFacts
  <1>2. ASSUME NEW n \in Names, WatchScanJob(n) \/ JobController(n)
        PROVE  StepFacts
    BY Zenon, <1>2, WatchFacts, ReconcileFacts
  <1>3. ASSUME NEW i \in Images, WatchReport(i) \/ CompletionController(i)
        PROVE  StepFacts
    BY Zenon, <1>3, CompletionFacts
  <1>4. ASSUME NEW w \in Workers, Consume(w) \/ Failures(w)
        PROVE  StepFacts
    BY Zenon, <1>4, SubscriberFacts, HandleFacts DEF Consume, Failures
  <1>5. ASSUME NEW e \in Entries, Redelivery(e)
        PROVE  StepFacts
    <2>1. QueueMoves
      BY Zenon, <1>5, RedeliverMoves DEF Redelivery, AckWaitElapsed, Inv
    <2> QED BY Zenon, <1>5, <2>1, WorkerFacts DEF Redelivery, AckWaitElapsed, jobVars,
            historyVars
  <1>6. CASE UNCHANGED vars
    <2>1. QueueMoves
      BY Zenon, <1>6, QueueStill DEF vars
    <2> QED BY Zenon, <1>6, <2>1, WorkerFacts DEF vars, controllerVars
  <1> QED BY Zenon, <1>1, <1>2, <1>3, <1>4, <1>5, <1>6 DEF Next

-----------------------------------------------------------------------------
(* The messages.                                                           *)

\* The messages about an image.
LEMMA ImageMessages ==
    ASSUME NEW u \in UIDs, NEW i \in Images
    PROVE  /\ Message("generateSBOM", u, i) \in ScanMessages
           /\ Message("generateSBOM", u, i).kind = "generateSBOM"
           /\ Message("generateSBOM", u, i).uid = u
           /\ Message("generateSBOM", u, i).img = i
           /\ Message("scanSBOM", u, i) \in ScanMessages
           /\ Message("scanSBOM", u, i).kind = "scanSBOM"
           /\ Message("scanSBOM", u, i).uid = u
           /\ Message("scanSBOM", u, i).img = i
  BY DEF Message, ScanMessages

\* The message a worker handles is the one of its kind, job and image.
LEMMA HandledMessage ==
    ASSUME TypeOK, NEW w \in Workers, task[w] # NoTask
    PROVE  /\ M(w).kind \in {"createCatalog", "generateSBOM", "scanSBOM"}
           /\ M(w).kind = "createCatalog" => M(w) = Message("createCatalog", UID(w), NoImage)
           /\ M(w).kind = "generateSBOM" => M(w) = Message("generateSBOM", UID(w), M(w).img)
           /\ M(w).kind = "scanSBOM" => M(w) = Message("scanSBOM", UID(w), M(w).img)
  <1>1. PICK m \in ScanMessages : m = M(w)
    BY Zenon, MessageFacts
  <1>2. /\ m.kind \in {"createCatalog", "generateSBOM", "scanSBOM"}
        /\ m.kind = "createCatalog" => m = Message("createCatalog", m.uid, NoImage)
        /\ m.kind = "generateSBOM" => m = Message("generateSBOM", m.uid, m.img)
        /\ m.kind = "scanSBOM" => m = Message("scanSBOM", m.uid, m.img)
    BY DEF Message, ScanMessages
  <1> QED BY Zenon, <1>1, <1>2 DEF UID

\* What is in the stream stays there or is being acknowledged.
LEMMA StoredMoves ==
    ASSUME QueueMoves, NEW m \in ScanMessages, Stored(m)
    PROVE  Stored(m)' \/ \E w \in Workers : At(w, "ack") /\ M(w) = m
  <1>1. PICK c \in 1..MaxCopies : InStream(<<m, c>>)
    BY Zenon DEF Stored
  <1>2. PICK e \in Entries : e = <<m, c>>
    BY Zenon DEF Entries
  <1>3. CASE InStream(e)'
    BY Zenon, <1>2, <1>3 DEF Stored, InStream
  <1>4. CASE \E w \in Workers : At(w, "ack") /\ task[w].entry = e
    <2>1. PICK w \in Workers : At(w, "ack") /\ task[w].entry = e
      BY Zenon, <1>4
    <2>2. e[1] = m
      BY <1>2
    <2> QED BY Zenon, <2>1, <2>2 DEF M
  <1> QED BY Zenon, <1>1, <1>2, <1>3, <1>4 DEF QueueMoves

\* What is in the stream or being handled was published.
LEMMA SentStep ==
    ASSUME TypeOK, Progress, QueueMoves
    PROVE  Sent'
  <1>1. \A e \in Entries : e[1] \in ScanMessages
    BY Zenon DEF Entries
  <1>2. \A w \in Workers : task[w] # NoTask /\ task'[w] = task[w] => M(w) \in ScanMessages
    BY Zenon, MessageFacts DEF M
  <1> QED BY Zenon, <1>1, <1>2 DEF Sent, Progress, QueueMoves, M

\* The whole catalogue of a job stays handed over, unless the job is disturbed.
LEMMA HandedOverStays ==
    ASSUME TypeOK, StepFacts, NEW u \in UIDs, HandedOver(u)
    PROVE  HandedOver(u)' \/ Settled(u)'
  <1>1. \A i \in Images : Generated(u, i) => Generated(u, i)'
    BY Zenon, ImageMessages DEF StepFacts, QueueMoves, Generated
  <1>2. catalog[u] \subseteq Images
    BY Zenon DEF TypeOK, ClusterTypeOK
  <1>3. CASE u \in disturbed'
    BY Zenon, <1>3 DEF Settled
  <1>4. CASE catalog'[u] = catalog[u]
    BY Zenon, <1>1, <1>2, <1>4 DEF HandedOver
  <1> QED BY Zenon, <1>3, <1>4 DEF HandedOver, StepFacts, CatalogKept

\* A message stays in the stream until its handler is done.
LEMMA PursuedStep ==
    ASSUME Inv, Progress, StepFacts
    PROVE  Pursued'
  <1>1. TypeOK /\ QueueMoves
    BY Zenon DEF Inv, StepFacts
  <1>2. \A u \in UIDs : Catalogued(u) /\ Settled(u) => Settled(u)'
    BY Zenon DEF Inv, Fresh, StepFacts, SettledStays
  <1>3. \A m \in ScanMessages : published[m] > 0 => Catalogued(m.uid)
    BY Zenon DEF Inv, Causality
  <1>4. \A m \in ScanMessages : published'[m] > 0 => published[m] > 0 \/ Stored(m)'
    BY Zenon, <1>1 DEF QueueMoves
  <1>5. ASSUME NEW u \in UIDs, Catalogued(u)'
        PROVE  \/ Settled(u)' \/ HandedOver(u)'
               \/ Stored(Message("createCatalog", u, NoImage))'
    <2>1. PICK m \in ScanMessages : m = Message("createCatalog", u, NoImage)
      BY Zenon, CatalogMessage
    <2>2. m.kind = "createCatalog" /\ m.uid = u
      BY <2>1 DEF Message
    <2>3. CASE ~Catalogued(u)
      BY Zenon, <1>4, <1>5, <2>1, <2>3 DEF Catalogued, Stored
    <2>4. CASE Catalogued(u) /\ (Settled(u) \/ HandedOver(u))
      BY Zenon, <1>1, <1>2, <2>4, HandedOverStays
    <2>5. CASE Catalogued(u) /\ Stored(m)
      <3>1. ASSUME NEW w \in Workers, At(w, "ack"), M(w) = m
            PROVE  Settled(u) \/ HandedOver(u)
        BY Zenon, <2>2, <3>1 DEF Progress, Handlers, HandlerAt, Handling, UID
      <3> QED BY Zenon, <1>1, <2>1, <2>4, <2>5, <3>1, StoredMoves DEF Stored
    <2> QED BY Zenon, <2>1, <2>3, <2>4, <2>5 DEF Progress, Pursued
  <1>6. ASSUME NEW u \in UIDs, NEW i \in Images, Generated(u, i)'
        PROVE  \/ Settled(u)' \/ Scanned(u, i)'
               \/ Stored(Message("generateSBOM", u, i))'
    <2>1. PICK m \in ScanMessages : m = Message("generateSBOM", u, i)
      BY Zenon, ImageMessages
    <2>2. m.kind = "generateSBOM" /\ m.uid = u /\ m.img = i
      BY <2>1 DEF Message
    <2>3. CASE ~Generated(u, i)
      BY Zenon, <1>4, <1>6, <2>1, <2>3 DEF Generated, Stored
    <2>4. Generated(u, i) => Catalogued(u)
      BY Zenon, <1>3, <2>1, <2>2 DEF Generated
    <2>5. Scanned(u, i) => Scanned(u, i)'
      BY Zenon, <1>1, ImageMessages DEF QueueMoves, Scanned
    <2>6. CASE Generated(u, i) /\ Stored(m)
      <3>1. ASSUME NEW w \in Workers, At(w, "ack"), M(w) = m
            PROVE  Settled(u) \/ Scanned(u, i)
        BY Zenon, <2>2, <3>1 DEF Progress, Handlers, HandlerAt, Handling, UID
      <3> QED BY Zenon, <1>1, <1>2, <2>1, <2>4, <2>5, <2>6, <3>1, StoredMoves DEF Stored
    <2> QED BY Zenon, <1>2, <2>1, <2>3, <2>4, <2>5, <2>6 DEF Progress, Pursued
  <1>7. ASSUME NEW u \in UIDs, NEW i \in Images, Scanned(u, i)'
        PROVE  \/ Settled(u)' \/ i \in labelled'[u]
               \/ Stored(Message("scanSBOM", u, i))'
    <2>1. PICK m \in ScanMessages : m = Message("scanSBOM", u, i)
      BY Zenon, ImageMessages
    <2>2. m.kind = "scanSBOM" /\ m.uid = u /\ m.img = i
      BY <2>1 DEF Message
    <2>3. CASE ~Scanned(u, i)
      BY Zenon, <1>4, <1>7, <2>1, <2>3 DEF Scanned, Stored
    <2>4. Scanned(u, i) => Catalogued(u)
      BY Zenon, <1>3, <2>1, <2>2 DEF Scanned
    <2>5. i \in labelled[u] => i \in labelled'[u]
      BY Zenon DEF StepFacts, Grows
    <2>6. CASE Scanned(u, i) /\ Stored(m)
      <3>1. ASSUME NEW w \in Workers, At(w, "ack"), M(w) = m
            PROVE  Settled(u) \/ i \in labelled[u]
        BY Zenon, <2>2, <3>1 DEF Progress, Handlers, HandlerAt, Handling, UID
      <3> QED BY Zenon, <1>1, <1>2, <2>1, <2>4, <2>5, <2>6, <3>1, StoredMoves DEF Stored
    <2> QED BY Zenon, <1>2, <2>1, <2>3, <2>4, <2>5, <2>6 DEF Progress, Pursued
  <1> QED BY Zenon, <1>5, <1>6, <1>7 DEF Pursued

-----------------------------------------------------------------------------
(* The handlers.                                                           *)

\* What the handler of w still has to publish is of the catalogue.
TodoAt(w) ==
    Handling(w, "createCatalog", "publish") /\ UID(w) \notin disturbed
        => local[w].todo \subseteq catalog[UID(w)]

\* What is asked of the handler of w.
WorkerOK(w) == HandlerAt(w) /\ TodoAt(w)

\* A worker that does not move.
LEMMA HandlerKept ==
    ASSUME Inv, Progress, StepFacts, NEW w \in Workers, task'[w] = task[w], local'[w] = local[w]
    PROVE  WorkerOK(w)'
  <1>0. CASE task[w] = NoTask
    BY Zenon, <1>0 DEF WorkerOK, HandlerAt, TodoAt, Handling, At
  <1>1. CASE task[w] # NoTask
    <2>1. TypeOK /\ QueueMoves /\ Grows
      BY Zenon DEF Inv, StepFacts
    <2>2. PICK m : m = M(w)
      BY Zenon
    <2>3. PICK u \in UIDs : u = UID(w) /\ u = m.uid
      BY Zenon, <1>1, <2>2, WorkerCause DEF UID
    <2>4. M(w)' = m /\ UID(w)' = u
      BY Zenon, <2>2, <2>3 DEF M, UID
    <2>5. Settled(u) => Settled(u)'
      BY Zenon, <1>1, <2>3, WorkerCause DEF Inv, Fresh, StepFacts, SettledStays
    <2>6. m.kind # "createCatalog" => m.img \in Images
      BY Zenon, <1>1, <2>1, <2>2, MessageFacts
    <2>7. /\ \A i \in Images : Generated(u, i) => Generated(u, i)'
          /\ \A i \in Images : Scanned(u, i) => Scanned(u, i)'
      BY Zenon, <2>1, ImageMessages DEF QueueMoves, Generated, Scanned
    <2>8. catalog[u] \subseteq Images
      BY Zenon, <2>1 DEF TypeOK, ClusterTypeOK
    <2>9. u \in disturbed' \/ catalog[u] = {} \/ catalog'[u] = catalog[u]
      BY Zenon DEF StepFacts, CatalogKept
    <2>10. HandlerAt(w)
      BY Zenon DEF Progress, Handlers
    <2>11. u \in disturbed' => Settled(u)'
      BY Zenon DEF Settled
    <2>12. \A pc, kind : Handling(w, kind, pc)' => Handling(w, kind, pc) /\ m.kind = kind
      BY Zenon, <2>2, <2>4 DEF Handling, At
    <2>13. Handling(w, "createCatalog", "publish")'
             => \/ Settled(u)'
                \/ catalog'[u] # {} /\ \A j \in catalog'[u] \ local'[w].todo : Generated(u, j)'
      <3> SUFFICES ASSUME Handling(w, "createCatalog", "publish"), ~Settled(u)'
                   PROVE  /\ catalog'[u] # {}
                          /\ \A j \in catalog'[u] \ local'[w].todo : Generated(u, j)'
        BY Zenon, <2>12
      <3>1. catalog[u] # {} /\ \A j \in catalog[u] \ local[w].todo : Generated(u, j)
        BY Zenon, <2>3, <2>5, <2>10 DEF HandlerAt
      <3>2. catalog'[u] = catalog[u]
        BY Zenon, <2>9, <2>11, <3>1
      <3> QED BY Zenon, <2>7, <2>8, <3>1, <3>2
    <2>14. Handling(w, "createCatalog", "ack")' => Settled(u)' \/ HandedOver(u)'
      <3>1. Handling(w, "createCatalog", "ack") => Settled(u) \/ HandedOver(u)
        BY Zenon, <2>3, <2>10 DEF HandlerAt
      <3> QED BY Zenon, <2>1, <2>5, <2>12, <3>1, HandedOverStays
    <2>15. Handling(w, "generateSBOM", "ack")' => Settled(u)' \/ Scanned(u, m.img)'
      <3>1. Handling(w, "generateSBOM", "ack") => Settled(u) \/ Scanned(u, m.img)
        BY Zenon, <2>2, <2>3, <2>10 DEF HandlerAt
      <3>2. m.kind = "generateSBOM" => m.img \in Images
        BY <2>6
      <3> QED BY Zenon, <2>5, <2>7, <2>12, <3>1, <3>2
    <2>16. Handling(w, "scanSBOM", "ack")' => Settled(u)' \/ m.img \in labelled'[u]
      BY Zenon, <2>1, <2>2, <2>3, <2>5, <2>10, <2>12 DEF HandlerAt, Grows
    <2>17. HandlerAt(w)'
      BY Zenon, <2>4, <2>13, <2>14, <2>15, <2>16 DEF HandlerAt, Settled, HandedOver, Generated,
         Scanned, Live, StatusOf
    <2>18. Handling(w, "createCatalog", "publish")' /\ u \notin disturbed'
              => local'[w].todo \subseteq catalog'[u]
      BY Zenon, <2>1, <2>3, <2>9, <2>12 DEF Progress, Catalogues, Grows
    <2> QED BY Zenon, <2>4, <2>17, <2>18 DEF WorkerOK, TodoAt
  <1> QED BY Zenon, <1>0, <1>1

\* A worker that neither publishes nor acknowledges next.
LEMMA HandlerQuiet ==
    ASSUME NEW w \in Workers,
           \/ task'[w] = NoTask
           \/ local'[w].pc \notin {"publish", "ack"}
           \/ local'[w].pc # "ack" /\ M(w)'.kind # "createCatalog"
    PROVE  WorkerOK(w)'
  BY Zenon DEF WorkerOK, HandlerAt, TodoAt, Handling, At

\* A worker that acknowledges a message of a job that is settled.
LEMMA HandlerSettled ==
    ASSUME NEW w \in Workers, local'[w].pc = "ack",
           NEW u, u = UID(w), task'[w] = task[w], Settled(u)'
    PROVE  WorkerOK(w)'
  <1>1. UID(w)' = u
    BY Zenon DEF UID, M
  <1>2. Settled(UID(w))'
    BY Zenon, <1>1 DEF Settled, Live, StatusOf
  <1> QED BY Zenon, <1>2 DEF WorkerOK, HandlerAt, TodoAt, Handling, At

\* The other workers do not move.
Alone(w) == \A v \in Workers : v # w => task'[v] = task[v] /\ local'[v] = local[v]

\* What the moves of a handler do to its variables.
LEMMA GotoMoves ==
    ASSUME TypeOK, NEW w \in Workers, NEW pc, Goto(w, pc)
    PROVE  local'[w].pc = pc /\ \A v \in Workers : v # w => local'[v] = local[v]
  <1>1. local \in [Workers -> Local] /\ local[w] \in Local
    BY Zenon DEF TypeOK, WorkerTypeOK
  <1>2. local'[w] = [local[w] EXCEPT !.pc = pc]
    BY Zenon, <1>1 DEF Goto
  <1>3. local'[w].pc = pc
    BY <1>1, <1>2 DEF Local
  <1>4. \A v \in Workers : v # w => local'[v] = local[v]
    BY Zenon, <1>1 DEF Goto
  <1> QED BY Zenon, <1>3, <1>4

\* One round of a loop over what is still to do.
LEMMA LoopMoves ==
    ASSUME TypeOK, NEW w \in Workers, NEW i, NEW next, Loop(w, i, next)
    PROVE  /\ local'[w].todo = local[w].todo \ {i}
           /\ local[w].todo = {i} => local'[w].pc = next
           /\ local[w].todo # {i} => local'[w].pc = local[w].pc
           /\ \A v \in Workers : v # w => local'[v] = local[v]
  <1>1. local \in [Workers -> Local] /\ local[w] \in Local
    BY Zenon DEF TypeOK, WorkerTypeOK
  <1>2. local'[w] = [local[w] EXCEPT !.todo = @ \ {i},
                        !.pc = IF local[w].todo = {i} THEN next ELSE @]
    BY <1>1 DEF Loop
  <1>3. /\ local'[w].todo = local[w].todo \ {i}
        /\ local'[w].pc = IF local[w].todo = {i} THEN next ELSE local[w].pc
    BY <1>1, <1>2 DEF Local
  <1>4. \A v \in Workers : v # w => local'[v] = local[v]
    BY <1>1 DEF Loop
  <1> QED BY Zenon, <1>3, <1>4

\* A loop is entered, or passed over if there is nothing to do.
LEMMA EnterMoves ==
    ASSUME TypeOK, NEW w \in Workers, NEW pc, NEW S, NEW next, Enter(w, pc, S, next)
    PROVE  /\ local'[w].todo = S
           /\ S = {} => local'[w].pc = next
           /\ S # {} => local'[w].pc = pc
           /\ \A v \in Workers : v # w => local'[v] = local[v]
  <1>1. local \in [Workers -> Local] /\ local[w] \in Local
    BY Zenon DEF TypeOK, WorkerTypeOK
  <1>2. local'[w] = [local[w] EXCEPT !.todo = S, !.pc = IF S = {} THEN next ELSE pc]
    BY <1>1 DEF Enter
  <1>3. local'[w].todo = S /\ local'[w].pc = IF S = {} THEN next ELSE pc
    BY <1>1, <1>2 DEF Local
  <1>4. \A v \in Workers : v # w => local'[v] = local[v]
    BY <1>1 DEF Enter
  <1> QED BY Zenon, <1>3, <1>4

\* The other workers keep to what is asked of them.
LEMMA OnlyOne ==
    ASSUME Inv, Progress, StepFacts, NEW w \in Workers, Alone(w), WorkerOK(w)'
    PROVE  \A v \in Workers : WorkerOK(v)'
  BY Zenon, HandlerKept DEF Alone

\* A job one of the disturbances happens to is settled.
LEMMA DisturbSettles ==
    ASSUME NEW u \in UIDs, NEW S, u \in S, Disturb(S), jobs' = jobs
    PROVE  Settled(u)'
  BY Zenon DEF Disturb, Settled, Live, StatusOf

\* The steps of a subscriber.
LEMMA SubscriberMoves ==
    ASSUME Inv, Progress, StepFacts, NEW w \in Workers,
           \/ \E e \in Entries : Receive(w, e)
           \/ Acknowledge(w) \/ Crash(w) \/ HandlerError(w) \/ RetryLater(w)
           \/ GiveUp(w) \/ GiveUpSilently(w)
    PROVE  \A v \in Workers : WorkerOK(v)'
  <1>1. /\ TypeOK /\ local \in [Workers -> Local] /\ task \in [Workers -> Task \cup {NoTask}]
    BY Zenon, QueueTypes DEF Inv, TypeOK, WorkerTypeOK
  <1>2. ASSUME NEW e \in Entries, Receive(w, e)
        PROVE  \A v \in Workers : WorkerOK(v)'
    <2>1. Alone(w)
      BY Zenon, <1>1, <1>2 DEF Receive, Deliver, Alone
    <2>2. local'[w] = [Idle EXCEPT !.pc = "start"]
      BY Zenon, <1>1, <1>2 DEF Receive
    <2>3. local'[w].pc = "start"
      BY <2>2 DEF Idle
    <2>4. local'[w].pc \notin {"publish", "ack"}
      BY <2>3
    <2> QED BY Zenon, <2>1, <2>4, HandlerQuiet, OnlyOne
  <1>3. CASE Acknowledge(w) \/ Crash(w) \/ RetryLater(w)
    <2>1. Alone(w) /\ task'[w] = NoTask
      BY Zenon, <1>1, <1>3 DEF Acknowledge, Ack, Crash, Abandon, RetryLater, Nak, Alone
    <2> QED BY Zenon, <2>1, HandlerQuiet, OnlyOne
  <1>4. CASE HandlerError(w)
    <2>1. Goto(w, "fail") /\ UNCHANGED task
      BY Zenon, <1>4 DEF HandlerError
    <2>2. Alone(w) /\ local'[w].pc = "fail"
      BY Zenon, <1>1, <2>1, GotoMoves DEF Alone
    <2>3. local'[w].pc \notin {"publish", "ack"}
      BY <2>2
    <2> QED BY Zenon, <2>2, <2>3, HandlerQuiet, OnlyOne
  <1>5. CASE GiveUp(w) \/ GiveUpSilently(w)
    <2>1. Goto(w, "ack") /\ UNCHANGED task /\ task[w] # NoTask
      BY Zenon, <1>5 DEF GiveUp, GiveUpSilently, At
    <2>2. Alone(w) /\ local'[w].pc = "ack"
      BY Zenon, <1>1, <2>1, GotoMoves DEF Alone
    <2>3. PICK u \in UIDs : u = UID(w)
      BY Zenon, <2>1, WorkerCause
    <2>4. PICK n \in Names : n = NameOf[u] /\ n = Name(w)
      BY Zenon, <2>3, ClusterAssumption DEF Name
    <2>5. CASE GiveUpSilently(w)
      <3>1. Disturb({u}) /\ jobs' = jobs
        BY Zenon, <2>3, <2>5 DEF GiveUpSilently, jobVars
      <3>2. Settled(u)'
        BY Zenon, <3>1, DisturbSettles
      <3> QED BY Zenon, <2>1, <2>2, <2>3, <3>2, HandlerSettled, OnlyOne
    <2>6. CASE GiveUp(w)
      <3>1. CASE jobs[n] = NoJob
        <4>1. jobs' = jobs
          BY Zenon, <2>4, <2>6, <3>1 DEF GiveUp, jobVars
        <4>2. Settled(u)'
          BY Zenon, <2>4, <3>1, <4>1 DEF Settled, Live
        <4> QED BY Zenon, <2>1, <2>2, <2>3, <4>2, HandlerSettled, OnlyOne
      <3>2. CASE jobs[n] # NoJob
        <4>1. jobs[n].status \in Status
          BY Zenon, <1>1, <3>2, JobTypes
        <4>2. PICK s \in Status : s = MarkFailed(jobs[n].status, "InternalError")
          BY Zenon, <4>1, MarkType, ReasonFacts
        <4>3. WriteStatus(n, s) /\ JobFinished(s)
          BY Zenon, <2>4, <2>6, <3>2, <4>1, <4>2, MarkEffect, ReasonFacts DEF GiveUp
        <4>4. jobs'[n].status = s
          BY Zenon, <1>1, <3>2, <4>3, WriteEffect
        <4>5. Settled(u)'
          BY Zenon, <2>4, <4>3, <4>4 DEF Settled, StatusOf
        <4> QED BY Zenon, <2>1, <2>2, <2>3, <4>5, HandlerSettled, OnlyOne
      <3> QED BY Zenon, <3>1, <3>2
    <2> QED BY Zenon, <1>5, <2>5, <2>6
  <1> QED BY Zenon, <1>2, <1>3, <1>4, <1>5

\* The steps of CreateCatalogHandler.
LEMMA CatalogMoves ==
    ASSUME Inv, Progress, StepFacts, NEW w \in Workers,
           \/ CatalogStart(w) \/ CatalogDiscover(w) \/ CatalogList(w)
           \/ CatalogObsolete(w) \/ CatalogUpdate(w)
           \/ \E i \in Images : \/ CatalogCreateImage(w, i)
                                \/ CatalogDeleteImage(w, i)
                                \/ CatalogPublish(w, i)
    PROVE  \A v \in Workers : WorkerOK(v)'
  <1>1. /\ TypeOK /\ local \in [Workers -> Local] /\ local[w] \in Local
    BY Zenon DEF Inv, TypeOK, WorkerTypeOK
  <1>2. task[w] # NoTask /\ UNCHANGED task /\ M(w).kind = "createCatalog"
    BY Zenon DEF CatalogStart, CatalogDiscover, CatalogList, CatalogObsolete,
           CatalogUpdate, CatalogCreateImage, CatalogDeleteImage, CatalogPublish,
           Handling, At
  <1>3. PICK u \in UIDs : u = UID(w)
    BY Zenon, <1>2, WorkerCause
  <1>4. ASSUME \A v \in Workers : v # w => local'[v] = local[v],
               local'[w].pc \notin {"publish", "ack"}
        PROVE  \A v \in Workers : WorkerOK(v)'
    BY Zenon, <1>2, <1>4, HandlerQuiet, OnlyOne DEF Alone
  <1>5. ASSUME Goto(w, "ack"), Settled(u)'
        PROVE  \A v \in Workers : WorkerOK(v)'
    BY Zenon, <1>1, <1>2, <1>3, <1>5, GotoMoves, HandlerSettled, OnlyOne DEF Alone
  <1>6. ASSUME Goto(w, "fail")
        PROVE  \A v \in Workers : WorkerOK(v)'
    <2>1. /\ local'[w].pc = "fail"
          /\ \A v \in Workers : v # w => local'[v] = local[v]
      BY Zenon, <1>1, <1>6, GotoMoves
    <2>2. local'[w].pc \notin {"publish", "ack"}
      BY <2>1
    <2> QED BY Zenon, <1>4, <2>1, <2>2
  <1>7. Settled(u) /\ jobs' = jobs => Settled(u)'
    BY Zenon DEF Settled, Live, StatusOf, StepFacts, Grows
  <1>8. CASE CatalogStart(w)
    <2>1. CASE Goto(w, "ack") /\ UNCHANGED jobs /\ (~Live(u) \/ JobFinished(StatusOf(u)))
      BY Zenon, <1>5, <1>7, <2>1 DEF Settled
    <2>2. ASSUME NEW pc \in {"discover", "fail"}, NEW b,
                 local' = [local EXCEPT ![w].pc = pc, ![w].whole = b]
          PROVE  \A v \in Workers : WorkerOK(v)'
      <3>1. local'[w] = [local[w] EXCEPT !.pc = pc, !.whole = b]
        BY <1>1, <2>2
      <3>2. local'[w].pc = pc
        BY <1>1, <3>1 DEF Local
      <3>3. \A v \in Workers : v # w => local'[v] = local[v]
        BY <1>1, <2>2
      <3> QED BY <1>4, <3>2, <3>3
    <2>3. \/ Goto(w, "ack") /\ UNCHANGED jobs /\ (~Live(u) \/ JobFinished(StatusOf(u)))
          \/ \E pc \in {"discover", "fail"}, b \in {TRUE, FALSE} :
                local' = [local EXCEPT ![w].pc = pc, ![w].whole = b]
      BY Zenon, <1>3, <1>8 DEF CatalogStart, jobVars
    <2> QED BY Zenon, <2>1, <2>2, <2>3
  <1>9. CASE CatalogDiscover(w) \/ CatalogList(w)
    <2>1. /\ local'[w].pc \in {"list", "create"}
          /\ \A v \in Workers : v # w => local'[v] = local[v]
      BY <1>1, <1>9 DEF CatalogDiscover, CatalogList, Local
    <2> QED BY <1>4, <2>1
  <1>10. ASSUME NEW i \in Images, CatalogCreateImage(w, i)
         PROVE  \A v \in Workers : WorkerOK(v)'
    <2>1. \/ Goto(w, "ack") /\ UNCHANGED jobs /\ ~Live(u)
          \/ Loop(w, i, "create")
      BY Zenon, <1>3, <1>10 DEF CatalogCreateImage, jobVars
    <2>2. local[w].pc = "create"
      BY Zenon, <1>10 DEF CatalogCreateImage, Handling, At
    <2>3. CASE Goto(w, "ack") /\ UNCHANGED jobs /\ ~Live(u)
      BY Zenon, <1>5, <1>7, <2>3 DEF Settled
    <2>4. CASE Loop(w, i, "create")
      <3>1. /\ local'[w].pc = "create"
            /\ \A v \in Workers : v # w => local'[v] = local[v]
        BY Zenon, <1>1, <2>2, <2>4, LoopMoves
      <3> QED BY <1>4, <3>1
    <2> QED BY Zenon, <2>1, <2>3, <2>4
  <1>11. CASE CatalogObsolete(w)
    <2>1. PICK S : Enter(w, "delete", S, "status")
      BY Zenon, <1>11 DEF CatalogObsolete
    <2>2. /\ S = {} => local'[w].pc = "status"
          /\ S # {} => local'[w].pc = "delete"
          /\ \A v \in Workers : v # w => local'[v] = local[v]
      BY <1>1, <2>1, EnterMoves
    <2> QED BY <1>4, <2>2
  <1>12. ASSUME NEW i \in Images, CatalogDeleteImage(w, i)
         PROVE  \A v \in Workers : WorkerOK(v)'
    <2>1. Goto(w, "fail") \/ Loop(w, i, "status")
      BY Zenon, <1>12 DEF CatalogDeleteImage
    <2>2. local[w].pc = "delete"
      BY Zenon, <1>12 DEF CatalogDeleteImage, Handling, At
    <2>3. CASE Loop(w, i, "status")
      <3>1. /\ local'[w].pc \in {"delete", "status"}
            /\ \A v \in Workers : v # w => local'[v] = local[v]
        BY Zenon, <1>1, <2>2, <2>3, LoopMoves
      <3> QED BY <1>4, <3>1
    <2> QED BY Zenon, <1>6, <2>1, <2>3
  <1>13. CASE CatalogUpdate(w)
    <2>1. CASE ~Live(u)
      <3>1. Goto(w, "ack") /\ UNCHANGED jobs
        BY Zenon, <1>3, <1>13, <2>1 DEF CatalogUpdate, jobVars
      <3> QED BY Zenon, <1>5, <1>7, <2>1, <3>1 DEF Settled
    <2>2. CASE Live(u)
      <3>1. PICK n \in Names : n = NameOf[u] /\ n = Name(w)
        BY Zenon, <1>3, ClusterAssumption DEF Name
      <3>2. PICK f \in SUBSET Images : f = local[w].found
        BY Zenon, <1>1 DEF Local
      <3>3. jobs[n] # NoJob
        BY Zenon, <2>2, <3>1 DEF Live
      <3>4. PICK t \in Status : t = jobs[n].status /\ t = StatusOf(u)
        BY Zenon, <1>1, <3>1, <3>3, JobTypes DEF StatusOf
      <3>5. PICK s \in Status : s = CatalogStatus(t, f)
        BY Zenon, CatalogStatusType
      <3>6. /\ WriteStatus(n, s) /\ catalog' = [catalog EXCEPT ![u] = f]
            /\ Enter(w, "publish", f, "ack")
        BY Zenon, <1>3, <1>13, <2>2, <3>1, <3>2, <3>4, <3>5 DEF CatalogUpdate
      <3>7. /\ local'[w].todo = f /\ (f = {} => local'[w].pc = "ack")
            /\ f # {} => local'[w].pc = "publish"
            /\ \A v \in Workers : v # w => local'[v] = local[v]
        BY <1>1, <3>6, EnterMoves
      <3>8. catalog'[u] = f
        BY Zenon, <1>1, <3>6 DEF TypeOK, ClusterTypeOK
      <3>9. CASE f = {}
        <4>1. JobFinished(s)
          <5>1. "NoImagesToScan" \in Reasons
            BY DEF Reasons
          <5> QED BY Zenon, <3>5, <3>9, <5>1, MarkEffect DEF CatalogStatus
        <4>2. jobs'[n].status = s
          BY Zenon, <1>1, <3>3, <3>6, WriteEffect
        <4>3. Settled(u)'
          BY Zenon, <3>1, <4>1, <4>2 DEF Settled, StatusOf
        <4> QED BY Zenon, <1>2, <1>3, <3>7, <3>9, <4>3, HandlerSettled, OnlyOne DEF Alone
      <3>10. CASE f # {}
        <4>1. local'[w].pc = "publish" /\ UID(w)' = u
          BY Zenon, <1>2, <1>3, <3>7, <3>10 DEF UID, M
        <4>2. ~Handling(w, "createCatalog", "ack")' /\ ~Handling(w, "generateSBOM", "ack")'
              /\ ~Handling(w, "scanSBOM", "ack")'
          BY <4>1 DEF Handling, At
        <4>3. catalog'[u] # {} /\ catalog'[u] \ local'[w].todo = {}
          BY Zenon, <3>7, <3>8, <3>10
        <4>4. HandlerAt(w)'
          BY Zenon, <4>1, <4>2, <4>3 DEF HandlerAt
        <4>5. TodoAt(w)'
          BY Zenon, <3>7, <3>8, <4>1 DEF TodoAt
        <4> QED BY Zenon, <1>2, <3>7, <4>4, <4>5, OnlyOne DEF Alone, WorkerOK
      <3> QED BY Zenon, <3>9, <3>10
    <2> QED BY Zenon, <2>1, <2>2
  <1>14. ASSUME NEW i \in Images, CatalogPublish(w, i)
         PROVE  \A v \in Workers : WorkerOK(v)'
    <2>1. /\ Handling(w, "createCatalog", "publish") /\ local[w].pc = "publish"
          /\ i \in local[w].todo
          /\ Loop(w, i, "ack") \/ Goto(w, "fail")
          /\ Publish(Message("generateSBOM", u, i))
          /\ UNCHANGED <<catalog, jobs, disturbed>>
      BY Zenon, <1>3, <1>14 DEF CatalogPublish, Answer, Handling, At, jobVars, historyVars
    <2>2. CASE Loop(w, i, "ack")
      <3>1. /\ local'[w].todo = local[w].todo \ {i}
            /\ local[w].todo = {i} => local'[w].pc = "ack"
            /\ local[w].todo # {i} => local'[w].pc = "publish"
            /\ \A v \in Workers : v # w => local'[v] = local[v]
        BY Zenon, <1>1, <2>1, <2>2, LoopMoves
      <3>2. Generated(u, i)' /\ \A j \in Images : Generated(u, j) => Generated(u, j)'
        <4>1. PICK m \in ScanMessages : m = Message("generateSBOM", u, i)
          BY Zenon, ImageMessages
        <4>2. published'[m] > 0
          BY Zenon, <1>1, <1>2, <2>1, <4>1, PublishMoves
        <4> QED BY Zenon, <4>1, <4>2, ImageMessages DEF Generated, StepFacts, QueueMoves
      <3>3. UID(w)' = u /\ M(w)' = M(w)
        BY Zenon, <1>2, <1>3 DEF UID, M
      <3>4. Settled(u) => Settled(u)'
        BY Zenon, <1>7, <2>1
      <3>5. ~Settled(u) => /\ catalog[u] # {}
                           /\ \A j \in catalog[u] \ local[w].todo : Generated(u, j)
        BY Zenon, <1>3, <2>1 DEF Progress, Handlers, HandlerAt
      <3>6. catalog[u] \subseteq Images
        BY Zenon, <1>1 DEF TypeOK, ClusterTypeOK
      <3>7. ~Settled(u)' => /\ catalog'[u] # {}
                            /\ \A j \in catalog'[u] \ local'[w].todo : Generated(u, j)'
        BY Zenon, <2>1, <3>1, <3>2, <3>4, <3>5, <3>6
      <3>8. TodoAt(w)'
        BY Zenon, <1>3, <2>1, <3>1, <3>3 DEF TodoAt, Progress, Catalogues
      <3>9. /\ ~Handling(w, "generateSBOM", "ack")' /\ ~Handling(w, "scanSBOM", "ack")'
            /\ ~Settled(u)' /\ local'[w].pc # "publish" => HandedOver(u)'
        <4>1. ~Handling(w, "generateSBOM", "ack")' /\ ~Handling(w, "scanSBOM", "ack")'
          BY <1>2, <3>3 DEF Handling
        <4>2. local'[w].pc # "publish" => local'[w].todo = {}
          BY Zenon, <3>1
        <4> QED BY Zenon, <3>7, <4>1, <4>2 DEF HandedOver
      <3>10. HandlerAt(w)'
        <4>1. Handling(w, "createCatalog", "ack")' => Settled(u)' \/ HandedOver(u)'
          <5>1. Handling(w, "createCatalog", "ack")' => local'[w].pc # "publish"
            BY DEF Handling, At
          <5> QED BY Zenon, <3>9, <5>1
        <4> QED BY Zenon, <3>3, <3>7, <3>9, <4>1 DEF HandlerAt, Settled, HandedOver, Generated,
                Live, StatusOf
      <3> QED BY Zenon, <1>2, <3>1, <3>8, <3>10, OnlyOne DEF Alone, WorkerOK
    <2> QED BY Zenon, <1>6, <2>1, <2>2
  <1> QED BY Zenon, <1>8, <1>9, <1>10, <1>11, <1>12, <1>13, <1>14

\* The steps of GenerateSBOMHandler and ScanSBOMHandler.
LEMMA ImageMoves ==
    ASSUME Inv, Progress, StepFacts, NEW w \in Workers,
           \/ GenerateStart(w) \/ GenerateCreate(w) \/ GeneratePublish(w)
           \/ ScanStart(w) \/ \E b \in BOOLEAN : ScanReport(w, b)
    PROVE  \A v \in Workers : WorkerOK(v)'
  <1>1. TypeOK
    BY Zenon DEF Inv
  <1>2. /\ task[w] # NoTask /\ UNCHANGED task
        /\ M(w).kind = "generateSBOM" \/ M(w).kind = "scanSBOM"
    BY Zenon DEF GenerateStart, GenerateCreate, GeneratePublish, ScanStart, ScanReport,
           Handling, At
  <1>3. PICK u \in UIDs : u = UID(w)
    BY Zenon, <1>2, WorkerCause
  <1>4. PICK i \in Images : i = M(w).img
    <2>1. M(w).kind # "createCatalog"
      BY <1>2
    <2> QED BY Zenon, <1>1, <1>2, <2>1, MessageFacts
  <1>5. M(w)' = M(w) /\ UID(w)' = u /\ M(w)'.kind # "createCatalog"
    <2>1. M(w)' = M(w) /\ UID(w)' = u
      BY Zenon, <1>2, <1>3 DEF M, UID
    <2> QED BY <1>2, <2>1
  <1>6. ASSUME NEW pc \in {"fail", "sbom", "publish", "report"}, Goto(w, pc)
        PROVE  \A v \in Workers : WorkerOK(v)'
    <2>1. local'[w].pc = pc /\ \A v \in Workers : v # w => local'[v] = local[v]
      BY Zenon, <1>1, <1>6, GotoMoves
    <2>2. pc # "ack"
      BY <1>6
    <2> QED BY Zenon, <1>2, <1>5, <2>1, <2>2, HandlerQuiet, OnlyOne DEF Alone
  <1>7. ASSUME Goto(w, "ack"), Disturb({u}), UNCHANGED jobs
        PROVE  \A v \in Workers : WorkerOK(v)'
    <2>1. Settled(u)'
      BY Zenon, <1>7, DisturbSettles
    <2> QED BY Zenon, <1>1, <1>2, <1>3, <1>7, <2>1, GotoMoves, HandlerSettled, OnlyOne DEF Alone
  <1>8. CASE GenerateStart(w)
    <2>1. \/ \E pc \in {"sbom", "fail"} : Goto(w, pc)
          \/ Goto(w, "ack") /\ Disturb({u}) /\ UNCHANGED jobs
      BY Zenon, <1>3, <1>8 DEF GenerateStart, jobVars
    <2> QED BY Zenon, <1>6, <1>7, <2>1
  <1>9. CASE GenerateCreate(w)
    BY Zenon, <1>6, <1>9 DEF GenerateCreate
  <1>10. CASE ScanStart(w)
    <2>1. \/ Goto(w, "report") \/ Goto(w, "fail")
          \/ Goto(w, "ack") /\ Disturb({u}) /\ UNCHANGED jobs
      BY Zenon, <1>3, <1>10 DEF ScanStart, jobVars
    <2> QED BY Zenon, <1>6, <1>7, <2>1
  <1>11. CASE GeneratePublish(w)
    <2>1. /\ Publish(Message("scanSBOM", u, i)) /\ M(w).kind = "generateSBOM"
          /\ Goto(w, "ack") \/ Goto(w, "fail")
      BY Zenon, <1>3, <1>4, <1>11 DEF GeneratePublish, Answer, Handling
    <2>2. CASE Goto(w, "ack")
      <3>1. PICK m \in ScanMessages : m = Message("scanSBOM", u, i)
        BY Zenon, ImageMessages
      <3>2. published'[m] > 0
        BY Zenon, <1>1, <1>2, <2>1, <3>1, PublishMoves
      <3>3. Scanned(u, i)'
        BY Zenon, <3>1, <3>2 DEF Scanned
      <3>4. local'[w].pc = "ack" /\ \A v \in Workers : v # w => local'[v] = local[v]
        BY Zenon, <1>1, <2>2, GotoMoves
      <3>5. ~Handling(w, "scanSBOM", "ack")' /\ ~Handling(w, "createCatalog", "ack")'
            /\ ~Handling(w, "createCatalog", "publish")'
        BY <1>5, <2>1 DEF Handling
      <3>6. M(w)'.img = i
        BY Zenon, <1>4, <1>5
      <3>7. HandlerAt(w)'
        BY Zenon, <1>5, <3>3, <3>5, <3>6 DEF HandlerAt, Scanned
      <3>8. TodoAt(w)'
        BY Zenon, <3>5 DEF TodoAt
      <3> QED BY Zenon, <1>2, <3>4, <3>7, <3>8, OnlyOne DEF Alone, WorkerOK
    <2> QED BY Zenon, <1>6, <2>1, <2>2
  <1>12. ASSUME NEW b \in BOOLEAN, ScanReport(w, b)
         PROVE  \A v \in Workers : WorkerOK(v)'
    <2>1. /\ labelled' = [labelled EXCEPT ![u] = @ \cup {i}] /\ M(w).kind = "scanSBOM"
          /\ Goto(w, "ack") \/ Goto(w, "fail")
      BY Zenon, <1>3, <1>4, <1>12 DEF ScanReport, Answer, Handling
    <2>2. CASE Goto(w, "ack")
      <3>1. i \in labelled'[u]
        BY Zenon, <1>1, <2>1 DEF TypeOK, ClusterTypeOK
      <3>4. local'[w].pc = "ack" /\ \A v \in Workers : v # w => local'[v] = local[v]
        BY Zenon, <1>1, <2>2, GotoMoves
      <3>5. ~Handling(w, "generateSBOM", "ack")' /\ ~Handling(w, "createCatalog", "ack")'
            /\ ~Handling(w, "createCatalog", "publish")'
        BY <1>5, <2>1 DEF Handling
      <3>6. M(w)'.img = i
        BY Zenon, <1>4, <1>5
      <3>7. HandlerAt(w)'
        BY Zenon, <1>5, <3>1, <3>5, <3>6 DEF HandlerAt
      <3>8. TodoAt(w)'
        BY Zenon, <3>5 DEF TodoAt
      <3> QED BY Zenon, <1>2, <3>4, <3>7, <3>8, OnlyOne DEF Alone, WorkerOK
    <2> QED BY Zenon, <1>6, <2>1, <2>2
  <1> QED BY Zenon, <1>8, <1>9, <1>10, <1>11, <1>12

\* Every handler has done what it acknowledges.
LEMMA HandlersStep ==
    ASSUME Inv, Progress, StepFacts, [Next]_vars
    PROVE  \A w \in Workers : WorkerOK(w)'
  <1>1. ASSUME UNCHANGED <<task, local>>
        PROVE  \A w \in Workers : WorkerOK(w)'
    BY Zenon, <1>1, HandlerKept
  <1>2. CASE Users \/ Environment \/ RestartController
    BY Zenon, <1>1, <1>2 DEF Users, ValidateCreate, CreateScanJob, DeleteScanJob, Environment,
           ChangeTag, DeleteRegistry, CollectScanJob, CollectImage, CollectSBOM, CollectReport,
           RestartController
  <1>3. ASSUME NEW n \in Names, WatchScanJob(n) \/ JobController(n)
        PROVE  UNCHANGED <<task, local>>
    BY Zenon, <1>3 DEF WatchScanJob, JobController, SyncScanJob, Reconcile, SkipScanJob,
           RejectScanJob, SnapshotRegistry, ScheduleScanJob, FailReconcile, UpdateScanJobStatus,
           RetryScanJob
  <1>4. ASSUME NEW i \in Images, WatchReport(i) \/ CompletionController(i)
        PROVE  UNCHANGED <<task, local>>
    BY Zenon, <1>4 DEF WatchReport, CompletionController, SyncReport, ReconcileReport,
           SkipReport, CountReports
  <1>5. ASSUME NEW w \in Workers, Consume(w) \/ Failures(w)
        PROVE  \A v \in Workers : WorkerOK(v)'
    BY Zenon, <1>5, SubscriberMoves, CatalogMoves, ImageMoves DEF Consume, Failures, Handle
  <1>6. ASSUME NEW e \in Entries, Redelivery(e)
        PROVE  UNCHANGED <<task, local>>
    BY Zenon, <1>6 DEF Redelivery, AckWaitElapsed, Redeliver
  <1>7. CASE UNCHANGED vars
    BY Zenon, <1>1, <1>7 DEF vars
  <1> QED BY Zenon, <1>1, <1>2, <1>3, <1>4, <1>5, <1>6, <1>7 DEF Next

-----------------------------------------------------------------------------
(* The catalogues, the labels and the reports.                             *)

\* A label comes from a message to scan, that from one to generate, and that
\* from the catalogue.
Additions ==
    \A u \in UIDs, i \in Images :
        /\ i \in labelled'[u] => i \in labelled[u] \/ Scanned(u, i)
        /\ Scanned(u, i)' => Scanned(u, i) \/ Generated(u, i)
        /\ Generated(u, i)' => Generated(u, i) \/ u \in disturbed \/ i \in catalog[u]

\* No other message than the one published is new.
LEMMA PublishOnly ==
    ASSUME TypeOK, NEW m \in ScanMessages, Publish(m), NEW u \in UIDs, NEW i \in Images
    PROVE  /\ Scanned(u, i)' => Scanned(u, i) \/ Message("scanSBOM", u, i) = m
           /\ Generated(u, i)' => Generated(u, i) \/ Message("generateSBOM", u, i) = m
  <1>1. published \in [ScanMessages -> 0..MaxCopies]
    BY Zenon, QueueTypes
  <1>2. published' = published \/ \E c : published' = [published EXCEPT ![m] = c]
    BY Zenon DEF Publish, Store
  <1>3. \A k \in ScanMessages : k # m => published'[k] = published[k]
    BY Zenon, <1>1, <1>2
  <1> QED BY Zenon, <1>3, ImageMessages DEF Scanned, Generated

\* Messages are told apart by their kind, job and image.
LEMMA MessagesApart ==
    ASSUME NEW u, NEW i, NEW v, NEW j
    PROVE  /\ Message("scanSBOM", u, i) # Message("generateSBOM", v, j)
           /\ Message("scanSBOM", u, i) # Message("createCatalog", v, j)
           /\ Message("generateSBOM", u, i) # Message("createCatalog", v, j)
           /\ Message("scanSBOM", u, i) = Message("scanSBOM", v, j) => u = v /\ i = j
           /\ Message("generateSBOM", u, i) = Message("generateSBOM", v, j) => u = v /\ i = j
  BY DEF Message

\* A step that publishes nothing and labels nothing.
LEMMA AddsNothing ==
    ASSUME UNCHANGED <<published, labelled>>
    PROVE  Additions
  BY Zenon DEF Additions, Scanned, Generated

\* What a handler adds.
LEMMA HandlerAdds ==
    ASSUME Inv, Progress, NEW w \in Workers,
           \/ \E i \in Images : CatalogPublish(w, i)
           \/ GeneratePublish(w) \/ \E b \in BOOLEAN : ScanReport(w, b)
    PROVE  Additions
  <1>1. TypeOK /\ task[w] # NoTask
    BY Zenon DEF Inv, CatalogPublish, GeneratePublish, ScanReport, Handling, At
  <1>2. PICK v \in UIDs : v = UID(w)
    BY Zenon, <1>1, WorkerCause
  <1>3. published[M(w)] > 0
    BY Zenon, <1>1 DEF Progress, Sent
  <1>4. ASSUME NEW j \in Images, CatalogPublish(w, j)
        PROVE  Additions
    <2>1. /\ Publish(Message("generateSBOM", v, j)) /\ UNCHANGED labelled
          /\ Handling(w, "createCatalog", "publish") /\ j \in local[w].todo
      BY Zenon, <1>2, <1>4 DEF CatalogPublish, historyVars
    <2>0. PICK m \in ScanMessages : m = Message("generateSBOM", v, j)
      BY Zenon, ImageMessages
    <2>2. v \notin disturbed => j \in catalog[v]
      BY Zenon, <1>2, <2>1 DEF Progress, Catalogues
    <2>3. \A u \in UIDs, i \in Images :
             /\ Scanned(u, i)' => Scanned(u, i) \/ Message("scanSBOM", u, i) = m
             /\ Generated(u, i)' => Generated(u, i) \/ Message("generateSBOM", u, i) = m
      BY Zenon, <1>1, <2>0, <2>1, PublishOnly
    <2>4. \A u \in UIDs, i \in Images :
             /\ Scanned(u, i)' => Scanned(u, i)
             /\ Generated(u, i)' => Generated(u, i) \/ (u = v /\ i = j)
      BY <2>0, <2>3, MessagesApart
    <2> QED BY Zenon, <2>1, <2>2, <2>4 DEF Additions
  <1>5. ASSUME M(w).kind # "createCatalog"
        PROVE  M(w).img \in Images
    BY Zenon, <1>1, <1>5, MessageFacts
  <1>6. CASE GeneratePublish(w)
    <2>1. M(w).kind = "generateSBOM" /\ UNCHANGED labelled
      BY Zenon, <1>6 DEF GeneratePublish, Handling, historyVars
    <2>2. M(w).kind # "createCatalog"
      BY <2>1
    <2>3. PICK j \in Images : j = M(w).img
      BY Zenon, <1>5, <2>2
    <2>4. Publish(Message("scanSBOM", v, j))
      BY Zenon, <1>2, <1>6, <2>3 DEF GeneratePublish
    <2>0. PICK m \in ScanMessages : m = Message("scanSBOM", v, j)
      BY Zenon, ImageMessages
    <2>5. Generated(v, j)
      BY Zenon, <1>1, <1>2, <1>3, <2>1, <2>3, HandledMessage DEF Generated
    <2>6. \A u \in UIDs, i \in Images :
             /\ Scanned(u, i)' => Scanned(u, i) \/ Message("scanSBOM", u, i) = m
             /\ Generated(u, i)' => Generated(u, i) \/ Message("generateSBOM", u, i) = m
      BY Zenon, <1>1, <2>0, <2>4, PublishOnly
    <2>7. \A u \in UIDs, i \in Images :
             /\ Generated(u, i)' => Generated(u, i)
             /\ Scanned(u, i)' => Scanned(u, i) \/ (u = v /\ i = j)
      BY <2>0, <2>6, MessagesApart
    <2> QED BY Zenon, <2>1, <2>5, <2>7 DEF Additions
  <1>7. ASSUME NEW b \in BOOLEAN, ScanReport(w, b)
        PROVE  Additions
    <2>1. M(w).kind = "scanSBOM" /\ UNCHANGED published
      BY Zenon, <1>7 DEF ScanReport, Handling, queueVars
    <2>2. M(w).kind # "createCatalog"
      BY <2>1
    <2>3. PICK j \in Images : j = M(w).img
      BY Zenon, <1>5, <2>2
    <2>4. labelled' = [labelled EXCEPT ![v] = @ \cup {j}]
      BY Zenon, <1>2, <1>7, <2>3 DEF ScanReport
    <2>5. Scanned(v, j)
      BY Zenon, <1>1, <1>2, <1>3, <2>1, <2>3, HandledMessage DEF Scanned
    <2>6. /\ labelled'[v] = labelled[v] \cup {j}
          /\ \A u \in UIDs : u # v => labelled'[u] = labelled[u]
      BY Zenon, <1>1, <2>4 DEF TypeOK, ClusterTypeOK
    <2>7. \A u \in UIDs, i \in Images : i \in labelled'[u] => i \in labelled[u] \/ Scanned(u, i)
      BY Zenon, <2>5, <2>6
    <2> QED BY Zenon, <2>1, <2>7 DEF Additions, Scanned, Generated
  <1> QED BY Zenon, <1>4, <1>6, <1>7

\* What a step adds.
LEMMA AdditionsStep ==
    ASSUME Inv, Progress, [Next]_vars
    PROVE  Additions
  <1>1. CASE Users \/ Environment \/ RestartController
    <2>1. UNCHANGED <<published, labelled>>
      BY Zenon, <1>1 DEF Users, ValidateCreate, CreateScanJob, DeleteScanJob, Environment,
           ChangeTag, DeleteRegistry, CollectScanJob, CollectImage, CollectSBOM, CollectReport,
           RestartController, historyVars, queueVars
    <2> QED BY Zenon, <2>1, AddsNothing
  <1>2. ASSUME NEW n \in Names, WatchScanJob(n) \/ JobController(n)
        PROVE  Additions
    <2>1. UNCHANGED labelled
      BY Zenon, <1>2 DEF WatchScanJob, JobController, SyncScanJob, Reconcile, SkipScanJob,
           RejectScanJob, SnapshotRegistry, ScheduleScanJob, FailReconcile, UpdateScanJobStatus,
           RetryScanJob, historyVars
    <2>2. CASE ScheduleScanJob(n)
      <3>1. PICK u : u = jobCache[n].uid
        BY Zenon
      <3>2. Publish(Message("createCatalog", u, NoImage)) /\ jobCache[n] # NoJob
        BY Zenon, <2>2, <3>1 DEF ScheduleScanJob, Begin, CachedPending
      <3>3. u \in UIDs
        BY Zenon, <3>1, <3>2 DEF Inv, TypeOK, ControllerTypeOK, ScanJob
      <3>4. PICK m \in ScanMessages : m = Message("createCatalog", u, NoImage)
        BY Zenon, <3>3, CatalogMessage
      <3>5. \A v \in UIDs, i \in Images :
               /\ Scanned(v, i)' => Scanned(v, i) \/ Message("scanSBOM", v, i) = m
               /\ Generated(v, i)' => Generated(v, i) \/ Message("generateSBOM", v, i) = m
        BY Zenon, <3>2, <3>4, PublishOnly DEF Inv
      <3>6. \A v \in UIDs, i \in Images :
               (Scanned(v, i)' => Scanned(v, i)) /\ (Generated(v, i)' => Generated(v, i))
        <4>1. \A v \in UIDs, i \in Images : /\ Message("scanSBOM", v, i) # m
                                             /\ Message("generateSBOM", v, i) # m
          BY <3>4 DEF Message
        <4> QED BY Zenon, <3>5, <4>1
      <3> QED BY Zenon, <2>1, <3>6 DEF Additions
    <2>3. CASE ~ScheduleScanJob(n)
      <3>1. UNCHANGED published
        BY Zenon, <1>2, <2>3 DEF WatchScanJob, JobController, SyncScanJob, Reconcile, SkipScanJob,
             RejectScanJob, SnapshotRegistry, FailReconcile, UpdateScanJobStatus,
             RetryScanJob, queueVars
      <3> QED BY Zenon, <2>1, <3>1, AddsNothing
    <2> QED BY Zenon, <2>2, <2>3
  <1>3. ASSUME NEW i \in Images, WatchReport(i) \/ CompletionController(i)
        PROVE  UNCHANGED <<published, labelled>>
    BY Zenon, <1>3 DEF WatchReport, CompletionController, SyncReport, ReconcileReport,
           SkipReport, CountReports, queueVars, historyVars
  <1>4. ASSUME NEW w \in Workers,
               \/ \E e \in Entries : Receive(w, e)
               \/ Acknowledge(w) \/ Crash(w) \/ HandlerError(w) \/ RetryLater(w)
               \/ GiveUp(w) \/ GiveUpSilently(w)
        PROVE  UNCHANGED <<published, labelled>>
    BY Zenon, <1>4 DEF Receive, Deliver, Acknowledge, Ack, Crash, Abandon, RetryLater, Nak,
           HandlerError, GiveUp, GiveUpSilently, queueVars, historyVars
  <1>5. ASSUME NEW w \in Workers,
               \/ CatalogStart(w) \/ CatalogDiscover(w) \/ CatalogList(w)
               \/ CatalogObsolete(w) \/ CatalogUpdate(w)
               \/ \E i \in Images : CatalogCreateImage(w, i) \/ CatalogDeleteImage(w, i)
               \/ GenerateStart(w) \/ GenerateCreate(w) \/ ScanStart(w)
        PROVE  UNCHANGED <<published, labelled>>
    BY Zenon, <1>5 DEF CatalogStart, CatalogDiscover, CatalogList, CatalogObsolete,
           CatalogUpdate, CatalogCreateImage, CatalogDeleteImage, GenerateStart,
           GenerateCreate, ScanStart, queueVars, historyVars
  <1>6. ASSUME NEW w \in Workers, Consume(w) \/ Failures(w)
        PROVE  Additions
    BY Zenon, <1>4, <1>5, <1>6, AddsNothing, HandlerAdds DEF Consume, Failures, Handle
  <1>7. ASSUME NEW e \in Entries, Redelivery(e)
        PROVE  UNCHANGED <<published, labelled>>
    BY Zenon, <1>7 DEF Redelivery, AckWaitElapsed, Redeliver, queueVars, historyVars
  <1>8. CASE UNCHANGED vars
    BY Zenon, <1>8, AddsNothing DEF vars
  <1> QED BY Zenon, <1>1, <1>2, <1>3, <1>6, <1>7, <1>8, AddsNothing DEF Next

\* Messages, handlers and labels stay about images of the catalogue.
LEMMA CataloguesStep ==
    ASSUME Inv, Progress, StepFacts, Additions, TypeOK', created \subseteq created',
           \A w \in Workers : WorkerOK(w)'
    PROVE  Catalogues'
  <1>1. ASSUME NEW u \in UIDs, u \notin created'
        PROVE  catalog'[u] = {}
    BY Zenon, <1>1 DEF Progress, Catalogues, StepFacts, CatalogKept
  <1>2. ASSUME NEW u \in UIDs, u \notin disturbed'
        PROVE  /\ labelled'[u] \subseteq catalog'[u]
               /\ \A i \in Images : Generated(u, i)' \/ Scanned(u, i)' => i \in catalog'[u]
    <2>1. u \notin disturbed
      BY Zenon, <1>2 DEF StepFacts, Grows
    <2>2. /\ labelled[u] \subseteq catalog[u]
          /\ \A i \in Images : Generated(u, i) \/ Scanned(u, i) => i \in catalog[u]
      BY Zenon, <2>1 DEF Progress, Catalogues
    <2>3. catalog[u] \subseteq catalog'[u]
      BY Zenon, <1>2 DEF StepFacts, CatalogKept
    <2>4. labelled'[u] \subseteq Images
      BY Zenon DEF TypeOK, ClusterTypeOK
    <2> QED BY Zenon, <2>1, <2>2, <2>3, <2>4 DEF Additions
  <1>3. \A w \in Workers : TodoAt(w)'
    BY Zenon DEF WorkerOK
  <1> QED BY Zenon, <1>1, <1>2, <1>3 DEF Catalogues, TodoAt

\* A step that does not touch the reports or their cache.
LEMMA LabelsStay ==
    ASSUME Progress, StepFacts, TypeOK, UNCHANGED <<reportCache, reportEvents>>,
           \A i \in Images : reports'[i].uid = reports[i].uid
    PROVE  Labels'
  <1>1. \A i \in Images : /\ reports[i].uid \in UIDs \cup {NoUID}
                          /\ reportCache[i] \in UIDs \cup {NoUID}
    BY Zenon DEF TypeOK, ClusterTypeOK, ReportTypeOK, Report
  <1> QED BY Zenon, <1>1 DEF Progress, Labels, StepFacts, Grows

\* What is awaited of job u.
AwaitedAt(u) ==
    ~Settled(u) =>
        /\ \A i \in labelled[u] : reports[i].uid = u
        /\ catalog[u] # {} /\ catalog[u] \subseteq labelled[u]
              => \E i \in Images : reports[i].uid = u /\ i \in reportEvents \cup reportQueue

\* What is awaited of a job that is not settled was awaited before the step,
\* unless it has no labels yet.
LEMMA AwaitedBefore ==
    ASSUME Inv, Progress, StepFacts, Additions, TypeOK', NEW u \in UIDs, ~Settled(u)'
    PROVE  \/ /\ ~Settled(u) /\ u \notin disturbed' /\ catalog'[u] = catalog[u]
              /\ \A i \in labelled[u] : reports[i].uid = u
              /\ catalog[u] # {} /\ catalog[u] \subseteq labelled[u]
                    => \E i \in Images : reports[i].uid = u /\ i \in reportEvents \cup reportQueue
           \/ AwaitedAt(u)'
  <1>1. u \notin disturbed' /\ u \notin disturbed
    BY Zenon DEF Settled, StepFacts, Grows
  <1>2. ASSUME catalog[u] = {}
        PROVE  AwaitedAt(u)'
    <2>1. labelled'[u] \subseteq Images
      BY Zenon DEF TypeOK, ClusterTypeOK
    <2>2. labelled'[u] = {}
      BY Zenon, <1>1, <1>2, <2>1 DEF Progress, Catalogues, Additions
    <2>3. ~(catalog'[u] # {} /\ catalog'[u] \subseteq labelled'[u])
      BY Zenon, <2>2
    <2> QED BY Zenon, <2>2, <2>3 DEF AwaitedAt
  <1>3. CASE u \in created
    <2>1. ~Settled(u)
      BY Zenon, <1>3 DEF StepFacts, SettledStays
    <2>2. catalog[u] = {} \/ catalog'[u] = catalog[u]
      BY Zenon, <1>1 DEF StepFacts, CatalogKept
    <2> QED BY Zenon, <1>1, <1>2, <2>1, <2>2 DEF Progress, Awaited
  <1>4. CASE u \notin created
    BY Zenon, <1>2, <1>4 DEF Progress, Catalogues
  <1> QED BY Zenon, <1>3, <1>4

\* A step that labels nothing and takes no report off the controller.
LEMMA AwaitedStays ==
    ASSUME Inv, Progress, StepFacts, Additions, TypeOK', UNCHANGED labelled,
           \A i \in Images : reports'[i].uid = reports[i].uid,
           reportEvents \cup reportQueue \subseteq reportEvents' \cup reportQueue'
    PROVE  Awaited'
  <1>1. ASSUME NEW u \in UIDs, ~Settled(u)' PROVE AwaitedAt(u)'
    <2>1. labelled[u] \subseteq Images
      BY Zenon DEF Inv, TypeOK, ClusterTypeOK
    <2>2. CASE /\ catalog'[u] = catalog[u]
               /\ \A i \in labelled[u] : reports[i].uid = u
               /\ catalog[u] # {} /\ catalog[u] \subseteq labelled[u]
                    => \E i \in Images : reports[i].uid = u /\ i \in reportEvents \cup reportQueue
      <3>1. \A i \in labelled'[u] : reports'[i].uid = u
        BY Zenon, <2>1, <2>2
      <3>2. catalog'[u] # {} /\ catalog'[u] \subseteq labelled'[u]
               => \E i \in Images : reports'[i].uid = u /\ i \in reportEvents' \cup reportQueue'
        BY Zenon, <2>2
      <3> QED BY Zenon, <3>1, <3>2 DEF AwaitedAt
    <2> QED BY Zenon, <1>1, <2>2, AwaitedBefore
  <1> QED BY Zenon, <1>1 DEF Awaited, AwaitedAt

\* A status that counts as many reports as images is finished.
LEMMA CountedAll ==
    ASSUME NEW s \in Status, NEW k \in Nat, k = s.imagesCount \/ IsFailed(s)
    PROVE  JobFinished(CountedStatus(s, k))
  <1> DEFINE c == [s EXCEPT !.scannedImagesCount = k]
  <1>1. CASE IsFailed(s)
    BY Zenon, <1>1, CountedFacts
  <1>2. CASE ~IsFailed(s)
    <2>1. c \in Status /\ "AllImagesScanned" \in Reasons
      BY DEF Status, Reasons
    <2>2. CountedStatus(s, k) = MarkComplete(c, "AllImagesScanned")
      BY Zenon, <1>2 DEF CountedStatus
    <2> HIDE DEF c
    <2> QED BY Zenon, <2>1, <2>2, MarkEffect
  <1> QED BY Zenon, <1>1, <1>2

\* A report that is skipped is one of no job, or of a job that is settled.
LEMMA SkipAwaited ==
    ASSUME Inv, Progress, StepFacts, Additions, TypeOK', NEW i \in Images, SkipReport(i)
    PROVE  Awaited'
  <1>1. /\ UNCHANGED <<reports, reportEvents, labelled>> /\ reportQueue' = reportQueue \ {i}
        /\ ~Counting(reportCache[i])
    BY Zenon DEF SkipReport, objectVars, historyVars
  <1>2. ASSUME NEW u \in UIDs, ~Settled(u), reports[i].uid = u, i \notin reportEvents
        PROVE  FALSE
    <2>1. reportCache[i] = u /\ u # NoUID
      BY Zenon, <1>2, ClusterAssumption DEF Progress, Labels
    <2>2. Catalogued(u) /\ Live(u)
      BY Zenon, <1>2, <2>1 DEF Inv, Causality, Settled
    <2>3. PICK n \in Names : n = NameOf[u]
      BY Zenon, ClusterAssumption
    <2>4. jobCache[n] # NoJob /\ jobCache[n].uid = u /\ jobs[n] # NoJob /\ jobs[n].uid = u
      BY Zenon, <2>2, <2>3 DEF Inv, Published, Live
    <2>5. JobFinished(jobCache[n].status)
      BY Zenon, <1>1, <2>1, <2>3, <2>4 DEF Counting, JobFinished
    <2>6. JobFinished(jobs[n].status)
      BY Zenon, <1>2, <2>4, <2>5 DEF Progress, OnItsWay, OnItsWayAt, Cached, Settled
    <2> QED BY Zenon, <1>2, <2>3, <2>6 DEF Settled, StatusOf
  <1>3. ASSUME NEW u \in UIDs, ~Settled(u)' PROVE AwaitedAt(u)'
    <2>1. CASE /\ ~Settled(u) /\ catalog'[u] = catalog[u]
               /\ \A j \in labelled[u] : reports[j].uid = u
               /\ catalog[u] # {} /\ catalog[u] \subseteq labelled[u]
                    => \E j \in Images : reports[j].uid = u /\ j \in reportEvents \cup reportQueue
      <3>1. reports[i].uid = u => i \in reportEvents
        BY Zenon, <1>2, <2>1
      <3>2. \A j \in Images : reports[j].uid = u /\ j \in reportEvents \cup reportQueue
                                => reports'[j].uid = u /\ j \in reportEvents' \cup reportQueue'
        BY Zenon, <1>1, <3>1
      <3>3. \A j \in labelled'[u] : reports'[j].uid = u
        BY Zenon, <1>1, <2>1
      <3>4. catalog'[u] # {} /\ catalog'[u] \subseteq labelled'[u]
               => \E j \in Images : reports'[j].uid = u /\ j \in reportEvents' \cup reportQueue'
        BY Zenon, <1>1, <2>1, <3>2
      <3> QED BY Zenon, <3>3, <3>4 DEF AwaitedAt
    <2> QED BY Zenon, <1>3, <2>1, AwaitedBefore
  <1> QED BY Zenon, <1>3 DEF Awaited, AwaitedAt

\* A count that does not finish the job has missed a report that changed.
LEMMA CountAwaited ==
    ASSUME Inv, Progress, StepFacts, Additions, TypeOK', NEW i \in Images, CountReports(i)
    PROVE  Awaited'
  <1>1. /\ UNCHANGED <<reports, reportEvents, labelled>> /\ reportQueue' = reportQueue \ {i}
        /\ Counting(reportCache[i]) /\ UNCHANGED catalog
    BY Zenon DEF CountReports, objectVars, historyVars
  <1>2. PICK c \in UIDs : c = reportCache[i]
    BY Zenon, <1>1 DEF Counting, Inv, TypeOK, ReportTypeOK
  <1>3. PICK n \in Names : n = NameOf[c]
    BY Zenon, <1>2, ClusterAssumption
  <1>4. PICK k \in Nat : k = Cardinality(ReportsOf(c))
    BY Zenon, ImageCount DEF ReportsOf
  <1>5. /\ jobs[n] # NoJob /\ jobs[n].rv = jobCache[n].rv
        /\ jobCache[n] # NoJob /\ jobCache[n].uid = c
        /\ WriteStatus(n, CountedStatus(jobCache[n].status, k))
    BY Zenon, <1>2, <1>3, <1>4 DEF CountReports, Counting
  <1>6. jobs[n] = jobCache[n]
    BY Zenon, <1>5 DEF Inv, CacheAgrees, Cached
  <1>7. PICK s \in Status : s = jobs[n].status
    BY Zenon, <1>5, JobTypes DEF Inv
  <1>8. CountedStatus(s, k) \in Status
    BY Zenon, CountedOnward
  <1>9. jobs'[n].status = CountedStatus(s, k)
    BY Zenon, <1>5, <1>6, <1>7, <1>8, WriteEffect DEF Inv
  <1>10. ASSUME ~Settled(c)', ~Settled(c), catalog[c] # {}, catalog[c] \subseteq labelled[c],
                \A j \in labelled[c] : reports[j].uid = c
         PROVE  \E j \in Images : reports[j].uid = c /\ j \in reportEvents
    <2>1. ~JobFinished(CountedStatus(s, k))
      BY Zenon, <1>3, <1>9, <1>10 DEF Settled, StatusOf
    <2>2. k # s.imagesCount
      BY Zenon, <2>1, CountedAll
    <2>3. c \notin disturbed /\ jobs[n].uid = c
      BY Zenon, <1>5, <1>6, <1>10 DEF Settled
    <2>4. s.imagesCount = Cardinality(catalog[c])
      BY Zenon, <1>5, <1>7, <2>3 DEF Progress, Counts, CountsAt
    <2>5. ReportsOf(c) \subseteq catalog[c] /\ catalog[c] \subseteq Images
      <3>1. \A j \in Images : reportCache[j] = c => j \in labelled[c]
        BY Zenon, ClusterAssumption DEF Progress, Labels
      <3>2. labelled[c] \subseteq catalog[c]
        BY Zenon, <2>3 DEF Progress, Catalogues
      <3>3. catalog[c] \subseteq Images
        BY Zenon DEF Inv, TypeOK, ClusterTypeOK
      <3> QED BY Zenon, <3>1, <3>2, <3>3 DEF ReportsOf
    <2>6. ReportsOf(c) # catalog[c]
      BY Zenon, <1>4, <2>2, <2>4
    <2>7. PICK j \in catalog[c] : j \notin ReportsOf(c)
      BY Zenon, <2>5, <2>6
    <2>8. j \in Images /\ reports[j].uid = c /\ reportCache[j] # c
      BY Zenon, <1>10, <2>5, <2>7 DEF ReportsOf
    <2> QED BY Zenon, <2>8 DEF Progress, Labels
  <1>11. ASSUME NEW u \in UIDs, ~Settled(u)' PROVE AwaitedAt(u)'
    <2>1. CASE u = c
      BY Zenon, <1>1, <1>10, <1>11, <2>1, AwaitedBefore DEF AwaitedAt
    <2>2. CASE u # c
      <3>1. reports[i].uid = u => i \in reportEvents
        BY Zenon, <1>2, <2>2 DEF Progress, Labels
      <3>2. CASE /\ catalog'[u] = catalog[u]
                 /\ \A j \in labelled[u] : reports[j].uid = u
                 /\ catalog[u] # {} /\ catalog[u] \subseteq labelled[u]
                      => \E j \in Images : reports[j].uid = u /\ j \in reportEvents \cup reportQueue
        <4>1. \A j \in Images : reports[j].uid = u /\ j \in reportEvents \cup reportQueue
                                  => reports'[j].uid = u /\ j \in reportEvents' \cup reportQueue'
          BY Zenon, <1>1, <3>1
        <4>2. \A j \in labelled'[u] : reports'[j].uid = u
          BY Zenon, <1>1, <3>2
        <4>3. catalog'[u] # {} /\ catalog'[u] \subseteq labelled'[u]
                 => \E j \in Images : reports'[j].uid = u /\ j \in reportEvents' \cup reportQueue'
          BY Zenon, <1>1, <3>2, <4>1
        <4> QED BY Zenon, <4>2, <4>3 DEF AwaitedAt
      <3> QED BY Zenon, <1>11, <3>2, AwaitedBefore
    <2> QED BY Zenon, <2>1, <2>2
  <1> QED BY Zenon, <1>11 DEF Awaited, AwaitedAt

\* A job that a step takes a report from is settled after it.
LEMMA Deprived ==
    ASSUME NEW S, Disturb(S), NEW u \in UIDs, u \in S, ~Settled(u)
    PROVE  u \in disturbed'
  BY Zenon DEF Disturb, Settled

\* The garbage collector removes a report.
LEMMA CollectLabels ==
    ASSUME Inv, Progress, StepFacts, Additions, TypeOK', NEW i \in Images, CollectReport(i),
           UNCHANGED reportVars
    PROVE  Labels' /\ Awaited'
  <1>1. /\ reports \in [Images -> Report] /\ reports' = [reports EXCEPT ![i] = NoReport]
        /\ reportEvents' = reportEvents \cup {i} /\ Disturb({reports[i].uid})
        /\ UNCHANGED <<labelled, reportCache, reportQueue>>
    BY Zenon DEF CollectReport, reportVars, Inv, TypeOK, ClusterTypeOK
  <1>2. reports'[i] = NoReport /\ \A j \in Images : j # i => reports'[j] = reports[j]
    BY Zenon, <1>1
  <1>3. reports'[i].uid = NoUID
    BY <1>2 DEF NoReport
  <1>4. Labels'
    BY Zenon, <1>1, <1>2, <1>3 DEF Progress, Labels
  <1>5. ASSUME NEW u \in UIDs, ~Settled(u)' PROVE AwaitedAt(u)'
    <2>1. CASE /\ ~Settled(u) /\ u \notin disturbed' /\ catalog'[u] = catalog[u]
               /\ \A j \in labelled[u] : reports[j].uid = u
               /\ catalog[u] # {} /\ catalog[u] \subseteq labelled[u]
                    => \E j \in Images : reports[j].uid = u /\ j \in reportEvents \cup reportQueue
      <3>1. reports[i].uid # u
        BY Zenon, <1>1, <2>1, Deprived
      <3>2. \A j \in Images : reports[j].uid = u => reports'[j].uid = u
        BY Zenon, <1>2, <3>1
      <3>3. labelled'[u] = labelled[u] /\ labelled[u] \subseteq Images
        BY Zenon, <1>1 DEF Inv, TypeOK, ClusterTypeOK
      <3>4. \A j \in labelled'[u] : reports'[j].uid = u
        BY Zenon, <2>1, <3>2, <3>3
      <3>5. catalog'[u] # {} /\ catalog'[u] \subseteq labelled'[u]
               => \E j \in Images : reports'[j].uid = u /\ j \in reportEvents' \cup reportQueue'
        BY Zenon, <1>1, <2>1, <3>2, <3>3
      <3> QED BY Zenon, <3>4, <3>5 DEF AwaitedAt
    <2> QED BY Zenon, <1>5, <2>1, AwaitedBefore
  <1>6. Awaited'
    BY Zenon, <1>5 DEF Awaited, AwaitedAt
  <1> QED BY Zenon, <1>4, <1>6

\* A handler writes a report.
LEMMA ScanLabels ==
    ASSUME Inv, Progress, StepFacts, Additions, TypeOK', NEW w \in Workers, NEW b \in BOOLEAN,
           ScanReport(w, b), UNCHANGED reportVars
    PROVE  Labels' /\ Awaited'
  <1>1. /\ TypeOK /\ reports \in [Images -> Report]
        /\ task[w] # NoTask /\ M(w).kind = "scanSBOM"
    BY Zenon DEF Inv, TypeOK, ClusterTypeOK, ScanReport, Handling, At
  <1>2. PICK c \in UIDs : c = UID(w)
    BY Zenon, <1>1, WorkerCause
  <1>3. PICK i \in Images : i = M(w).img
    <2>1. M(w).kind # "createCatalog"
      BY <1>1
    <2> QED BY Zenon, <1>1, <2>1, MessageFacts
  <1>4. PICK o : o = reports[i].uid
    BY Zenon
  <1>5. /\ reportEvents' = IF o # c \/ b THEN reportEvents \cup {i} ELSE reportEvents
        /\ labelled' = [labelled EXCEPT ![c] = @ \cup {i}]
        /\ Disturb({o} \ {c}) /\ UNCHANGED <<reportCache, reportQueue>>
    BY Zenon, <1>2, <1>3, <1>4 DEF ScanReport, reportVars
  <1>6. reports'[i].uid = c /\ \A j \in Images : j # i => reports'[j] = reports[j]
    <2>1. PICK r : reports' = [reports EXCEPT ![i] = [uid |-> c, owner |-> r]]
      BY Zenon, <1>2, <1>3 DEF ScanReport
    <2> QED BY <1>1, <2>1
  <1>7. /\ labelled'[c] = labelled[c] \cup {i}
        /\ \A u \in UIDs : u # c => labelled'[u] = labelled[u]
        /\ \A u \in UIDs : labelled[u] \subseteq labelled'[u] /\ labelled[u] \subseteq Images
    BY Zenon, <1>1, <1>5 DEF TypeOK, ClusterTypeOK
  <1>8. \A j \in Images : reports[j].uid \in UIDs \cup {NoUID}
                          /\ reportCache[j] \in UIDs \cup {NoUID}
    BY Zenon, <1>1 DEF TypeOK, ReportTypeOK, Report
  <1>9. reportEvents \subseteq reportEvents' /\ (o # c => i \in reportEvents')
    BY Zenon, <1>5
  <1>10. Labels'
    <2>1. ASSUME NEW j \in Images
          PROVE  /\ reports'[j].uid # NoUID => j \in labelled'[reports'[j].uid]
                 /\ reportCache'[j] # NoUID => j \in labelled'[reportCache'[j]]
                 /\ reportCache'[j] # reports'[j].uid => j \in reportEvents'
      <3>1. /\ reports[j].uid # NoUID => j \in labelled[reports[j].uid]
            /\ reportCache[j] # NoUID => j \in labelled[reportCache[j]]
            /\ reportCache[j] # reports[j].uid => j \in reportEvents
        BY Zenon DEF Progress, Labels
      <3>2. reportCache'[j] = reportCache[j]
        BY Zenon, <1>5
      <3>3. CASE j = i
        <4>1. j \in labelled'[reports'[j].uid]
          BY Zenon, <1>6, <1>7, <3>3
        <4>2. reportCache'[j] # NoUID => j \in labelled'[reportCache'[j]]
          BY Zenon, <1>7, <1>8, <3>1, <3>2
        <4>3. reportCache'[j] # reports'[j].uid => j \in reportEvents'
          BY Zenon, <1>4, <1>6, <1>9, <3>1, <3>2, <3>3
        <4> QED BY Zenon, <4>1, <4>2, <4>3
      <3>4. CASE j # i
        <4>1. reports'[j].uid # NoUID => j \in labelled'[reports'[j].uid]
          BY Zenon, <1>6, <1>7, <1>8, <3>1, <3>4
        <4>2. reportCache'[j] # NoUID => j \in labelled'[reportCache'[j]]
          BY Zenon, <1>7, <1>8, <3>1, <3>2
        <4>3. reportCache'[j] # reports'[j].uid => j \in reportEvents'
          BY Zenon, <1>6, <1>9, <3>1, <3>2, <3>4
        <4> QED BY Zenon, <4>1, <4>2, <4>3
      <3> QED BY Zenon, <3>3, <3>4
    <2> QED BY Zenon, <2>1 DEF Labels
  <1>11. ASSUME NEW u \in UIDs, ~Settled(u)' PROVE AwaitedAt(u)'
    <2>1. CASE /\ ~Settled(u) /\ u \notin disturbed' /\ catalog'[u] = catalog[u]
               /\ \A j \in labelled[u] : reports[j].uid = u
               /\ catalog[u] # {} /\ catalog[u] \subseteq labelled[u]
                    => \E j \in Images : reports[j].uid = u /\ j \in reportEvents \cup reportQueue
      <3>1. u # c => o # u
        BY Zenon, <1>5, <2>1, Deprived
      <3>2. \A j \in Images : reports[j].uid = u => reports'[j].uid = u
        <4>1. reports[i].uid = u => reports'[i].uid = u
          BY Zenon, <1>4, <1>6, <3>1
        <4>2. ASSUME NEW j \in Images, j # i PROVE reports'[j].uid = reports[j].uid
          BY Zenon, <1>6, <4>2
        <4> QED BY <4>1, <4>2
      <3>3. \A j \in labelled'[u] : reports'[j].uid = u
        <4>1. CASE u = c
          <5>1. labelled'[u] = labelled[u] \cup {i} /\ labelled[u] \subseteq Images
            BY Zenon, <1>7, <4>1
          <5>2. reports'[i].uid = u /\ \A j \in labelled[u] : reports'[j].uid = u
            BY Zenon, <1>6, <2>1, <3>2, <4>1, <5>1
          <5> QED BY Zenon, <5>1, <5>2
        <4>2. CASE u # c
          <5>1. labelled'[u] = labelled[u] /\ labelled[u] \subseteq Images
            BY Zenon, <1>7, <4>2
          <5> QED BY Zenon, <2>1, <3>2, <5>1
        <4> QED BY Zenon, <4>1, <4>2
      <3>4. catalog'[u] # {} /\ catalog'[u] \subseteq labelled'[u]
               => \E j \in Images : reports'[j].uid = u /\ j \in reportEvents' \cup reportQueue'
        <4>1. CASE u = c /\ o # c
          BY Zenon, <1>6, <1>9, <4>1
        <4>2. CASE u = c => o = c
          <5>1. labelled'[u] = labelled[u]
            <6>1. u = c => i \in labelled[c]
              BY Zenon, <1>4, <4>2, ClusterAssumption DEF Progress, Labels
            <6> QED BY Zenon, <1>7, <6>1
          <5> QED BY Zenon, <1>5, <1>9, <2>1, <3>2, <5>1
        <4> QED BY Zenon, <4>1, <4>2
      <3> QED BY Zenon, <3>3, <3>4 DEF AwaitedAt
    <2> QED BY Zenon, <1>11, <2>1, AwaitedBefore
  <1>12. Awaited'
    BY Zenon, <1>11 DEF Awaited, AwaitedAt
  <1> QED BY Zenon, <1>10, <1>12

\* The controller restarts, or the watch of the reports delivers.
LEMMA CacheLabels ==
    ASSUME Inv, Progress, StepFacts, Additions, TypeOK',
           RestartController \/ \E i \in Images : SyncReport(i)
    PROVE  Labels' /\ Awaited'
  <1>1. UNCHANGED <<reports, labelled>> /\ reportCache \in [Images -> UIDs \cup {NoUID}]
    BY Zenon DEF RestartController, SyncReport, historyVars, Inv, TypeOK, ReportTypeOK
  <1>2. CASE RestartController
    <2>1. /\ \A i \in Images : reportCache'[i] = reports[i].uid
          /\ reportQueue' = {i \in Images : reports[i].uid # NoUID}
      BY Zenon, <1>2 DEF RestartController
    <2>2. Labels'
      BY Zenon, <1>1, <2>1 DEF Progress, Labels
    <2>3. ASSUME NEW u \in UIDs, ~Settled(u)' PROVE AwaitedAt(u)'
      <3>1. CASE /\ catalog'[u] = catalog[u] /\ \A i \in labelled[u] : reports[i].uid = u
        <4>1. labelled'[u] = labelled[u] /\ labelled[u] \subseteq Images /\ u # NoUID
          BY Zenon, <1>1, ClusterAssumption DEF Inv, TypeOK, ClusterTypeOK
        <4>2. \A i \in labelled'[u] : reports'[i].uid = u
          BY Zenon, <1>1, <3>1, <4>1
        <4>3. \A i \in labelled'[u] : i \in Images /\ i \in reportEvents' \cup reportQueue'
          BY Zenon, <2>1, <3>1, <4>1
        <4> QED BY Zenon, <4>2, <4>3 DEF AwaitedAt
      <3> QED BY Zenon, <2>3, <3>1, AwaitedBefore
    <2> QED BY Zenon, <2>2, <2>3 DEF Awaited, AwaitedAt
  <1>3. ASSUME NEW i \in Images, SyncReport(i)
        PROVE  Labels' /\ Awaited'
    <2>1. /\ reportCache'[i] = reports[i].uid
          /\ \A j \in Images : j # i => reportCache'[j] = reportCache[j]
          /\ reportEvents' = reportEvents \ {i} /\ reportQueue' = reportQueue \cup {i}
      BY Zenon, <1>1, <1>3 DEF SyncReport
    <2>2. Labels'
      BY Zenon, <1>1, <2>1 DEF Progress, Labels
    <2>3. /\ reportEvents \cup reportQueue \subseteq reportEvents' \cup reportQueue'
          /\ \A j \in Images : reports'[j].uid = reports[j].uid
      BY Zenon, <1>1, <2>1
    <2> QED BY Zenon, <1>1, <2>2, <2>3, AwaitedStays
  <1> QED BY Zenon, <1>2, <1>3

\* The reports after every step.
LEMMA ReportsStep ==
    ASSUME Inv, Progress, StepFacts, Additions, TypeOK', [Next]_vars
    PROVE  Labels' /\ Awaited'
  <1>1. ASSUME UNCHANGED <<reportCache, reportQueue, reportEvents, labelled>>,
               \A i \in Images : reports'[i].uid = reports[i].uid
        PROVE  Labels' /\ Awaited'
    <2>1. Labels'
      BY Zenon, <1>1, LabelsStay DEF Inv
    <2>2. reportEvents \cup reportQueue \subseteq reportEvents' \cup reportQueue'
      BY Zenon, <1>1
    <2>3. Awaited'
      BY Zenon, <1>1, <2>2, AwaitedStays
    <2> QED BY Zenon, <2>1, <2>3
  <1>2. ASSUME UNCHANGED <<reportCache, reportQueue, reportEvents, reports, labelled>>
        PROVE  Labels' /\ Awaited'
    BY Zenon, <1>1, <1>2
  <1>3. CASE Users
    BY Zenon, <1>2, <1>3 DEF Users, ValidateCreate, CreateScanJob, DeleteScanJob, objectVars,
       historyVars, reportVars
  <1>4. CASE Environment
    <2>1. CASE \/ \E i \in Images : ChangeTag(i) \/ CollectImage(i)
               \/ DeleteRegistry \/ \E n \in Names : CollectScanJob(n)
      BY Zenon, <1>2, <1>4, <2>1 DEF Environment, ChangeTag, DeleteRegistry, CollectScanJob,
         CollectImage, objectVars, historyVars, reportVars
    <2>2. ASSUME NEW i \in Images, CollectSBOM(i)
          PROVE  Labels' /\ Awaited'
      <3>1. /\ reports \in [Images -> Report]
            /\ \E o : reports' = [reports EXCEPT ![i].owner = o]
        BY Zenon, <2>2 DEF CollectSBOM, Inv, TypeOK, ClusterTypeOK
      <3>2. \A j \in Images : reports'[j].uid = reports[j].uid
        BY <3>1 DEF Report
      <3>3. UNCHANGED <<reportCache, reportQueue, reportEvents, labelled>>
        BY Zenon, <1>4, <2>2 DEF Environment, CollectSBOM, historyVars, reportVars
      <3> QED BY Zenon, <1>1, <3>2, <3>3
    <2>3. ASSUME NEW i \in Images, CollectReport(i)
          PROVE  Labels' /\ Awaited'
      BY Zenon, <1>4, <2>3, CollectLabels DEF Environment
    <2> QED BY Zenon, <1>4, <2>1, <2>2, <2>3 DEF Environment
  <1>5. CASE RestartController
    BY Zenon, <1>5, CacheLabels
  <1>6. ASSUME NEW n \in Names, WatchScanJob(n) \/ JobController(n)
        PROVE  Labels' /\ Awaited'
    BY Zenon, <1>2, <1>6 DEF WatchScanJob, JobController, SyncScanJob, Reconcile, SkipScanJob,
       RejectScanJob, SnapshotRegistry, ScheduleScanJob, FailReconcile, UpdateScanJobStatus,
       RetryScanJob, objectVars, historyVars, reportVars
  <1>7. ASSUME NEW i \in Images, WatchReport(i) \/ CompletionController(i)
        PROVE  Labels' /\ Awaited'
    <2>1. CASE SyncReport(i)
      BY Zenon, <2>1, CacheLabels
    <2>2. CASE ReconcileReport(i)
      <3>1. /\ UNCHANGED <<reportCache, reportEvents, reports>>
        BY Zenon, <2>2 DEF ReconcileReport, SkipReport, CountReports, objectVars
      <3>2. Labels'
        BY Zenon, <3>1, LabelsStay DEF Inv
      <3> QED BY Zenon, <2>2, <3>2, SkipAwaited, CountAwaited DEF ReconcileReport
    <2> QED BY Zenon, <1>7, <2>1, <2>2 DEF WatchReport, CompletionController
  <1>8. ASSUME NEW w \in Workers, Consume(w) \/ Failures(w)
        PROVE  Labels' /\ Awaited'
    <2>1. UNCHANGED reportVars
      BY Zenon, <1>8 DEF Consume, Failures
    <2>2. ASSUME NEW b \in BOOLEAN, ScanReport(w, b)
          PROVE  Labels' /\ Awaited'
      BY Zenon, <2>1, <2>2, ScanLabels
    <2>3. ASSUME \/ \E e \in Entries : Receive(w, e)
                 \/ Acknowledge(w) \/ Crash(w) \/ HandlerError(w) \/ RetryLater(w)
                 \/ GiveUp(w) \/ GiveUpSilently(w)
          PROVE  UNCHANGED <<reports, reportEvents, labelled>>
      BY Zenon, <2>3 DEF Receive, Acknowledge, Crash, RetryLater, HandlerError, GiveUp,
         GiveUpSilently, objectVars, historyVars
    <2>4. ASSUME \/ CatalogStart(w) \/ CatalogDiscover(w) \/ CatalogList(w)
                 \/ CatalogObsolete(w) \/ CatalogUpdate(w)
                 \/ \E i \in Images : \/ CatalogCreateImage(w, i) \/ CatalogDeleteImage(w, i)
                                      \/ CatalogPublish(w, i)
          PROVE  UNCHANGED <<reports, reportEvents, labelled>>
      BY Zenon, <2>4 DEF CatalogStart, CatalogDiscover, CatalogList, CatalogObsolete,
         CatalogUpdate, CatalogCreateImage, CatalogDeleteImage, CatalogPublish, objectVars,
         historyVars
    <2>5. ASSUME GenerateStart(w) \/ GenerateCreate(w) \/ GeneratePublish(w) \/ ScanStart(w)
          PROVE  UNCHANGED <<reports, reportEvents, labelled>>
      BY Zenon, <2>5 DEF GenerateStart, GenerateCreate, GeneratePublish, ScanStart,
         objectVars, historyVars
    <2>6. CASE UNCHANGED <<reports, reportEvents, labelled>>
      BY Zenon, <1>2, <2>1, <2>6 DEF reportVars
    <2> QED BY Zenon, <1>8, <2>2, <2>3, <2>4, <2>5, <2>6 DEF Consume, Failures, Handle
  <1>9. ASSUME NEW e \in Entries, Redelivery(e)
        PROVE  Labels' /\ Awaited'
    BY Zenon, <1>2, <1>9 DEF Redelivery, AckWaitElapsed, objectVars, historyVars, reportVars
  <1>10. CASE UNCHANGED vars
    BY Zenon, <1>2, <1>10 DEF vars
  <1> QED BY Zenon, <1>3, <1>4, <1>5, <1>6, <1>7, <1>8, <1>9, <1>10 DEF Next

\* UIDs are never taken back.
LEMMA CreatedGrows ==
    ASSUME [Next]_vars
    PROVE  created \subseteq created'
  <1>1. CASE Users
    BY Zenon, <1>1 DEF Users, ValidateCreate, CreateScanJob, DeleteScanJob, admissionVars
  <1>2. CASE \E n \in Names : WatchScanJob(n) \/ JobController(n)
    BY Zenon, <1>2 DEF WatchScanJob, JobController, SyncScanJob, Reconcile, SkipScanJob,
       RejectScanJob, SnapshotRegistry, ScheduleScanJob, FailReconcile, UpdateScanJobStatus,
       RetryScanJob, admissionVars
  <1> QED BY Zenon, <1>1, <1>2 DEF Next, Environment, RestartController, WatchReport,
          CompletionController, Consume, Failures, Redelivery, admissionVars, vars

\* Progress is inductive relative to Inv.
LEMMA ProgressStep == Inv /\ Progress /\ [Next]_vars => Progress'
  <1> SUFFICES ASSUME Inv, Progress, [Next]_vars
               PROVE  Progress'
    BY Zenon
  <1>1. StepFacts /\ Additions /\ TypeOK' /\ created \subseteq created'
    BY Zenon, NextFacts, AdditionsStep, TypeStep, CreatedGrows DEF Inv
  <1>2. \A w \in Workers : WorkerOK(w)'
    BY Zenon, <1>1, HandlersStep
  <1>3. Sent' /\ Pursued'
    BY Zenon, <1>1, SentStep, PursuedStep DEF Inv, StepFacts
  <1>4. Catalogues' /\ Handlers'
    BY Zenon, <1>1, <1>2, CataloguesStep DEF WorkerOK, Handlers
  <1>5. Labels' /\ Awaited'
    BY Zenon, <1>1, ReportsStep
  <1> QED BY Zenon, <1>1, <1>3, <1>4, <1>5 DEF Progress, StepFacts, JobFacts

\* Nothing is published, labelled or reported at the start.
LEMMA ProgressInit == Init => Progress
  <1> SUFFICES ASSUME Init
               PROVE  Progress
    BY Zenon
  <1>1. /\ \A n \in Names : jobs[n] = NoJob
        /\ \A m \in ScanMessages : published[m] = 0
        /\ \A e \in Entries : ~InStream(e)
        /\ \A w \in Workers : task[w] = NoTask
        /\ \A u \in UIDs : catalog[u] = {} /\ labelled[u] = {}
    BY Zenon DEF Init, ClusterInit, QueueInit, InStream
  <1>2. \A i \in Images : reports[i].uid = NoUID /\ reportCache[i] = NoUID
    BY DEF Init, ClusterInit, ReportInit, NoReport
  <1>3. \A u \in UIDs : Settled(u) /\ ~Live(u)
    BY Zenon, <1>1, ClusterAssumption DEF Settled, Live
  <1>4. \A u \in UIDs : /\ ~Catalogued(u)
                        /\ \A i \in Images : ~Generated(u, i) /\ ~Scanned(u, i)
    <2>1. \A m \in ScanMessages : ~(published[m] > 0)
      BY <1>1
    <2> QED BY Zenon, <2>1, CatalogMessage, ImageMessages DEF Catalogued, Generated, Scanned
  <1>5. Sent /\ Catalogues /\ Labels
    BY Zenon, <1>1, <1>2, <1>4 DEF Sent, Catalogues, Labels, Handling, At
  <1>6. Counts /\ OnItsWay /\ NoPrematureCompletion
    BY Zenon, <1>1, <1>3 DEF Counts, CountsAt, OnItsWay, OnItsWayAt, NoPrematureCompletion, Regular
  <1>7. Pursued /\ Handlers /\ Awaited
    BY Zenon, <1>1, <1>3 DEF Pursued, Handlers, HandlerAt, Handling, At, Awaited
  <1> QED BY Zenon, <1>5, <1>6, <1>7 DEF Progress

\* A copy of a message in the stream is work left for its job.
LEMMA StoredIsWork ==
    ASSUME NEW m \in ScanMessages, NEW u, m.uid = u, Stored(m)
    PROVE  \E e \in Entries : InStream(e) /\ e[1].uid = u
  <1>1. PICK c \in 1..MaxCopies : InStream(<<m, c>>)
    BY Zenon DEF Stored
  <1>2. PICK e \in Entries : e = <<m, c>>
    BY Zenon DEF Entries
  <1>3. e[1] = m
    BY <1>2
  <1> QED BY Zenon, <1>1, <1>2, <1>3

\* Progress says more than that no job is left behind.
LEMMA WorkIsLeft == Inv /\ Progress => NoJobLeftBehind
  <1> SUFFICES ASSUME Inv, Progress, NEW u \in UIDs, Regular(u), ~JobFinished(StatusOf(u))
               PROVE  WorkLeft(u)
    BY Zenon DEF NoJobLeftBehind
  <1>1. PICK n \in Names : n = NameOf[u]
    BY Zenon, ClusterAssumption
  <1>2. jobs[n] # NoJob /\ jobs[n].uid = u /\ u \notin disturbed /\ ~Settled(u)
    BY Zenon, <1>1 DEF Regular, Live, Settled
  <1>3. CASE IsPending(StatusOf(u))
    BY Zenon, <1>1, <1>2, <1>3 DEF Progress, OnItsWay, OnItsWayAt, WorkLeft, StatusOf
  <1>4. CASE ~IsPending(StatusOf(u))
    <2> SUFFICES ASSUME ~\E e \in Entries : InStream(e) /\ e[1].uid = u
                 PROVE  \E i \in Images : reports[i].uid = u /\ i \in reportEvents \cup reportQueue
      BY Zenon, <1>4 DEF WorkLeft
    <2>1. Catalogued(u)
      BY Zenon, <1>1, <1>2, <1>4 DEF Progress, OnItsWay, OnItsWayAt, StatusOf
    <2>2. /\ ~Stored(Message("createCatalog", u, NoImage))
          /\ \A i \in Images : /\ ~Stored(Message("generateSBOM", u, i))
                               /\ ~Stored(Message("scanSBOM", u, i))
      <3>1. ASSUME NEW m \in ScanMessages, m.uid = u PROVE ~Stored(m)
        BY Zenon, <3>1, StoredIsWork
      <3>2. ~Stored(Message("createCatalog", u, NoImage))
        BY Zenon, <3>1, CatalogMessage
      <3>3. ASSUME NEW i \in Images
            PROVE  /\ ~Stored(Message("generateSBOM", u, i))
                   /\ ~Stored(Message("scanSBOM", u, i))
        BY Zenon, <3>1, ImageMessages
      <3> QED BY Zenon, <3>2, <3>3
    <2>3. HandedOver(u) /\ catalog[u] \subseteq Images
      BY Zenon, <1>2, <2>1, <2>2 DEF Progress, Pursued, Inv, TypeOK, ClusterTypeOK
    <2>4. \A i \in catalog[u] : i \in labelled[u]
      BY Zenon, <1>2, <2>2, <2>3 DEF Progress, Pursued, HandedOver
    <2> QED BY Zenon, <1>2, <2>3, <2>4 DEF Progress, Awaited, HandedOver
  <1> QED BY Zenon, <1>3, <1>4

\* In every behaviour a published message is in the stream until its handler is
\* done with it, handlers, labels and counts agree with the catalogue of the
\* job, and the last report of a job is still to be counted while the job is
\* not finished.
THEOREM ProgressInvariant == Spec => []Progress
  <1>1. Inv /\ Progress /\ [Next]_vars => Progress'
    BY Zenon, ProgressStep
  <1> QED BY <1>1, ProgressInit, Invariance, PTL DEF Spec

\* A regular job is reported as completely scanned only when every image of its
\* catalogue has a report and the counters say so: for any number of jobs,
\* images, workers, copies of a message and faults.
THEOREM NeverPremature == Spec => []NoPrematureCompletion
  <1>1. Progress => NoPrematureCompletion
    BY Zenon DEF Progress
  <1> QED BY <1>1, ProgressInvariant, PTL

\* A regular job that is not finished has work left: it is to be reconciled, has
\* a message in the stream or a report to be counted, whatever was redelivered,
\* deduplicated, lost or read from a stale cache.
THEOREM NeverLeftBehind == Spec => []NoJobLeftBehind
  BY WorkIsLeft, ProgressInvariant, Invariance, PTL
=============================================================================
