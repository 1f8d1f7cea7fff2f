----------------------------- MODULE ScanWorker -----------------------------
(***************************************************************************)
(* A worker: NatsSubscriber (internal/messaging/subscriber.go) and the     *)
(* three handlers of a registry scan (internal/handlers): CreateCatalog,   *)
(* GenerateSBOM and ScanSBOM, with ScanJobFailureHandler.                  *)
(*                                                                         *)
(* Workers read the API server directly.  A handler is one step per call   *)
(* that another process can observe or interfere with; a Get-modify-Update *)
(* under RetryOnConflict is one step, since the update that succeeds       *)
(* writes the version that was read.  Between any two steps the handler    *)
(* may fail (HandlerError) or the process may stop (Crash).                *)
(***************************************************************************)
EXTENDS Cluster

VARIABLE local   \* local[w]: where the handler of w is, and its variables

\* Where a handler is: the call it makes next.
PCs == {"idle", "start", "discover", "list", "create", "delete", "status",
        "sbom", "publish", "report", "fail", "ack"}

\* whole: the job has no targets; found: discoveredImages; existing:
\* existingImageNames; todo: what is left of the loop the handler is in.
Local == [pc : PCs, whole : BOOLEAN, found : SUBSET Images,
          existing : SUBSET Images, todo : SUBSET Images]

Idle == [pc |-> "idle", whole |-> FALSE, found |-> {}, existing |-> {},
         todo |-> {}]

WorkerTypeOK == local \in [Workers -> Local]

WorkerInit == local = [w \in Workers |-> Idle]

M(w) == task[w].entry[1]
UID(w) == M(w).uid
Name(w) == NameOf[UID(w)]

At(w, pc) == task[w] # NoTask /\ local[w].pc = pc

Handling(w, kind, pc) == At(w, pc) /\ M(w).kind = kind

Goto(w, pc) == local' = [local EXCEPT ![w].pc = pc]

\* Leave the loop when its last element has been dealt with.
Loop(w, i, next) ==
    local' = [local EXCEPT ![w].todo = @ \ {i},
                           ![w].pc = IF local[w].todo = {i} THEN next ELSE @]

\* Enter a loop over the given images, or skip it.
Enter(w, pc, is, next) ==
    local' = [local EXCEPT ![w].todo = is,
                           ![w].pc = IF is = {} THEN next ELSE pc]

\* A call that has had its effect: the handler goes on, or the answer is lost
\* and the handler sees an error.
Answer(w, goOn) ==
    \/ goOn /\ UNCHANGED faults
    \/ Fault /\ Goto(w, "fail")

-----------------------------------------------------------------------------
(* NatsSubscriber.Run.                                                     *)

Receive(w, e) ==
    /\ Deliver(w, e)
    /\ local' = [local EXCEPT ![w] = [Idle EXCEPT !.pc = "start"]]
    /\ UNCHANGED <<jobVars, objectVars, userVars, counted, historyVars, faults>>

\* The handler returned nil, or the failure handler has run.
Acknowledge(w) ==
    /\ At(w, "ack")
    /\ Ack(w)
    /\ local' = [local EXCEPT ![w] = Idle]
    /\ UNCHANGED <<jobVars, objectVars, userVars, counted, historyVars, faults>>

\* The process stops, or the acknowledgement does not reach the server.
Crash(w) ==
    /\ task[w] # NoTask
    /\ Fault
    /\ Abandon(w)
    /\ local' = [local EXCEPT ![w] = Idle]
    /\ UNCHANGED <<jobVars, objectVars, userVars, counted, historyVars>>

\* AckWait elapses.  While a worker still handles the message this is one of
\* the faults: the handler took longer than AckWait between two InProgress
\* calls.  Once nobody handles it, redelivery is only a matter of time.
AckWaitElapsed(e) ==
    /\ Redeliver(e)
    /\ IF \E w \in Workers : HeldBy(w, e) THEN Fault ELSE UNCHANGED faults
    /\ UNCHANGED <<jobVars, objectVars, userVars, counted, historyVars, local>>

\* A call of the handler returns an error; nothing else has happened.
HandlerError(w) ==
    /\ task[w] # NoTask
    /\ local[w].pc \notin {"fail", "ack"}
    /\ Fault
    /\ Goto(w, "fail")
    /\ UNCHANGED <<jobVars, objectVars, userVars, queueVars, task, counted,
                   historyVars>>

\* Mutant: a message that failed is acknowledged.
RetryLaterDrops(w) ==
    /\ At(w, "fail")
    /\ task[w].n < MaxDeliver
    /\ Ack(w)
    /\ local' = [local EXCEPT ![w] = Idle]
    /\ UNCHANGED <<jobVars, objectVars, userVars, counted, historyVars, faults>>

\* handleFailure with deliveries left.
RetryLater(w) ==
    /\ At(w, "fail")
    /\ task[w].n < MaxDeliver
    /\ Nak(w)
    /\ local' = [local EXCEPT ![w] = Idle]
    /\ UNCHANGED <<jobVars, objectVars, userVars, counted, historyVars, faults>>

\* handleFailure at the delivery limit: ScanJobFailureHandler.HandleFailure
\* fails the job that has the name now.
GiveUp(w) ==
    /\ At(w, "fail")
    /\ task[w].n >= MaxDeliver
    /\ LET n == Name(w)
       IN  IF jobs[n] = NoJob
           THEN UNCHANGED <<jobVars, counted, disturbed>>
           ELSE LET s == MarkFailed(jobs[n].status, "InternalError")
                IN  /\ WriteStatus(n, s)
                    /\ IF JobFinished(jobs[n].status)
                       THEN UNCHANGED counted
                       ELSE RecordScanJobFinished(jobs[n].uid, s)
                    /\ disturbed' = disturbed \cup ({jobs[n].uid} \ {UID(w)})
    /\ Goto(w, "ack")
    /\ UNCHANGED <<objectVars, userVars, queueVars, task, catalog, labelled,
                   faults>>

\* The failure handler itself fails: logged, and acknowledged all the same.
GiveUpSilently(w) ==
    /\ At(w, "fail")
    /\ task[w].n >= MaxDeliver
    /\ Fault
    /\ Disturb({UID(w)})
    /\ Goto(w, "ack")
    /\ UNCHANGED <<jobVars, objectVars, userVars, queueVars, task, counted,
                   catalog, labelled>>

-----------------------------------------------------------------------------
(* CreateCatalogHandler.Handle.                                            *)

\* Mutant: a finished job is moved back to in progress.
CatalogStartAgain(w) ==
    /\ Handling(w, "createCatalog", "start")
    /\ IF ~Live(UID(w))
       THEN Goto(w, "ack") /\ UNCHANGED jobVars
       ELSE /\ WriteStatus(Name(w), MarkInProgress(StatusOf(UID(w)),
                                        "CatalogCreationInProgress"))
            /\ local' = [local EXCEPT
                           ![w].pc = IF jobs[Name(w)].snapshot THEN "discover"
                                                               ELSE "fail",
                           ![w].whole = jobs[Name(w)].target = "all"]
    /\ UNCHANGED <<objectVars, userVars, queueVars, task, counted, historyVars,
                   faults>>

\* First status update: skip a job that is gone, recreated or finished.  Then
\* registryFromScanJob needs the snapshot.
CatalogStart(w) ==
    /\ Handling(w, "createCatalog", "start")
    /\ IF ~Live(UID(w)) \/ JobFinished(StatusOf(UID(w)))
       THEN Goto(w, "ack") /\ UNCHANGED jobVars
       ELSE /\ WriteStatus(Name(w), MarkInProgress(StatusOf(UID(w)),
                                        "CatalogCreationInProgress"))
            /\ local' = [local EXCEPT
                           ![w].pc = IF jobs[Name(w)].snapshot THEN "discover"
                                                               ELSE "fail",
                           ![w].whole = jobs[Name(w)].target = "all"]
    /\ UNCHANGED <<objectVars, userVars, queueVars, task, counted, historyVars,
                   faults>>

\* discoverRepositories and discoverImages on the remote registry, as far as
\* the targets of the job select it.
CatalogDiscover(w) ==
    /\ Handling(w, "createCatalog", "discover")
    /\ local' = [local EXCEPT ![w].pc = "list",
                     ![w].found = IF local[w].whole THEN tags
                                                    ELSE tags \cap Targeted]
    /\ UNCHANGED <<jobVars, objectVars, userVars, queueVars, task, counted,
                   historyVars, faults>>

\* The existing Image objects are listed after the discovery.
CatalogList(w) ==
    /\ Handling(w, "createCatalog", "list")
    /\ local' = [local EXCEPT ![w].pc = "create", ![w].existing = images,
                              ![w].todo = local[w].found]
    /\ UNCHANGED <<jobVars, objectVars, userVars, queueVars, task, counted,
                   historyVars, faults>>

\* One discovered image: stop if the job is gone, create what is missing.
CatalogCreateImage(w, i) ==
    /\ Handling(w, "createCatalog", "create")
    /\ i \in local[w].todo
    /\ IF ~Live(UID(w))
       THEN Goto(w, "ack") /\ UNCHANGED images
       ELSE /\ images' = IF i \in local[w].existing THEN images
                                                    ELSE images \cup {i}
            /\ Loop(w, i, "create")
    /\ UNCHANGED <<jobVars, sboms, reports, reportEvents, userVars, queueVars,
                   task, counted, historyVars, faults>>

\* A job without targets goes on to delete what it did not discover.
CatalogObsolete(w) ==
    /\ Handling(w, "createCatalog", "create")
    /\ local[w].todo = {}
    /\ Enter(w, "delete", IF local[w].whole
                          THEN local[w].existing \ local[w].found ELSE {},
             "status")
    /\ UNCHANGED <<jobVars, objectVars, userVars, queueVars, task, counted,
                   historyVars, faults>>

\* deleteObsoleteImages: an image that is already gone is an error.
CatalogDeleteImage(w, i) ==
    /\ Handling(w, "createCatalog", "delete")
    /\ i \in local[w].todo
    /\ IF i \notin images
       THEN Goto(w, "fail") /\ UNCHANGED <<images, sboms>>
       ELSE /\ images' = images \ {i}
            /\ sboms' = [sboms EXCEPT ![i] = IF @ = "none" THEN @ ELSE "orphan"]
            /\ Loop(w, i, "status")
    /\ UNCHANGED <<jobVars, reports, reportEvents, userVars, queueVars, task,
                   counted, historyVars, faults>>

\* What the second status update writes over status s.
CatalogStatus(s, found) ==
    IF found = {}
    THEN MarkComplete(s, "NoImagesToScan")
    ELSE [MarkInProgress(s, "SBOMGenerationInProgress")
             EXCEPT !.imagesCount = Cardinality(found),
                    !.scannedImagesCount = 0]

\* Second status update.  It has no finished check: a job that was finished,
\* or catalogued differently, since the first one may never finish again.
CatalogUpdate(w) ==
    LET u == UID(w)
        found == local[w].found
    IN  /\ Handling(w, "createCatalog", "status")
        /\ IF ~Live(u)
           THEN Goto(w, "ack") /\ UNCHANGED <<jobVars, counted, historyVars>>
           ELSE LET s == CatalogStatus(StatusOf(u), found)
                    was == JobFinished(StatusOf(u))
                IN  /\ WriteStatus(Name(w), s)
                    /\ IF was THEN UNCHANGED counted
                              ELSE RecordScanJobFinished(u, s)
                    /\ catalog' = [catalog EXCEPT ![u] = found]
                    /\ disturbed' = IF \/ was
                                     \/ catalog[u] \notin {{}, found}
                                  THEN disturbed \cup {u} ELSE disturbed
                    /\ Enter(w, "publish", found, "ack")
                    /\ UNCHANGED labelled
        /\ UNCHANGED <<objectVars, userVars, queueVars, task, faults>>

CatalogPublish(w, i) ==
    /\ Handling(w, "createCatalog", "publish")
    /\ i \in local[w].todo
    /\ Publish(Message("generateSBOM", UID(w), i))
    /\ Answer(w, Loop(w, i, "ack"))
    /\ UNCHANGED <<jobVars, objectVars, userVars, task, counted, historyVars>>

-----------------------------------------------------------------------------
(* GenerateSBOMHandler.Handle.                                             *)

\* Stop if the job is gone, recreated or failed, or the image is gone.
GenerateStart(w) ==
    LET u == UID(w)
    IN  /\ Handling(w, "generateSBOM", "start")
        /\ IF Live(u) /\ ~IsFailed(StatusOf(u)) /\ M(w).img \in images
           THEN /\ Goto(w, IF jobs[Name(w)].snapshot THEN "sbom" ELSE "fail")
                /\ UNCHANGED disturbed
           ELSE Goto(w, "ack") /\ Disturb({u})
        /\ UNCHANGED <<jobVars, objectVars, userVars, queueVars, task, counted,
                       catalog, labelled, faults>>

\* getOrGenerateSBOM and Create; an SBOM that exists is kept.
GenerateCreate(w) ==
    LET i == M(w).img
    IN  /\ Handling(w, "generateSBOM", "sbom")
        /\ sboms' = [sboms EXCEPT ![i] =
                        IF @ # "none" THEN @
                        ELSE IF i \in images THEN "owned" ELSE "orphan"]
        /\ Goto(w, "publish")
        /\ UNCHANGED <<jobVars, images, reports, reportEvents, userVars,
                       queueVars, task, counted, historyVars, faults>>

GeneratePublish(w) ==
    /\ Handling(w, "generateSBOM", "publish")
    /\ Publish(Message("scanSBOM", UID(w), M(w).img))
    /\ Answer(w, Goto(w, "ack"))
    /\ UNCHANGED <<jobVars, objectVars, userVars, task, counted, historyVars>>

-----------------------------------------------------------------------------
(* ScanSBOMHandler.Handle.                                                 *)

\* Stop if the job is gone, recreated or failed, or the SBOM is gone.
ScanStart(w) ==
    LET u == UID(w)
        runs == Live(u) /\ ~IsFailed(StatusOf(u))
    IN  /\ Handling(w, "scanSBOM", "start")
        /\ IF runs /\ ~jobs[Name(w)].snapshot
           THEN Goto(w, "fail") /\ UNCHANGED disturbed
           ELSE IF runs /\ sboms[M(w).img] # "none"
           THEN Goto(w, "report") /\ UNCHANGED disturbed
           ELSE Goto(w, "ack") /\ Disturb({u})
        /\ UNCHANGED <<jobVars, objectVars, userVars, queueVars, task, counted,
                       catalog, labelled, faults>>

\* CreateOrUpdate of the report: the labels are replaced, an existing owner is
\* kept.  A report that would not change is not written, and causes no event;
\* newResults: trivy reports something else than last time.
ScanReport(w, newResults) ==
    LET u == UID(w)
        i == M(w).img
        old == reports[i]
    IN  /\ Handling(w, "scanSBOM", "report")
        /\ reports' = [reports EXCEPT ![i] =
              [uid |-> u,
               owner |-> IF old.owner # "none" THEN old.owner
                         ELSE IF sboms[i] = "none" THEN "orphan" ELSE "owned"]]
        /\ reportEvents' = IF old.uid # u \/ newResults
                           THEN reportEvents \cup {i} ELSE reportEvents
        /\ labelled' = [labelled EXCEPT ![u] = @ \cup {i}]
        /\ Disturb({old.uid} \ {u})
        /\ Answer(w, Goto(w, "ack"))
        /\ UNCHANGED <<jobVars, images, sboms, userVars, queueVars, task,
                       counted, catalog>>

-----------------------------------------------------------------------------

Handle(w) ==
    \/ CatalogStart(w)
    \/ CatalogDiscover(w)
    \/ CatalogList(w)
    \/ \E i \in Images : CatalogCreateImage(w, i)
    \/ CatalogObsolete(w)
    \/ \E i \in Images : CatalogDeleteImage(w, i)
    \/ CatalogUpdate(w)
    \/ \E i \in Images : CatalogPublish(w, i)
    \/ GenerateStart(w)
    \/ GenerateCreate(w)
    \/ GeneratePublish(w)
    \/ ScanStart(w)
    \/ \E newResults \in BOOLEAN : ScanReport(w, newResults)
=============================================================================
