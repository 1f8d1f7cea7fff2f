----------------------------- MODULE NodeWorker -----------------------------
(***************************************************************************)
(* The worker of a node: NatsSubscriber with GenerateNodeSBOMHandler,      *)
(* NodeScanSBOMHandler and NodeScanJobFailureHandler (internal/handlers).  *)
(* It reads the API server directly and handles one message at a time.  A  *)
(* Get-modify-Update under RetryOnConflict is one step.                    *)
(***************************************************************************)
EXTENDS NodeCluster

VARIABLE local   \* local[k]: where the handler on k is, and its variables

\* uid and owner: of the NodeScanJob the handler has read.
Local == [pc : {"idle", "start", "mark", "sbom", "publish", "complete",
                "fail", "ack"},
          uid : UIDs \cup {0}, owner : 0..MaxConfigs]

Idle == [pc |-> "idle", uid |-> 0, owner |-> 0]

NodeWorkerTypeOK == local \in [Nodes -> Local]

NodeWorkerInit == local = [k \in Nodes |-> Idle]

M(k) == task[k].entry[1]

\* The job that has the name the message refers to.
Job(k) == jobs[NameOf[M(k).uid]]

At(k, pc) == task[k] # NoTask /\ local[k].pc = pc

Handling(k, kind, pc) == At(k, pc) /\ M(k).kind = kind

Goto(k, pc) == local' = [local EXCEPT ![k].pc = pc]

\* A call that has had its effect: the handler goes on, or the answer is lost
\* and the handler sees an error.
Answer(k, pc) ==
    \/ Goto(k, pc) /\ UNCHANGED faults
    \/ Goto(k, "fail") /\ Fault

\* The handler stops without an error, and nothing may ever finish job j.
\* This is the first of the disturbances; the other ones are a write to the
\* job by a message of an earlier job of its name or after it has finished,
\* and a failure handler that fails.
Drop(k, j) ==
    /\ Goto(k, "ack")
    /\ disturbed' = disturbed \cup {j.uid}
    /\ UNCHANGED <<jobs, faults>>

Stop(k) == Goto(k, "ack") /\ UNCHANGED <<jobs, disturbed, faults>>

\* MarkInProgress by name, whichever job has the name and whatever its status.
WriteInProgress(k) ==
    /\ WriteStatus(NameOf[M(k).uid], MarkInProgress)
    /\ disturbed' = IF Job(k).uid # M(k).uid \/ JobFinished(Job(k).status)
                    THEN disturbed \cup {Job(k).uid} ELSE disturbed

-----------------------------------------------------------------------------
(* GenerateNodeSBOMHandler.                                                *)

GenerateStart(k) ==
    /\ Handling(k, "generate", "start")
    /\ \/ Job(k) = NoJob /\ Stop(k)
       \/ /\ Job(k) # NoJob
          /\ NodeOf[M(k).uid] \notin nodes
          /\ Drop(k, Job(k))
       \/ /\ Job(k) # NoJob
          /\ NodeOf[M(k).uid] \in nodes
          /\ IF IsFailed(Job(k).status) THEN Stop(k)
             ELSE Goto(k, "mark") /\ UNCHANGED <<jobs, disturbed, faults>>
    /\ UNCHANGED <<sboms, queueVars, task, counted, scanned>>

\* The job is read again, and what is read is kept for later.  Then the scan
\* is aborted when the configuration is gone; its values come from the
\* snapshot, and the absence of that is an error.
GenerateMark(k) ==
    /\ Handling(k, "generate", "mark")
    /\ IF Job(k) = NoJob THEN Stop(k)
       ELSE /\ WriteInProgress(k)
            /\ local' = [local EXCEPT ![k] =
                 [pc |-> IF config = NoConfig THEN "ack"
                         ELSE IF Job(k).owner = 0 THEN "fail" ELSE "sbom",
                  uid |-> Job(k).uid, owner |-> Job(k).owner]]
            /\ UNCHANGED faults
    /\ UNCHANGED <<sboms, queueVars, task, counted, scanned>>

\* CreateOrUpdate of the NodeSBOM, owned by the configuration of the snapshot.
GenerateSBOM(k) ==
    /\ Handling(k, "generate", "sbom")
    /\ sboms' = [sboms EXCEPT ![NodeOf[M(k).uid]] = local[k].owner]
    /\ Answer(k, "publish")
    /\ UNCHANGED <<jobs, queueVars, task, historyVars>>

\* The id of the scan message is the UID of the job that was read, its payload
\* the job of the message being handled.
GeneratePublish(k) ==
    /\ Handling(k, "generate", "publish")
    /\ IF Job(k) = NoJob
       THEN Goto(k, "ack") /\ UNCHANGED <<queueVars, faults>>
       ELSE /\ PublishNode(Message("scan", local[k].uid, M(k).uid))
            /\ Answer(k, "ack")
    /\ UNCHANGED <<jobs, sboms, task, historyVars>>

-----------------------------------------------------------------------------
(* NodeScanSBOMHandler.                                                    *)

ScanStart(k) ==
    /\ Handling(k, "scan", "start")
    /\ Goto(k, IF Job(k) = NoJob THEN "ack"
               ELSE IF Job(k).uid # M(k).uid \/ JobFinished(Job(k).status)
               THEN "ack" ELSE "mark")
    /\ UNCHANGED <<jobs, sboms, queueVars, task, historyVars, faults>>

ScanMark(k) ==
    /\ Handling(k, "scan", "mark")
    /\ IF Job(k) = NoJob THEN Stop(k)
       ELSE WriteInProgress(k) /\ Goto(k, "sbom") /\ UNCHANGED faults
    /\ UNCHANGED <<sboms, queueVars, task, counted, scanned>>

\* Mutant: a NodeSBOM that is gone is scanned as an empty one.
ScanSBOMEmpty(k) ==
    /\ Handling(k, "scan", "sbom")
    /\ Answer(k, "complete")
    /\ scanned' = IF sboms[NodeOf[M(k).uid]] # 0 THEN scanned \cup {M(k).uid}
                                                 ELSE scanned
    /\ UNCHANGED <<jobs, disturbed, sboms, queueVars, task, counted>>

\* The NodeSBOM of the node is read and scanned, and the
\* NodeVulnerabilityReport written with the job's UID as label.
ScanSBOM(k) ==
    /\ Handling(k, "scan", "sbom")
    /\ IF sboms[NodeOf[M(k).uid]] # 0
       THEN /\ scanned' = scanned \cup {M(k).uid}
            /\ Answer(k, "complete")
            /\ UNCHANGED <<jobs, disturbed>>
       ELSE /\ IF Job(k) = NoJob THEN Stop(k) ELSE Drop(k, Job(k))
            /\ UNCHANGED scanned
    /\ UNCHANGED <<sboms, queueVars, task, counted>>

\* Mutant: a job that was finished is counted again.
FinishCounting(k, s) ==
    IF Job(k) = NoJob THEN UNCHANGED <<jobs, counted, disturbed>>
    ELSE /\ WriteStatus(NameOf[M(k).uid], s)
         /\ RecordFinished(Job(k).uid, s)
         /\ disturbed' = disturbed \cup ({Job(k).uid} \ {M(k).uid})

\* Write a final status by name; a job that was finished is not counted again.
Finish(k, s) ==
    IF Job(k) = NoJob THEN UNCHANGED <<jobs, counted, disturbed>>
    ELSE /\ WriteStatus(NameOf[M(k).uid], s)
         /\ IF JobFinished(Job(k).status) THEN UNCHANGED counted
                                          ELSE RecordFinished(Job(k).uid, s)
         /\ disturbed' = disturbed \cup ({Job(k).uid} \ {M(k).uid})

ScanComplete(k) ==
    /\ Handling(k, "scan", "complete")
    /\ Finish(k, MarkComplete)
    /\ Answer(k, "ack")
    /\ UNCHANGED <<sboms, queueVars, task, scanned>>

Handle(k) ==
    \/ GenerateStart(k) \/ GenerateMark(k)
    \/ GenerateSBOM(k) \/ GeneratePublish(k)
    \/ ScanStart(k) \/ ScanMark(k) \/ ScanSBOM(k) \/ ScanComplete(k)

-----------------------------------------------------------------------------
(* NatsSubscriber.Run.                                                     *)

\* The consumer of node k takes the messages whose subject names k.
Receive(k, e) ==
    /\ NodeOf[e[1].id] = k
    /\ Deliver(k, e)
    /\ local' = [local EXCEPT ![k] = [Idle EXCEPT !.pc = "start"]]
    /\ UNCHANGED <<jobs, sboms, historyVars, faults>>

\* The handler returned nil, or the failure handler has run.
Acknowledge(k) ==
    /\ At(k, "ack")
    /\ Ack(k)
    /\ local' = [local EXCEPT ![k] = Idle]
    /\ UNCHANGED <<jobs, sboms, historyVars, faults>>

\* The process stops, or the acknowledgement does not reach the server.
Crash(k) ==
    /\ task[k] # NoTask
    /\ Fault
    /\ Abandon(k)
    /\ local' = [local EXCEPT ![k] = Idle]
    /\ UNCHANGED <<jobs, sboms, historyVars>>

\* AckWait elapses; while the message is handled, that is a fault.
AckWaitElapsed(e) ==
    /\ Redeliver(e)
    /\ IF \E k \in Nodes : HeldBy(k, e) THEN Fault ELSE UNCHANGED faults
    /\ UNCHANGED <<jobs, sboms, historyVars, local>>

\* A call of the handler returns an error; nothing else has happened.
HandlerError(k) ==
    /\ task[k] # NoTask
    /\ local[k].pc \notin {"fail", "ack"}
    /\ Fault
    /\ Goto(k, "fail")
    /\ UNCHANGED <<jobs, sboms, queueVars, task, historyVars>>

\* handleFailure with deliveries left.
RetryLater(k) ==
    /\ At(k, "fail")
    /\ task[k].n < MaxDeliver
    /\ Nak(k)
    /\ local' = [local EXCEPT ![k] = Idle]
    /\ UNCHANGED <<jobs, sboms, historyVars, faults>>

\* handleFailure at the delivery limit: HandleFailure fails the job that has
\* the name now.
GiveUp(k) ==
    /\ At(k, "fail")
    /\ task[k].n >= MaxDeliver
    /\ Finish(k, MarkFailed)
    /\ Goto(k, "ack")
    /\ UNCHANGED <<sboms, queueVars, task, scanned, faults>>

\* The failure handler itself fails: logged, and acknowledged all the same.
GiveUpSilently(k) ==
    /\ At(k, "fail")
    /\ task[k].n >= MaxDeliver
    /\ Fault
    /\ Goto(k, "ack")
    /\ disturbed' = disturbed \cup {M(k).uid}
    /\ UNCHANGED <<jobs, sboms, queueVars, task, counted, scanned>>

Subscribe(k) ==
    \/ \E e \in Entries : Receive(k, e)
    \/ Handle(k)
    \/ Acknowledge(k)
    \/ RetryLater(k)
    \/ GiveUp(k)

Mishap(k) == Crash(k) \/ HandlerError(k) \/ GiveUpSilently(k)
=============================================================================
