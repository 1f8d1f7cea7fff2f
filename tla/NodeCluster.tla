---------------------------- MODULE NodeCluster ----------------------------
(***************************************************************************)
(* What the parts of a node scan share: the cluster-scoped objects (the    *)
(* NodeScanConfiguration, Nodes, NodeScanJobs and NodeSBOMs), the work     *)
(* queue, and the bounds on what the environment does.                     *)
(*                                                                         *)
(* Resource versions are left out: a pending job never returns to a state  *)
(* it has left, so an object equal to a held copy is that version of it.   *)
(* NodeVulnerabilityReports are too: nothing reads them, so it is enough   *)
(* to record which jobs have written one.                                  *)
(***************************************************************************)
EXTENDS Naturals, FiniteSets

CONSTANTS
    Nodes,         \* node names; each node has its own worker
    Names,         \* names of NodeScanJobs
    GivenNames,    \* names users choose; the others are generated
    UIDs,          \* UIDs of NodeScanJob objects
    NameOf,        \* NameOf[u]: the name of the object with UID u
    NodeOf,        \* NodeOf[u]: its spec.nodeName, which is immutable
    MaxConfigs,    \* bound: times the NodeScanConfiguration is created
    Courses,       \* bounds: what the environment does, one set of them per course
    MaxDeliver, MaxCopies, NoTask,   \* see WorkQueue
    NoJob, NoConfig, NoRec           \* absent values

\* Each Mark function writes all four conditions, so a status is named after
\* the condition that is true; "Unset": no conditions yet.
Status == {"Unset", "Pending", "Scheduled", "InProgress", "Complete", "Failed"}

InitializeConditions == "Pending"
MarkScheduled == "Scheduled"
MarkInProgress == "InProgress"
MarkComplete == "Complete"
MarkFailed == "Failed"

IsPending(s) == s \in {"Unset", "Pending"}
IsFailed(s) == s = "Failed"

\* telemetry.JobFinished
JobFinished(s) == s \in {"Complete", "Failed"}

\* stamp: creation time; owner: UID of the NodeScanConfiguration in the
\* snapshot annotation and the owner reference, which one patch sets, or 0.
NodeScanJob == [uid : UIDs, stamp : Nat, owner : 0..MaxConfigs, status : Status]

\* uids: the UIDs given out; acts: what users do; faults: errors, crashes and
\* timeouts.
Course == [uids : SUBSET UIDs, acts : Nat, faults : Nat]

\* selects: the nodes nodeSelector and platforms match; rescan: the
\* node-rescan-requested annotation.
Configuration == [uid : 1..MaxConfigs, enabled : BOOLEAN,
                  selects : SUBSET Nodes, rescan : BOOLEAN]

ASSUME NodeAssumption ==
    /\ NameOf \in [UIDs -> Names] /\ NodeOf \in [UIDs -> Nodes]
    /\ GivenNames \subseteq Names
    /\ Courses \subseteq Course
    /\ \A u, v \in UIDs : NameOf[u] = NameOf[v] /\ u # v
                             => NameOf[u] \in GivenNames
    /\ \A S \in SUBSET UIDs : Cardinality(S) \in Nat   \* UIDs is finite
    /\ {MaxConfigs, MaxDeliver, MaxCopies} \subseteq Nat \ {0}
    /\ NoJob \notin NodeScanJob /\ NoConfig \notin Configuration

VARIABLES
    config,      \* the NodeScanConfiguration, or NoConfig
    configs,     \* NodeScanConfigurations created so far
    nodes,       \* the Nodes of the cluster
    jobs,        \* jobs[n]: the NodeScanJob called n, or NoJob
    created,     \* UIDs that are not given to another object any more
    sboms,       \* sboms[k]: owner of the NodeSBOM of k; 0: there is none
    published, stream, task,         \* see WorkQueue
    counted,     \* counted[u]: times job u was counted as finished
    scanned,     \* jobs whose UID has labelled a NodeVulnerabilityReport
    disturbed,   \* jobs one of the disturbances happened to, see NodeWorker
    faults,      \* errors, crashes and timeouts still to come
    changes      \* acts of users still to come

\* id: the UID in the message id; uid: the job its payload refers to.
Message(kind, id, u) == [kind |-> kind, id |-> id, uid |-> u]

NodeMessages ==
    {Message("generate", u, u) : u \in UIDs}
        \cup {m \in [kind : {"scan"}, id : UIDs, uid : UIDs] :
                 NameOf[m.id] = NameOf[m.uid]}

INSTANCE WorkQueue WITH Messages <- NodeMessages, Workers <- Nodes

ASSUME NodeTaskAssumption == NoTask \notin Task

configVars == <<config, configs>>
jobVars == <<jobs, created>>
queueVars == <<published, stream>>
historyVars == <<counted, scanned, disturbed>>

NodeClusterTypeOK ==
    /\ config \in Configuration \cup {NoConfig}
    /\ configs \in 0..MaxConfigs
    /\ nodes \subseteq Nodes
    /\ jobs \in [Names -> NodeScanJob \cup {NoJob}]
    /\ created \subseteq UIDs
    /\ sboms \in [Nodes -> 0..MaxConfigs]
    /\ counted \in [UIDs -> Nat]
    /\ scanned \subseteq UIDs
    /\ disturbed \subseteq UIDs
    /\ faults \in Nat
    /\ changes \in Nat
    /\ QueueTypeOK

\* Node scanning is set up, by a first configuration that selects every node.
NodeClusterInit ==
    /\ config = [uid |-> 1, enabled |-> TRUE, selects |-> Nodes,
                 rescan |-> FALSE]
    /\ configs = 1
    /\ nodes = Nodes
    /\ jobs = [n \in Names |-> NoJob]
    /\ sboms = [k \in Nodes |-> 0]
    /\ counted = [u \in UIDs |-> 0]
    /\ scanned = {}
    /\ disturbed = {}
    /\ \E c \in Courses :
          created = UIDs \ c.uids /\ changes = c.acts /\ faults = c.faults
    /\ QueueInit

\* The NodeScanJob with UID u still exists.
Live(u) == jobs[NameOf[u]] # NoJob /\ jobs[NameOf[u]].uid = u

StatusOf(u) == jobs[NameOf[u]].status

NodeOfJob(j) == NodeOf[j.uid]

\* The NodeScanConfiguration with this UID is gone.
OwnerGone(o) == o # 0 /\ ~(config # NoConfig /\ config.uid = o)

WriteStatus(n, s) == jobs' = [jobs EXCEPT ![n].status = s]

\* recordNodeScanJobFinished, called after the status s was persisted.
RecordFinished(u, s) ==
    counted' = IF JobFinished(s) THEN [counted EXCEPT ![u] = @ + 1]
                                 ELSE counted

\* One of the faults the environment has left happens.
Fault == faults > 0 /\ faults' = faults - 1

\* Two messages with one id: the stream knows the second as a duplicate of
\* the first within the deduplication window, whatever its payload.
PublishNode(m) ==
    \/ /\ \E k \in NodeMessages :
             k.kind = m.kind /\ k.id = m.id /\ published[k] > 0
       /\ UNCHANGED queueVars
    \/ Store(m)
=============================================================================
