--------------------------- MODULE NodeScanSteps ----------------------------
(***************************************************************************)
(* Every step of NodeScan keeps the types of the variables, and every      *)
(* step is one of a few kinds, by what it does to the jobs and to what the *)
(* controllers hold of them (lemma Steps).  Each kind keeps the conjuncts  *)
(* of the invariant about identities, copies and messages.                 *)
(***************************************************************************)
EXTENDS NodeScanInvariant, TLAPS

\* A job that exists has the fields of one.
LEMMA JobTyped ==
    ASSUME NEW j \in NodeScanJob
    PROVE  /\ j.uid \in UIDs /\ j.stamp \in Nat
           /\ j.owner \in 0..MaxConfigs /\ j.status \in Status
           /\ NameOf[j.uid] \in Names /\ NodeOf[j.uid] \in Nodes
           /\ j # NoJob
           /\ \A s \in Status : [j EXCEPT !.status = s] \in NodeScanJob
           /\ \A o \in 0..MaxConfigs : [j EXCEPT !.owner = o] \in NodeScanJob
BY NodeAssumption DEF NodeScanJob

\* The API server stores a new job.
LEMMA CreateTyped ==
    ASSUME TypeOK, NEW u \in UIDs, Create(u)
    PROVE  /\ created' \subseteq UIDs /\ jobs' \in [Names -> NodeScanJob \cup {NoJob}]
           /\ u \notin created /\ created' = created \cup {u}
           /\ jobs[NameOf[u]] = NoJob /\ jobs'[NameOf[u]] \in NodeScanJob
           /\ jobs'[NameOf[u]].uid = u /\ jobs'[NameOf[u]].owner = 0
           /\ jobs'[NameOf[u]].status = "Unset"
           /\ \A n \in Names : n # NameOf[u] => jobs'[n] = jobs[n]
<1> DEFINE j == [uid |-> u, stamp |-> Cardinality(created) + 1, owner |-> 0,
                 status |-> "Unset"]
<1>1. /\ created \subseteq UIDs /\ jobs \in [Names -> NodeScanJob \cup {NoJob}]
      /\ u \notin created /\ created' = created \cup {u} /\ jobs[NameOf[u]] = NoJob
      /\ jobs' = [jobs EXCEPT ![NameOf[u]] = j]
  BY DEF TypeOK, NodeClusterTypeOK, Create
<1>2. Cardinality(created) + 1 \in Nat
  BY <1>1, NodeAssumption
<1>3. NameOf[u] \in Names /\ 0 \in 0..MaxConfigs
  BY NodeAssumption
<1>4. j \in NodeScanJob /\ j.uid = u /\ j.owner = 0 /\ j.status = "Unset"
  BY <1>2, <1>3 DEF NodeScanJob, Status
<1> HIDE DEF j
<1> QED
  BY <1>1, <1>3, <1>4

\* Jobs are deleted.
LEMMA DeletedTyped ==
    ASSUME TypeOK, NEW ns, Deleted(ns)
    PROVE  /\ jobs' \in [Names -> NodeScanJob \cup {NoJob}]
           /\ \A n \in Names : jobs'[n] = NoJob \/ jobs'[n] = jobs[n]
BY DEF TypeOK, NodeClusterTypeOK, Deleted

\* A message that is handled is one of the messages.
LEMMA TaskTyped ==
    ASSUME TypeOK, NEW k \in Nodes, task[k] # NoTask
    PROVE  /\ task[k] \in Task /\ task[k].entry \in Entries /\ task[k].n \in 0..MaxDeliver
           /\ M(k) \in NodeMessages /\ M(k).uid \in UIDs /\ M(k).id \in UIDs
           /\ M(k).kind \in {"generate", "scan"}
           /\ NameOf[M(k).id] = NameOf[M(k).uid] /\ NameOf[M(k).uid] \in Names
           /\ M(k).kind = "generate" => M(k) = Message("generate", M(k).uid, M(k).uid)
<1>1. task[k] \in Task
  BY DEF TypeOK, NodeClusterTypeOK, QueueTypeOK
<1>2. task[k].entry \in Entries /\ task[k].n \in 0..MaxDeliver
  BY <1>1 DEF Task
<1>3. M(k) \in NodeMessages
  BY <1>2 DEF Entries, M
<1>4. ASSUME NEW m \in NodeMessages
      PROVE  /\ m.uid \in UIDs /\ m.id \in UIDs /\ m.kind \in {"generate", "scan"}
             /\ NameOf[m.id] = NameOf[m.uid]
             /\ m.kind = "generate" => m = Message("generate", m.uid, m.uid)
  BY DEF NodeMessages, Message
<1> QED
  BY <1>1, <1>2, <1>3, <1>4, NodeAssumption

\* A message is published.
LEMMA PublishTyped ==
    ASSUME TypeOK, NEW m, PublishNode(m)
    PROVE  /\ published' \in [NodeMessages -> 0..MaxCopies]
           /\ stream' \in [Entries -> Delivery]
<1>1. /\ published \in [NodeMessages -> 0..MaxCopies] /\ stream \in [Entries -> Delivery]
  BY DEF TypeOK, NodeClusterTypeOK, QueueTypeOK
<1>2. CASE UNCHANGED queueVars
  BY <1>1, <1>2 DEF queueVars
<1>3. CASE Store(m)
  <2>1. [st |-> "ready", n |-> 0] \in Delivery
    BY NodeAssumption DEF Delivery
  <2>2. m \in NodeMessages => published[m] + 1 \in 0..MaxCopies
    BY <1>1, <1>3, NodeAssumption DEF Store
  <2>3. /\ published' = [published EXCEPT ![m] = published[m] + 1]
        /\ stream' = [stream EXCEPT ![<<m, published[m] + 1>>] = [st |-> "ready", n |-> 0]]
    BY <1>3 DEF Store
  <2>4. published' \in [NodeMessages -> 0..MaxCopies]
    BY Zenon, <1>1, <2>2, <2>3
  <2>5. stream' \in [Entries -> Delivery]
    BY Zenon, <1>1, <2>1, <2>3
  <2> QED
    BY <2>4, <2>5
<1> QED
  BY <1>2, <1>3 DEF PublishNode

PCs == {"idle", "start", "mark", "sbom", "publish", "complete", "fail", "ack"}

\* The handler goes on.
LEMMA GotoTyped ==
    ASSUME TypeOK, NEW k \in Nodes, NEW pc \in PCs, Goto(k, pc)
    PROVE  /\ local' \in [Nodes -> Local]
           /\ local'[k].pc = pc /\ local'[k].uid = local[k].uid /\ local'[k].owner = local[k].owner
           /\ \A l \in Nodes : l # k => local'[l] = local[l]
<1>1. local \in [Nodes -> Local]
  BY DEF TypeOK, NodeWorkerTypeOK
<1>2. /\ [local[k] EXCEPT !.pc = pc] \in Local
      /\ [local[k] EXCEPT !.pc = pc].pc = pc
      /\ [local[k] EXCEPT !.pc = pc].uid = local[k].uid
      /\ [local[k] EXCEPT !.pc = pc].owner = local[k].owner
  BY <1>1 DEF Local, PCs
<1>3. local' = [local EXCEPT ![k] = [local[k] EXCEPT !.pc = pc]]
  BY DEF Goto
<1> DEFINE x == [local[k] EXCEPT !.pc = pc]
<1> HIDE DEF x
<1> QED
  BY <1>1, <1>2, <1>3 DEF x

\* A fault, or none.
LEMMA FaultTyped == ASSUME TypeOK, Fault PROVE faults' \in Nat
BY DEF TypeOK, NodeClusterTypeOK, Fault

\* A status is written.
LEMMA StatusTyped ==
    ASSUME TypeOK, NEW n \in Names, jobs[n] # NoJob, NEW s \in Status, WriteStatus(n, s)
    PROVE  /\ jobs' \in [Names -> NodeScanJob \cup {NoJob}]
           /\ jobs'[n] = [jobs[n] EXCEPT !.status = s] /\ jobs'[n] \in NodeScanJob
           /\ \A m \in Names : m # n => jobs'[m] = jobs[m]
<1>1. jobs \in [Names -> NodeScanJob \cup {NoJob}]
  BY DEF TypeOK, NodeClusterTypeOK
<1>2. jobs' = [jobs EXCEPT ![n] = [jobs[n] EXCEPT !.status = s]]
  BY DEF WriteStatus
<1>3. [jobs[n] EXCEPT !.status = s] \in NodeScanJob
  BY <1>1, JobTyped
<1> QED
  BY <1>1, <1>2, <1>3

\* A job is counted.
LEMMA RecordTyped ==
    ASSUME TypeOK, NEW u \in UIDs, NEW s, RecordFinished(u, s)
    PROVE  /\ counted' \in [UIDs -> Nat]
           /\ \A v \in UIDs : v # u => counted'[v] = counted[v]
           /\ counted'[u] = counted[u] + (IF JobFinished(s) THEN 1 ELSE 0)
<1>1. counted \in [UIDs -> Nat]
  BY DEF TypeOK, NodeClusterTypeOK
<1>2. CASE JobFinished(s)
  <2>1. counted' = [counted EXCEPT ![u] = counted[u] + 1]
    BY <1>2 DEF RecordFinished
  <2> QED
    BY <1>1, <1>2, <2>1
<1>3. CASE ~JobFinished(s)
  <2>1. counted' = counted
    BY <1>3 DEF RecordFinished
  <2> QED
    BY <1>1, <1>3, <2>1
<1> QED
  BY <1>2, <1>3

-----------------------------------------------------------------------------
\* The first state.
LEMMA TypeInit == ASSUME Init PROVE TypeOK
<1>1. PICK c \in Courses : created = UIDs \ c.uids /\ changes = c.acts /\ faults = c.faults
  BY DEF Init, NodeClusterInit
<1>2. created \subseteq UIDs /\ changes \in Nat /\ faults \in Nat
  BY <1>1, NodeAssumption DEF Course
<1>3. config \in Configuration /\ configs \in 0..MaxConfigs
  BY NodeAssumption DEF Init, NodeClusterInit, Configuration
<1>4. QueueTypeOK
  BY NodeAssumption DEF Init, NodeClusterInit, QueueInit, QueueTypeOK, Delivery
<1>5. NodeClusterTypeOK
  BY <1>2, <1>3, <1>4, NodeAssumption DEF Init, NodeClusterInit, NodeClusterTypeOK
<1>6. NodeControllersTypeOK
  BY Zenon DEF Init, NodeClusterInit, NodeControllersInit, NodeControllersTypeOK
<1>7. NodeWorkerTypeOK
  BY NodeAssumption DEF Init, NodeWorkerInit, NodeWorkerTypeOK, Local, Idle
<1> QED
  BY <1>5, <1>6, <1>7 DEF TypeOK

\* What users do.
LEMMA TypeUsers == ASSUME TypeOK, Users PROVE TypeOK'
<1> USE DEF configVars, jobVars, queueVars, historyVars
<1>1. /\ UNCHANGED <<sboms, published, stream, task, counted, scanned, disturbed, faults,
                     jobCache, jobQueue, rec, cycle, local>>
      /\ changes' \in Nat
  BY DEF Users, Act, TypeOK, NodeClusterTypeOK
<1> DEFINE Typed ==
           /\ config' \in Configuration \cup {NoConfig} /\ configs' \in 0..MaxConfigs
           /\ nodes' \subseteq Nodes /\ created' \subseteq UIDs
           /\ jobs' \in [Names -> NodeScanJob \cup {NoJob}]
           /\ configQueue' \in BOOLEAN /\ nodeQueue' \subseteq Nodes
<1>2. Typed
  <2> USE DEF TypeOK, NodeClusterTypeOK, NodeControllersTypeOK
  <2>1. CASE CreateConfig
    <3>1. config' = [uid |-> configs + 1, enabled |-> TRUE, selects |-> Nodes, rescan |-> FALSE]
      BY <2>1 DEF CreateConfig
    <3>2. configs' = configs + 1 /\ configs + 1 \in 1..MaxConfigs
      BY <2>1, NodeAssumption DEF CreateConfig
    <3>3. config' \in Configuration
      BY <3>1, <3>2 DEF Configuration
    <3>4. configs' \in 0..MaxConfigs
      BY <3>2, NodeAssumption
    <3>5. UNCHANGED <<nodes, nodeQueue, jobs, created>> /\ configQueue' = FALSE
      BY <2>1 DEF CreateConfig
    <3> QED
      BY Zenon, <3>3, <3>4, <3>5
  <2>2. CASE UpdateConfig
    <3>1. config \in Configuration /\ UNCHANGED <<configs, nodes, nodeQueue, jobs, created>>
      BY <2>2 DEF UpdateConfig
    <3>2. config' \in Configuration
      <4>1. /\ [config EXCEPT !.enabled = ~config.enabled] \in Configuration
            /\ [config EXCEPT !.rescan = TRUE] \in Configuration
        BY Zenon, <3>1 DEF Configuration
      <4>2. ASSUME NEW S \in SUBSET Nodes PROVE [config EXCEPT !.selects = S] \in Configuration
        BY <3>1 DEF Configuration
      <4>3. \A k \in Nodes : /\ config.selects \ {k} \in SUBSET Nodes
                             /\ config.selects \cup {k} \in SUBSET Nodes
        BY <3>1 DEF Configuration
      <4>4. CASE config' = [config EXCEPT !.enabled = ~@]
        BY <4>1, <4>4
      <4>5. CASE config' = [config EXCEPT !.rescan = TRUE]
        BY <4>1, <4>5
      <4>6. ASSUME NEW k \in Nodes,
                   config' = [config EXCEPT !.selects = IF k \in @ THEN @ \ {k} ELSE @ \cup {k}]
            PROVE  config' \in Configuration
        BY Zenon, <4>2, <4>3, <4>6
      <4> QED
        BY <2>2, <4>4, <4>5, <4>6 DEF UpdateConfig
    <3>3. configQueue' \in BOOLEAN
      BY <2>2 DEF UpdateConfig
    <3> QED
      BY <3>1, <3>2, <3>3
  <2>3. CASE DeleteConfig
    BY <2>3 DEF DeleteConfig
  <2>4. ASSUME NEW k \in Nodes, ChangeNode(k) PROVE Typed
    BY <2>4 DEF ChangeNode
  <2>5. ASSUME NEW u \in UIDs, CreateJob(u) PROVE Typed
    <3>1. Create(u) /\ UNCHANGED <<config, configs, configQueue, nodes, nodeQueue>>
      BY <2>5 DEF CreateJob
    <3> QED
      BY Zenon, <3>1, CreateTyped
  <2>6. ASSUME NEW n \in Names, DeleteJob(n) PROVE Typed
    BY <2>6, DeletedTyped DEF DeleteJob
  <2> QED
    <3> HIDE DEF Typed
    <3> QED
      BY <2>1, <2>2, <2>3, <2>4, <2>5, <2>6, Zenon DEF Users
<1> QED
  BY <1>1, <1>2 DEF TypeOK, NodeClusterTypeOK, QueueTypeOK, NodeControllersTypeOK,
                    NodeWorkerTypeOK

\* The garbage collector, and the two reconcilers that clean up.
LEMMA TypeCleanup ==
    ASSUME TypeOK,
           CollectGarbage \/ (/\ ReconcileConfig \/ \E k \in Nodes : ReconcileNode(k)
                              /\ UNCHANGED local)
    PROVE  TypeOK'
<1> USE DEF configVars, jobVars, queueVars, historyVars, controllerVars, workVars
<1>1. UNCHANGED <<config, configs, nodes, created, published, stream, task, counted, scanned,
                  disturbed, changes, jobCache, jobQueue, rec, cycle, local>>
  BY DEF CollectGarbage, ReconcileConfig, ReconcileNode
<1> DEFINE Typed ==
           /\ jobs' \in [Names -> NodeScanJob \cup {NoJob}] /\ sboms' \in [Nodes -> 0..MaxConfigs]
           /\ faults' \in Nat /\ configQueue' \in BOOLEAN /\ nodeQueue' \subseteq Nodes
<1>2. Typed
  <2> USE DEF TypeOK, NodeClusterTypeOK, NodeControllersTypeOK
  <2>0. 0 \in 0..MaxConfigs
    BY NodeAssumption
  <2>1. CASE CollectGarbage
    BY Zenon, <2>0, <2>1, DeletedTyped DEF CollectGarbage
  <2>2. CASE ReconcileConfig
    BY Zenon, <2>0, <2>2, DeletedTyped, FaultTyped DEF ReconcileConfig
  <2>3. ASSUME NEW k \in Nodes, ReconcileNode(k) PROVE Typed
    <3>1. /\ nodeQueue' \in {nodeQueue, nodeQueue \ {k}} /\ configQueue' = configQueue
          /\ sboms' = sboms \/ sboms' = [sboms EXCEPT ![k] = 0]
          /\ jobs' = jobs \/ \E ns : Deleted(ns)
          /\ faults' = faults \/ Fault
      BY Zenon, <2>3 DEF ReconcileNode
    <3>2. jobs' \in [Names -> NodeScanJob \cup {NoJob}] /\ faults' \in Nat
      BY Zenon, <3>1, DeletedTyped, FaultTyped
    <3> QED
      BY <2>0, <3>1, <3>2
  <2> QED
    <3> HIDE DEF Typed
    <3> QED
      BY <2>1, <2>2, <2>3, Zenon
<1> QED
  BY <1>1, <1>2 DEF TypeOK, NodeClusterTypeOK, QueueTypeOK, NodeControllersTypeOK,
                    NodeWorkerTypeOK

\* The watch, the runner and a restart of the controller process.
LEMMA TypeRunner ==
    ASSUME TypeOK, Watches \/ Runner \/ (RestartControllers /\ UNCHANGED local)
    PROVE  TypeOK'
<1> USE DEF configVars, jobVars, queueVars, historyVars, controllerVars, workVars
<1>1. UNCHANGED <<configs, nodes, sboms, published, stream, task, counted, scanned,
                  disturbed, changes, local>>
  BY Zenon DEF Watches, Runner, SyncJob, StartCycle, ScanNode, PassNode, EndCycle, RestartControllers
<1> DEFINE Typed ==
           /\ config' \in Configuration \cup {NoConfig} /\ created' \subseteq UIDs
           /\ jobs' \in [Names -> NodeScanJob \cup {NoJob}] /\ faults' \in Nat
           /\ jobCache' \in [Names -> NodeScanJob \cup {NoJob}]
           /\ configQueue' \in BOOLEAN /\ nodeQueue' \subseteq Nodes /\ jobQueue' \subseteq Names
           /\ rec' \in [Names -> Reconciliation \cup {NoRec}] /\ cycle' \in Cycle \cup {NoRec}
<1>2. Typed
  <2> USE DEF TypeOK, NodeClusterTypeOK, NodeControllersTypeOK
  <2>1. ASSUME NEW n \in Names, SyncJob(n) PROVE Typed
    BY <2>1 DEF SyncJob, Requeued
  <2>2. CASE StartCycle
    BY Zenon, <2>2 DEF StartCycle, Cycle, Configuration
  <2>3. ASSUME NEW k \in Nodes, ScanNode(k) PROVE Typed
    <3>1. PICK u \in UIDs : Create(u)
      BY Zenon, <2>3 DEF ScanNode, Unborn
    <3>2. cycle' \in Cycle
      BY <2>3 DEF ScanNode, Checked, Cycle
    <3>3. UNCHANGED <<config, faults, jobCache, configQueue, nodeQueue, jobQueue, rec>>
      BY Zenon, <2>3 DEF ScanNode
    <3>4. created' \subseteq UIDs /\ jobs' \in [Names -> NodeScanJob \cup {NoJob}]
      BY Zenon, <3>1, CreateTyped
    <3> QED
      BY <3>2, <3>3, <3>4
  <2>4. ASSUME NEW k \in Nodes, PassNode(k) PROVE Typed
    <3>1. cycle' \in Cycle
      BY <2>4 DEF PassNode, Checked, Cycle
    <3>2. UNCHANGED <<config, jobs, created, jobCache, configQueue, nodeQueue, jobQueue, rec>>
      BY Zenon, <2>4 DEF PassNode
    <3>3. faults' \in Nat
      BY Zenon, <2>4, FaultTyped DEF PassNode
    <3> QED
      BY <3>1, <3>2, <3>3
  <2>5. CASE EndCycle
    <3>1. UNCHANGED <<jobs, created, jobCache, nodeQueue, jobQueue, rec>> /\ cycle' = NoRec
      BY <2>5 DEF EndCycle
    <3>2. faults' \in Nat
      BY <2>5, FaultTyped DEF EndCycle
    <3>3. config' \in Configuration \cup {NoConfig} /\ configQueue' \in BOOLEAN
      BY Zenon, <2>5 DEF EndCycle, Configuration
    <3> QED
      BY <3>1, <3>2, <3>3
  <2>6. CASE RestartControllers
    <3>1. /\ UNCHANGED <<config, jobs, created>> /\ jobCache' = jobs
          /\ nodeQueue' = {} /\ jobQueue' \subseteq Names /\ cycle' = NoRec
          /\ rec' = [n \in Names |-> NoRec] /\ faults' \in Nat
      BY <2>6, FaultTyped DEF RestartControllers
    <3>2. configQueue' \in BOOLEAN
      BY Zenon, <2>6 DEF RestartControllers
    <3> QED
      BY <3>1, <3>2
  <2> QED
    <3> HIDE DEF Typed
    <3> QED
      BY <2>1, <2>2, <2>3, <2>4, <2>5, <2>6, Zenon DEF Watches, Runner
<1> QED
  BY <1>1, <1>2 DEF TypeOK, NodeClusterTypeOK, QueueTypeOK, NodeControllersTypeOK,
                    NodeWorkerTypeOK

-----------------------------------------------------------------------------
\* The cleanup of old jobs only deletes.
LEMMA CleanupTyped ==
    ASSUME TypeOK, NEW j
    PROVE  /\ JobsAfterCleanup(j) \in [Names -> NodeScanJob \cup {NoJob}]
           /\ \A n \in Names : JobsAfterCleanup(j)[n] \in {NoJob, jobs[n]}
BY DEF TypeOK, NodeClusterTypeOK, JobsAfterCleanup

\* What a reconciliation of n up to its status update does: it takes n from the
\* queue and holds the copy in the cache, or gives the job an owner and holds
\* the answer.  The cleanup deletes jobs meanwhile.
TakesCopy(n) ==
    /\ rec'[n].copy = jobCache[n] /\ jobs'[n] \in {NoJob, jobs[n]}
    /\ \/ rec'[n].status = "Failed" /\ rec'[n].retry = FALSE /\ UNCHANGED queueVars
       \/ /\ rec'[n].status \in {"Scheduled", "Pending"}
          /\ rec'[n].status = "Pending" => rec'[n].retry = TRUE
          /\ rec'[n].status = "Scheduled" => rec'[n].retry = FALSE
          /\ jobCache[n].owner # 0
          /\ PublishNode(Message("generate", jobCache[n].uid, jobCache[n].uid))
       \/ rec'[n].status = "Pending" /\ rec'[n].retry = TRUE /\ UNCHANGED queueVars

TakesAnswer(n) ==
    /\ config # NoConfig /\ jobs[n] # NoJob /\ jobCache[n].owner = 0
    /\ jobs'[n] = [jobs[n] EXCEPT !.owner = config.uid]
    /\ rec'[n].copy = jobs'[n]
    /\ rec'[n].status = IF jobs[n].status = "Unset" THEN "Pending" ELSE jobs[n].status
    /\ rec'[n].retry = FALSE /\ UNCHANGED queueVars

Takes(n) ==
    /\ n \in jobQueue /\ rec[n] = NoRec /\ jobQueue' = jobQueue \ {n}
    /\ rec'[n] \in Reconciliation
    /\ \A m \in Names \ {n} : rec'[m] = rec[m] /\ jobs'[m] \in {NoJob, jobs[m]}
    /\ TakesCopy(n) \/ TakesAnswer(n)
    /\ UNCHANGED <<config, configs, nodes, created, sboms, task, counted, scanned, disturbed,
                   changes, jobCache, configQueue, nodeQueue, cycle>>

\* A reconciliation is held until its status update.
LEMMA HoldTyped ==
    ASSUME TypeOK, NEW n \in Names, NEW j \in NodeScanJob, NEW s \in Status,
           NEW retry \in BOOLEAN, Hold(n, j, s, retry)
    PROVE  /\ rec' \in [Names -> Reconciliation \cup {NoRec}]
           /\ rec'[n] \in Reconciliation /\ rec'[n].copy = j /\ rec'[n].status = s
           /\ rec'[n].retry = retry
           /\ \A m \in Names \ {n} : rec'[m] = rec[m]
<1> DEFINE r == [copy |-> j, status |-> s, retry |-> retry]
<1>1. r \in Reconciliation /\ r.copy = j /\ r.status = s /\ r.retry = retry
  BY DEF Reconciliation
<1>2. rec' = [rec EXCEPT ![n] = r] /\ rec \in [Names -> Reconciliation \cup {NoRec}]
  BY DEF Hold, TypeOK, NodeControllersTypeOK
<1> HIDE DEF r
<1>3. rec' \in [Names -> Reconciliation \cup {NoRec}] /\ rec'[n] = r
  BY <1>1, <1>2
<1> QED
  BY <1>1, <1>2, <1>3

\* The reconciliations that do not update the status are such steps.
LEMMA ReconcileTakes ==
    ASSUME TypeOK, NEW n \in Names, \A m \in jobQueue : jobCache[m] # NoJob,
           RejectJob(n) \/ SnapshotConfiguration(n) \/ ScheduleJob(n) \/ FailReconcile(n)
    PROVE  /\ Takes(n)
           /\ jobs' \in [Names -> NodeScanJob \cup {NoJob}]
           /\ rec' \in [Names -> Reconciliation \cup {NoRec}]
           /\ published' \in [NodeMessages -> 0..MaxCopies]
           /\ stream' \in [Entries -> Delivery] /\ faults' \in Nat
<1> USE DEF configVars, jobVars, queueVars, historyVars, controllerVars, workVars
<1> DEFINE j == jobCache[n]
           Typed == /\ jobs' \in [Names -> NodeScanJob \cup {NoJob}]
                    /\ rec' \in [Names -> Reconciliation \cup {NoRec}]
                    /\ published' \in [NodeMessages -> 0..MaxCopies]
                    /\ stream' \in [Entries -> Delivery] /\ faults' \in Nat
<1>1. /\ n \in jobQueue /\ rec[n] = NoRec /\ jobQueue' = jobQueue \ {n}
      /\ UNCHANGED <<config, configs, nodes, created, sboms, task, counted, scanned, disturbed,
                     changes, jobCache, configQueue, nodeQueue, cycle>>
  BY Zenon DEF RejectJob, SnapshotConfiguration, ScheduleJob, FailReconcile, Begin
<1>2. /\ jobs \in [Names -> NodeScanJob \cup {NoJob}] /\ j \in NodeScanJob
      /\ published \in [NodeMessages -> 0..MaxCopies] /\ stream \in [Entries -> Delivery]
      /\ faults \in Nat
  BY <1>1 DEF TypeOK, NodeClusterTypeOK, NodeControllersTypeOK, QueueTypeOK
<1>3. {"Failed", "Scheduled", "Pending"} \subseteq Status
  BY DEF Status
<1>4. CASE RejectJob(n)
  <2>1. Hold(n, j, "Failed", FALSE) /\ UNCHANGED <<jobs, published, stream, faults>>
    BY Zenon, <1>4 DEF RejectJob, MarkFailed
  <2>2. /\ rec' \in [Names -> Reconciliation \cup {NoRec}] /\ rec'[n] \in Reconciliation
        /\ rec'[n].copy = j /\ rec'[n].status = "Failed" /\ rec'[n].retry = FALSE
        /\ \A m \in Names \ {n} : rec'[m] = rec[m]
    BY Zenon, <1>2, <1>3, <2>1, HoldTyped
  <2> QED
    BY Zenon, <1>1, <1>2, <2>1, <2>2 DEF Takes, TakesCopy
<1>5. CASE ScheduleJob(n)
  <2>1. /\ jobs' = JobsAfterCleanup(j) /\ j.owner # 0
        /\ PublishNode(Message("generate", j.uid, j.uid))
        /\ \/ Hold(n, j, "Scheduled", FALSE) /\ UNCHANGED faults
           \/ Hold(n, j, "Pending", TRUE) /\ Fault
    BY Zenon, <1>5 DEF ScheduleJob, MarkScheduled, InitializeConditions
  <2>2. faults' \in Nat
    BY Zenon, <1>2, <2>1, FaultTyped
  <2>3. /\ published' \in [NodeMessages -> 0..MaxCopies] /\ stream' \in [Entries -> Delivery]
    BY Zenon, <2>1, PublishTyped
  <2>4. /\ rec' \in [Names -> Reconciliation \cup {NoRec}] /\ rec'[n] \in Reconciliation
        /\ rec'[n].copy = j /\ rec'[n].status \in {"Scheduled", "Pending"}
        /\ rec'[n].status = "Pending" => rec'[n].retry = TRUE
        /\ rec'[n].status = "Scheduled" => rec'[n].retry = FALSE
        /\ \A m \in Names \ {n} : rec'[m] = rec[m]
    <3>1. CASE Hold(n, j, "Scheduled", FALSE)
      BY Zenon, <1>2, <1>3, <3>1, HoldTyped
    <3>2. CASE Hold(n, j, "Pending", TRUE)
      BY ZenonT(30), <1>2, <1>3, <3>2, HoldTyped
    <3> QED
      BY Zenon, <2>1, <3>1, <3>2
  <2>5. /\ jobs' \in [Names -> NodeScanJob \cup {NoJob}]
        /\ \A m \in Names : jobs'[m] \in {NoJob, jobs[m]}
    BY Zenon, <2>1, CleanupTyped
  <2> QED
    BY <1>1, <2>1, <2>2, <2>3, <2>4, <2>5, Zenon DEF Takes, TakesCopy
<1>6. CASE FailReconcile(n)
  <2>1. /\ Hold(n, j, "Pending", TRUE) /\ UNCHANGED <<published, stream>>
        /\ \/ jobs' = JobsAfterCleanup(j) /\ UNCHANGED faults
           \/ Fault /\ UNCHANGED jobs
    BY Zenon, <1>6 DEF FailReconcile, InitializeConditions
  <2>2. faults' \in Nat
    BY <1>2, <2>1, FaultTyped
  <2>3. /\ rec' \in [Names -> Reconciliation \cup {NoRec}] /\ rec'[n] \in Reconciliation
        /\ rec'[n].copy = j /\ rec'[n].status = "Pending" /\ rec'[n].retry = TRUE
        /\ \A m \in Names \ {n} : rec'[m] = rec[m]
    BY Zenon, <1>2, <1>3, <2>1, HoldTyped
  <2>4. /\ jobs' \in [Names -> NodeScanJob \cup {NoJob}]
        /\ \A m \in Names : jobs'[m] \in {NoJob, jobs[m]}
    BY <1>2, <2>1, CleanupTyped
  <2> QED
    BY Zenon, <1>1, <1>2, <2>1, <2>2, <2>3, <2>4 DEF Takes, TakesCopy
<1>7. CASE SnapshotConfiguration(n)
  <2> DEFINE after == JobsAfterCleanup(j)
             live == after[n]
             new == [live EXCEPT !.owner = config.uid]
             s == IF new.status = "Unset" THEN "Pending" ELSE new.status
  <2>1. /\ j.owner = 0 /\ live # NoJob /\ config # NoConfig
        /\ jobs' = [after EXCEPT ![n] = new] /\ Hold(n, new, s, FALSE)
        /\ UNCHANGED <<published, stream, faults>>
    BY Zenon, <1>7 DEF SnapshotConfiguration, InitializeConditions, Matches
  <2>2. /\ after \in [Names -> NodeScanJob \cup {NoJob}]
        /\ \A m \in Names : after[m] \in {NoJob, jobs[m]}
    BY Zenon, CleanupTyped
  <2> HIDE DEF after
  <2>3. live = jobs[n] /\ live \in NodeScanJob
    BY <2>1, <2>2
  <2>4. config.uid \in 0..MaxConfigs
    BY <2>1, NodeAssumption DEF TypeOK, NodeClusterTypeOK, Configuration
  <2>5. new \in NodeScanJob /\ new.status = live.status /\ live.status \in Status
    BY <2>3, <2>4, JobTyped DEF NodeScanJob
  <2>6. s \in Status /\ s = IF jobs[n].status = "Unset" THEN "Pending" ELSE jobs[n].status
    BY <1>3, <2>3, <2>5
  <2>7. new = [jobs[n] EXCEPT !.owner = config.uid]
    BY <2>3
  <2> HIDE DEF new, s, live
  <2>8. /\ jobs' \in [Names -> NodeScanJob \cup {NoJob}] /\ jobs'[n] = new
        /\ \A m \in Names \ {n} : jobs'[m] \in {NoJob, jobs[m]}
    BY <2>1, <2>2, <2>5
  <2>9. /\ rec' \in [Names -> Reconciliation \cup {NoRec}] /\ rec'[n] \in Reconciliation
        /\ rec'[n].copy = new /\ rec'[n].status = s /\ rec'[n].retry = FALSE
        /\ \A m \in Names \ {n} : rec'[m] = rec[m]
    BY Zenon, <2>1, <2>5, <2>6, HoldTyped
  <2>10. TakesAnswer(n)
    BY <2>1, <2>3, <2>6, <2>7, <2>8, <2>9 DEF TakesAnswer
  <2>11. Takes(n)
    BY Zenon, <1>1, <2>8, <2>9, <2>10 DEF Takes
  <2> QED
    BY Zenon, <1>2, <2>1, <2>8, <2>9, <2>11
<1> QED
  BY <1>4, <1>5, <1>6, <1>7

-----------------------------------------------------------------------------
\* The status update, or the retry after it, keeps the types.
LEMMA TypeFinish ==
    ASSUME TypeOK, NEW n \in Names, UpdateJobStatus(n) \/ RetryJob(n)
    PROVE  /\ jobs' \in [Names -> NodeScanJob \cup {NoJob}] /\ counted' \in [UIDs -> Nat]
           /\ rec' = [rec EXCEPT ![n] = NoRec] /\ rec' \in [Names -> Reconciliation \cup {NoRec}]
           /\ jobQueue' \subseteq Names /\ faults' \in Nat
           /\ UNCHANGED <<config, configs, nodes, created, sboms, published, stream, task, scanned,
                          disturbed, changes, jobCache, configQueue, nodeQueue, cycle>>
<1> USE DEF configVars, jobVars, queueVars, historyVars, controllerVars, workVars
<1>1. /\ rec' = [rec EXCEPT ![n] = NoRec] /\ rec[n] # NoRec
      /\ UNCHANGED <<config, configs, nodes, created, sboms, published, stream, task, scanned,
                     disturbed, changes, jobCache, configQueue, nodeQueue, cycle>>
      /\ jobQueue' \in {jobQueue, Requeued(n, jobCache[n])}
  BY Zenon DEF UpdateJobStatus, RetryJob
<1>2. /\ rec \in [Names -> Reconciliation \cup {NoRec}] /\ jobQueue \subseteq Names
      /\ jobs \in [Names -> NodeScanJob \cup {NoJob}] /\ counted \in [UIDs -> Nat] /\ faults \in Nat
  BY DEF TypeOK, NodeClusterTypeOK, NodeControllersTypeOK
<1>3. rec' \in [Names -> Reconciliation \cup {NoRec}]
  BY <1>1, <1>2
<1>4. jobQueue' \subseteq Names
  BY <1>1, <1>2 DEF Requeued
<1>5. CASE UpdateJobStatus(n)
  <2>1. /\ jobs[n] # NoJob /\ WriteStatus(n, rec[n].status)
        /\ RecordFinished(jobs[n].uid, rec[n].status) /\ UNCHANGED faults
    BY Zenon, <1>5 DEF UpdateJobStatus, StatusUpdateAccepted
  <2>2. rec[n].status \in Status /\ jobs[n].uid \in UIDs
    BY <1>1, <1>2, <2>1 DEF Reconciliation, NodeScanJob
  <2>3. jobs' \in [Names -> NodeScanJob \cup {NoJob}] /\ counted' \in [UIDs -> Nat]
    BY Zenon, <2>1, <2>2, StatusTyped, RecordTyped
  <2> QED
    BY <1>1, <1>2, <1>3, <1>4, <2>1, <2>3
<1>6. CASE RetryJob(n)
  <2>1. faults' \in Nat /\ UNCHANGED <<jobs, counted>>
    BY <1>2, <1>6, FaultTyped DEF RetryJob
  <2> QED
    BY <1>1, <1>2, <1>3, <1>4, <2>1
<1> QED
  BY <1>5, <1>6

\* The reconciliations of jobs keep the types.
LEMMA TypeReconcile ==
    ASSUME TypeOK, NEW n \in Names, \A m \in jobQueue : jobCache[m] # NoJob,
           ReconcileJob(n), UNCHANGED local
    PROVE  TypeOK'
<1>1. CASE UpdateJobStatus(n) \/ RetryJob(n)
  BY Zenon, <1>1, TypeFinish DEF TypeOK, NodeClusterTypeOK, QueueTypeOK, NodeControllersTypeOK,
                          NodeWorkerTypeOK
<1>2. CASE RejectJob(n) \/ SnapshotConfiguration(n) \/ ScheduleJob(n) \/ FailReconcile(n)
  <2>1. /\ Takes(n)
        /\ jobs' \in [Names -> NodeScanJob \cup {NoJob}]
        /\ rec' \in [Names -> Reconciliation \cup {NoRec}]
        /\ published' \in [NodeMessages -> 0..MaxCopies]
        /\ stream' \in [Entries -> Delivery] /\ faults' \in Nat
    BY <1>2, ReconcileTakes
  <2>2. /\ UNCHANGED <<config, configs, nodes, created, sboms, task, counted, scanned, disturbed,
                       changes, jobCache, configQueue, nodeQueue, cycle>>
        /\ jobQueue' = jobQueue \ {n}
    BY <2>1 DEF Takes
  <2> QED
    BY <2>1, <2>2 DEF TypeOK, NodeClusterTypeOK, QueueTypeOK, NodeControllersTypeOK,
                      NodeWorkerTypeOK
<1> QED
  BY <1>1, <1>2 DEF ReconcileJob

-----------------------------------------------------------------------------
\* What a step of the worker of k does to the jobs: nothing, or it writes a
\* status to the job that has the name in its message.  A write on behalf of
\* another job, or to a finished job, is a disturbance.
Rewrites(k, s) ==
    LET n == NameOf[M(k).uid]
        j == jobs[n]
    IN  /\ task[k] # NoTask /\ j # NoJob /\ s \in {"InProgress", "Complete", "Failed"}
        /\ jobs'[n] = [j EXCEPT !.status = s] /\ jobs'[n] \in NodeScanJob
        /\ \A m \in Names \ {n} : jobs'[m] = jobs[m]
        /\ j.uid # M(k).uid => j.uid \in disturbed'
        /\ s = "InProgress" /\ JobFinished(j.status) => j.uid \in disturbed'
        /\ disturbed \subseteq disturbed' /\ disturbed' \subseteq disturbed \cup {j.uid}
        /\ \A v \in UIDs \ {j.uid} : counted'[v] = counted[v]
        /\ counted'[j.uid] = IF s # "InProgress" /\ ~JobFinished(j.status) THEN counted[j.uid] + 1
                                                                          ELSE counted[j.uid]
        /\ s = "Complete" => Handling(k, "scan", "complete")
        /\ UNCHANGED <<scanned, published, stream, task>>

Leaves == UNCHANGED <<jobs, counted>> /\ disturbed \subseteq disturbed'

\* Writing InProgress is such a step.
LEMMA MarkRewrites ==
    ASSUME TypeOK, NEW k \in Nodes, task[k] # NoTask, Job(k) # NoJob, WriteInProgress(k),
           UNCHANGED <<counted, scanned, published, stream, task>>
    PROVE  /\ Rewrites(k, "InProgress")
           /\ jobs' \in [Names -> NodeScanJob \cup {NoJob}] /\ disturbed' \subseteq UIDs
<1>1. M(k).uid \in UIDs /\ NameOf[M(k).uid] \in Names
  BY Zenon, TaskTyped
<1> DEFINE n == NameOf[M(k).uid]
<1>2. /\ n \in Names /\ jobs[n] # NoJob /\ WriteStatus(n, "InProgress")
      /\ disturbed' = IF jobs[n].uid # M(k).uid \/ JobFinished(jobs[n].status)
                      THEN disturbed \cup {jobs[n].uid} ELSE disturbed
  BY Zenon, <1>1 DEF WriteInProgress, Job, MarkInProgress
<1>3. /\ jobs \in [Names -> NodeScanJob \cup {NoJob}] /\ disturbed \subseteq UIDs
      /\ counted \in [UIDs -> Nat]
  BY DEF TypeOK, NodeClusterTypeOK
<1>4. "InProgress" \in Status
  BY DEF Status
<1> HIDE DEF n
<1>5. /\ jobs' \in [Names -> NodeScanJob \cup {NoJob}]
      /\ jobs'[n] = [jobs[n] EXCEPT !.status = "InProgress"] /\ jobs'[n] \in NodeScanJob
      /\ \A m \in Names \ {n} : jobs'[m] = jobs[m]
  BY <1>2, <1>4, StatusTyped
<1>6. jobs[n].uid \in UIDs
  BY <1>2, <1>3, JobTyped
<1>7. Rewrites(k, "InProgress")
  BY Zenon, <1>2, <1>5 DEF Rewrites, n
<1> QED
  BY <1>2, <1>3, <1>5, <1>6, <1>7

\* So is a final status.
LEMMA FinishRewrites ==
    ASSUME TypeOK, NEW k \in Nodes, task[k] # NoTask, NEW s \in {"Complete", "Failed"},
           Finish(k, s), UNCHANGED <<scanned, published, stream, task>>,
           s = "Complete" => Handling(k, "scan", "complete")
    PROVE  /\ \/ Job(k) = NoJob /\ UNCHANGED <<jobs, counted, disturbed>>
              \/ Job(k) # NoJob /\ Rewrites(k, s)
           /\ jobs' \in [Names -> NodeScanJob \cup {NoJob}] /\ disturbed' \subseteq UIDs
           /\ counted' \in [UIDs -> Nat]
<1>1. M(k).uid \in UIDs /\ NameOf[M(k).uid] \in Names
  BY TaskTyped
<1>3. /\ jobs \in [Names -> NodeScanJob \cup {NoJob}] /\ disturbed \subseteq UIDs
      /\ counted \in [UIDs -> Nat]
  BY DEF TypeOK, NodeClusterTypeOK
<1>4. CASE Job(k) = NoJob
  BY Zenon, <1>3, <1>4 DEF Finish
<1>5. CASE Job(k) # NoJob
  <2> DEFINE n == NameOf[M(k).uid]
  <2>1. /\ n \in Names /\ jobs[n] # NoJob /\ WriteStatus(n, s)
        /\ IF JobFinished(jobs[n].status) THEN UNCHANGED counted
                                          ELSE RecordFinished(jobs[n].uid, s)
        /\ disturbed' = disturbed \cup ({jobs[n].uid} \ {M(k).uid})
    BY Zenon, <1>1, <1>5 DEF Finish, Job
  <2>2. s \in Status /\ JobFinished(s) /\ s # "InProgress"
    BY DEF Status, JobFinished
  <2> HIDE DEF n
  <2>3. /\ jobs' \in [Names -> NodeScanJob \cup {NoJob}]
        /\ jobs'[n] = [jobs[n] EXCEPT !.status = s] /\ jobs'[n] \in NodeScanJob
        /\ \A m \in Names \ {n} : jobs'[m] = jobs[m]
    BY <2>1, <2>2, StatusTyped
  <2>4. jobs[n].uid \in UIDs
    BY <1>3, <2>1, JobTyped
  <2>5. /\ counted' \in [UIDs -> Nat] /\ \A v \in UIDs \ {jobs[n].uid} : counted'[v] = counted[v]
        /\ counted'[jobs[n].uid] = IF ~JobFinished(jobs[n].status) THEN counted[jobs[n].uid] + 1
                                   ELSE counted[jobs[n].uid]
    BY Zenon, <1>3, <2>1, <2>2, <2>4, RecordTyped
  <2>6. Rewrites(k, s)
    BY Zenon, <2>1, <2>2, <2>3, <2>4, <2>5 DEF Rewrites, n
  <2> QED
    BY <1>3, <1>5, <2>1, <2>3, <2>4, <2>5, <2>6
<1> QED
  BY <1>4, <1>5

-----------------------------------------------------------------------------
\* A job is disturbed that exists, or that a message is handled for.
Disturbs ==
    \A u \in disturbed' \ disturbed :
        \/ \E n \in Names : jobs[n] # NoJob /\ jobs[n].uid = u
        \/ \E k \in Nodes : task[k] # NoTask /\ M(k).uid = u

\* What a step of the workers does.
WorkerStep ==
    /\ jobs' \in [Names -> NodeScanJob \cup {NoJob}] /\ sboms' \in [Nodes -> 0..MaxConfigs]
    /\ counted' \in [UIDs -> Nat] /\ scanned' \subseteq UIDs /\ disturbed' \subseteq UIDs
    /\ faults' \in Nat /\ published' \in [NodeMessages -> 0..MaxCopies]
    /\ stream' \in [Entries -> Delivery] /\ task' \in [Nodes -> Task \cup {NoTask}]
    /\ local' \in [Nodes -> Local]
    /\ \/ \E k \in Nodes, s \in {"InProgress", "Complete", "Failed"} : Rewrites(k, s)
       \/ Leaves /\ Disturbs
    /\ scanned \subseteq scanned'
    /\ \/ UNCHANGED published
       \/ \E k \in Nodes : /\ Handling(k, "generate", "publish")
                           /\ PublishNode(Message("scan", local[k].uid, M(k).uid))

\* The steps of GenerateNodeSBOMHandler.
LEMMA GenerateTyped ==
    ASSUME TypeOK, NEW k \in Nodes,
           GenerateStart(k) \/ GenerateMark(k) \/ GenerateSBOM(k) \/ GeneratePublish(k)
    PROVE  WorkerStep
<1> USE DEF configVars, jobVars, queueVars, historyVars
<1>0. /\ jobs \in [Names -> NodeScanJob \cup {NoJob}] /\ sboms \in [Nodes -> 0..MaxConfigs]
      /\ counted \in [UIDs -> Nat] /\ scanned \subseteq UIDs /\ disturbed \subseteq UIDs
      /\ faults \in Nat /\ published \in [NodeMessages -> 0..MaxCopies]
      /\ stream \in [Entries -> Delivery] /\ task \in [Nodes -> Task \cup {NoTask}]
      /\ local \in [Nodes -> Local]
  BY DEF TypeOK, NodeClusterTypeOK, QueueTypeOK, NodeWorkerTypeOK
<1>1. task[k] # NoTask
  BY Zenon DEF GenerateStart, GenerateMark, GenerateSBOM, GeneratePublish, Handling, At
<1>2. M(k).uid \in UIDs /\ NameOf[M(k).uid] \in Names
  BY Zenon, <1>1, TaskTyped
<1>3. {"ack", "mark", "sbom", "publish", "fail"} \subseteq PCs
  BY DEF PCs
<1>4. CASE GenerateStart(k)
  <2>1. /\ UNCHANGED <<sboms, published, stream, task, counted, scanned, jobs, faults>>
        /\ Goto(k, "ack") \/ Goto(k, "mark")
        /\ disturbed' = disturbed
           \/ (Job(k) # NoJob /\ disturbed' = disturbed \cup {Job(k).uid})
    BY Zenon, <1>4 DEF GenerateStart, Stop, Drop
  <2>2. local' \in [Nodes -> Local]
    BY Zenon, <1>3, <2>1, GotoTyped
  <2>3. disturbed' \subseteq UIDs /\ Leaves /\ Disturbs
    BY <1>0, <1>2, <2>1, JobTyped DEF Leaves, Disturbs, Job
  <2> QED
    BY Zenon, <1>0, <2>1, <2>2, <2>3 DEF WorkerStep
<1>5. CASE GenerateMark(k)
  <2>1. UNCHANGED <<sboms, published, stream, task, counted, scanned>>
    BY <1>5 DEF GenerateMark
  <2>2. CASE Job(k) = NoJob
    <3>1. Goto(k, "ack") /\ UNCHANGED <<jobs, disturbed, faults>>
      BY <1>5, <2>2 DEF GenerateMark, Stop
    <3>2. local' \in [Nodes -> Local] /\ Leaves /\ Disturbs
      BY Zenon, <1>3, <2>1, <3>1, GotoTyped DEF Leaves, Disturbs
    <3> QED
      BY <1>0, <2>1, <3>1, <3>2 DEF WorkerStep
  <2>3. CASE Job(k) # NoJob
    <3> DEFINE l == [pc |-> IF config = NoConfig THEN "ack"
                            ELSE IF Job(k).owner = 0 THEN "fail" ELSE "sbom",
                     uid |-> Job(k).uid, owner |-> Job(k).owner]
    <3>1. WriteInProgress(k) /\ local' = [local EXCEPT ![k] = l] /\ UNCHANGED faults
      BY Zenon, <1>5, <2>3 DEF GenerateMark
    <3>2. Job(k) \in NodeScanJob
      BY Zenon, <1>0, <1>2, <2>3 DEF Job
    <3>3. l \in Local
      BY <3>2, JobTyped DEF Local
    <3> HIDE DEF l
    <3>4. local' \in [Nodes -> Local]
      BY <1>0, <3>1, <3>3
    <3>5. /\ Rewrites(k, "InProgress")
          /\ jobs' \in [Names -> NodeScanJob \cup {NoJob}] /\ disturbed' \subseteq UIDs
      BY <1>1, <2>1, <2>3, <3>1, MarkRewrites
    <3> QED
      BY Zenon, <1>0, <2>1, <3>1, <3>4, <3>5 DEF WorkerStep
  <2> QED
    BY <2>2, <2>3
<1>6. CASE GenerateSBOM(k)
  <2>1. /\ UNCHANGED <<jobs, published, stream, task, counted, scanned, disturbed>>
        /\ sboms' = [sboms EXCEPT ![NodeOf[M(k).uid]] = local[k].owner]
        /\ \/ Goto(k, "publish") /\ UNCHANGED faults
           \/ Goto(k, "fail") /\ Fault
    BY Zenon, <1>6 DEF GenerateSBOM, Answer
  <2>2. local' \in [Nodes -> Local] /\ faults' \in Nat
    BY Zenon, <1>0, <1>3, <2>1, GotoTyped, FaultTyped
  <2>3. sboms' \in [Nodes -> 0..MaxConfigs]
    BY Zenon, <1>0, <2>1 DEF Local
  <2>4. Leaves /\ Disturbs
    BY Zenon, <2>1 DEF Leaves, Disturbs
  <2> QED
    BY Zenon, <1>0, <2>1, <2>2, <2>3, <2>4 DEF WorkerStep
<1>7. CASE GeneratePublish(k)
  <2>1. /\ UNCHANGED <<jobs, sboms, task, counted, scanned, disturbed>>
        /\ \/ Goto(k, "ack") /\ UNCHANGED faults
           \/ Goto(k, "fail") /\ Fault
        /\ \/ UNCHANGED <<published, stream>>
           \/ PublishNode(Message("scan", local[k].uid, M(k).uid))
        /\ Handling(k, "generate", "publish")
    BY Zenon, <1>7 DEF GeneratePublish, Answer
  <2>2. local' \in [Nodes -> Local] /\ faults' \in Nat
    BY <1>0, <1>3, <2>1, GotoTyped, FaultTyped
  <2>3. published' \in [NodeMessages -> 0..MaxCopies] /\ stream' \in [Entries -> Delivery]
    BY <1>0, <2>1, PublishTyped
  <2>4. Leaves /\ Disturbs
    BY Zenon, <2>1 DEF Leaves, Disturbs
  <2> QED
    BY Zenon, <1>0, <2>1, <2>2, <2>3, <2>4 DEF WorkerStep
<1> QED
  BY <1>4, <1>5, <1>6, <1>7

\* The steps of NodeScanSBOMHandler.
LEMMA ScanTyped ==
    ASSUME TypeOK, NEW k \in Nodes,
           ScanStart(k) \/ ScanMark(k) \/ ScanSBOM(k) \/ ScanComplete(k)
    PROVE  WorkerStep
<1> USE DEF configVars, jobVars, queueVars, historyVars
<1>0. /\ jobs \in [Names -> NodeScanJob \cup {NoJob}] /\ sboms \in [Nodes -> 0..MaxConfigs]
      /\ counted \in [UIDs -> Nat] /\ scanned \subseteq UIDs /\ disturbed \subseteq UIDs
      /\ faults \in Nat /\ published \in [NodeMessages -> 0..MaxCopies]
      /\ stream \in [Entries -> Delivery] /\ task \in [Nodes -> Task \cup {NoTask}]
      /\ local \in [Nodes -> Local]
  BY DEF TypeOK, NodeClusterTypeOK, QueueTypeOK, NodeWorkerTypeOK
<1>1. task[k] # NoTask
  BY Zenon DEF ScanStart, ScanMark, ScanSBOM, ScanComplete, Handling, At
<1>2. M(k).uid \in UIDs /\ NameOf[M(k).uid] \in Names
  BY Zenon, <1>1, TaskTyped
<1>3. {"ack", "mark", "sbom", "complete", "fail"} \subseteq PCs
  BY DEF PCs
<1>4. CASE ScanStart(k)
  <2>1. /\ UNCHANGED <<jobs, sboms, published, stream, task, counted, scanned, disturbed, faults>>
        /\ Goto(k, "ack") \/ Goto(k, "mark")
    BY Zenon, <1>4 DEF ScanStart
  <2>2. local' \in [Nodes -> Local] /\ Leaves /\ Disturbs
    BY Zenon, <1>3, <2>1, GotoTyped DEF Leaves, Disturbs
  <2> QED
    BY <1>0, <2>1, <2>2 DEF WorkerStep
<1>5. CASE ScanMark(k)
  <2>1. UNCHANGED <<sboms, published, stream, task, counted, scanned>>
    BY <1>5 DEF ScanMark
  <2>2. CASE Job(k) = NoJob
    <3>1. Goto(k, "ack") /\ UNCHANGED <<jobs, disturbed, faults>>
      BY <1>5, <2>2 DEF ScanMark, Stop
    <3>2. local' \in [Nodes -> Local] /\ Leaves /\ Disturbs
      BY Zenon, <1>3, <2>1, <3>1, GotoTyped DEF Leaves, Disturbs
    <3> QED
      BY <1>0, <2>1, <3>1, <3>2 DEF WorkerStep
  <2>3. CASE Job(k) # NoJob
    <3>1. WriteInProgress(k) /\ Goto(k, "sbom") /\ UNCHANGED faults
      BY <1>5, <2>3 DEF ScanMark
    <3>2. local' \in [Nodes -> Local]
      BY Zenon, <1>3, <3>1, GotoTyped
    <3>3. /\ Rewrites(k, "InProgress")
          /\ jobs' \in [Names -> NodeScanJob \cup {NoJob}] /\ disturbed' \subseteq UIDs
      BY <1>1, <2>1, <2>3, <3>1, MarkRewrites
    <3> QED
      BY <1>0, <2>1, <3>1, <3>2, <3>3 DEF WorkerStep
  <2> QED
    BY <2>2, <2>3
<1>6. CASE ScanSBOM(k)
  <2>1. /\ UNCHANGED <<jobs, sboms, published, stream, task, counted>>
        /\ scanned' \in {scanned, scanned \cup {M(k).uid}}
        /\ \/ Goto(k, "complete") /\ UNCHANGED faults
           \/ Goto(k, "fail") /\ Fault
           \/ Goto(k, "ack") /\ UNCHANGED faults
        /\ disturbed' = disturbed
           \/ (Job(k) # NoJob /\ disturbed' = disturbed \cup {Job(k).uid})
    BY Zenon, <1>6 DEF ScanSBOM, Answer, Stop, Drop
  <2>2. local' \in [Nodes -> Local] /\ faults' \in Nat
    BY Zenon, <1>0, <1>3, <2>1, GotoTyped, FaultTyped
  <2>3. disturbed' \subseteq UIDs /\ Leaves /\ Disturbs
    BY <1>0, <1>2, <2>1, JobTyped DEF Leaves, Disturbs, Job
  <2>4. scanned' \subseteq UIDs /\ scanned \subseteq scanned'
    BY Zenon, <1>0, <1>2, <2>1
  <2> QED
    BY Zenon, <1>0, <2>1, <2>2, <2>3, <2>4 DEF WorkerStep
<1>7. CASE ScanComplete(k)
  <2>1. /\ UNCHANGED <<sboms, published, stream, task, scanned>>
        /\ \/ Goto(k, "ack") /\ UNCHANGED faults
           \/ Goto(k, "fail") /\ Fault
        /\ Finish(k, "Complete") /\ Handling(k, "scan", "complete")
    BY <1>7 DEF ScanComplete, Answer, MarkComplete
  <2>2. local' \in [Nodes -> Local] /\ faults' \in Nat
    BY <1>0, <1>3, <2>1, GotoTyped, FaultTyped
  <2>3. /\ \/ Job(k) = NoJob /\ UNCHANGED <<jobs, counted, disturbed>>
           \/ Job(k) # NoJob /\ Rewrites(k, "Complete")
        /\ jobs' \in [Names -> NodeScanJob \cup {NoJob}] /\ disturbed' \subseteq UIDs
        /\ counted' \in [UIDs -> Nat]
    BY <1>1, <2>1, FinishRewrites
  <2> QED
    BY Zenon, <1>0, <2>1, <2>2, <2>3 DEF WorkerStep, Leaves, Disturbs
<1> QED
  BY <1>4, <1>5, <1>6, <1>7

\* What NatsSubscriber.Run does around the handlers.
LEMMA SubscriberTyped ==
    ASSUME TypeOK, NEW k \in Nodes,
           \/ \E e \in Entries : Receive(k, e) \/ AckWaitElapsed(e)
           \/ Acknowledge(k) \/ Crash(k) \/ HandlerError(k) \/ RetryLater(k)
           \/ GiveUp(k) \/ GiveUpSilently(k)
    PROVE  WorkerStep
<1> USE DEF configVars, jobVars, queueVars, historyVars
<1>0. /\ jobs \in [Names -> NodeScanJob \cup {NoJob}] /\ sboms \in [Nodes -> 0..MaxConfigs]
      /\ counted \in [UIDs -> Nat] /\ scanned \subseteq UIDs /\ disturbed \subseteq UIDs
      /\ faults \in Nat /\ published \in [NodeMessages -> 0..MaxCopies]
      /\ stream \in [Entries -> Delivery] /\ task \in [Nodes -> Task \cup {NoTask}]
      /\ local \in [Nodes -> Local]
  BY Zenon DEF TypeOK, NodeClusterTypeOK, QueueTypeOK, NodeWorkerTypeOK
<1>1. [Idle EXCEPT !.pc = "start"] \in Local /\ Idle \in Local
  BY NodeAssumption DEF Idle, Local
<1>2. {"ack", "fail"} \subseteq PCs
  BY DEF PCs
<1>3. ASSUME NEW e \in Entries, NEW st \in {"absent", "ready", "pending"}
      PROVE  [stream[e] EXCEPT !.st = st] \in Delivery
  BY <1>0 DEF Delivery
<1>4. ASSUME UNCHANGED <<jobs, sboms, counted, scanned, disturbed>>
      PROVE  Leaves /\ Disturbs
  BY Zenon, <1>4 DEF Leaves, Disturbs
<1>5. ASSUME NEW e \in Entries, Receive(k, e) PROVE WorkerStep
  <2> DEFINE n == IF stream[e].n < MaxDeliver THEN stream[e].n + 1 ELSE MaxDeliver
  <2>1. /\ stream' = [stream EXCEPT ![e] = [st |-> "pending", n |-> n]]
        /\ task' = [task EXCEPT ![k] = [entry |-> e, n |-> n]]
        /\ local' = [local EXCEPT ![k] = [Idle EXCEPT !.pc = "start"]]
        /\ UNCHANGED <<published, jobs, sboms, counted, scanned, disturbed, faults>>
    BY <1>5 DEF Receive, Deliver
  <2>2. n \in 0..MaxDeliver
    BY <1>0, NodeAssumption DEF Delivery
  <2> HIDE DEF n
  <2>3. [st |-> "pending", n |-> n] \in Delivery /\ [entry |-> e, n |-> n] \in Task
    BY <2>2 DEF Delivery, Task
  <2>4. /\ stream' \in [Entries -> Delivery] /\ task' \in [Nodes -> Task \cup {NoTask}]
        /\ local' \in [Nodes -> Local]
    BY <1>0, <1>1, <2>1, <2>3
  <2> QED
    BY <1>0, <1>4, <2>1, <2>4 DEF WorkerStep
<1>6. ASSUME NEW e \in Entries, AckWaitElapsed(e) PROVE WorkerStep
  <2>1. /\ stream' = [stream EXCEPT ![e] = [stream[e] EXCEPT !.st = "ready"]]
        /\ UNCHANGED <<published, task, jobs, sboms, counted, scanned, disturbed, local>>
        /\ Fault \/ UNCHANGED faults
    BY <1>6 DEF AckWaitElapsed, Redeliver
  <2>2. stream' \in [Entries -> Delivery] /\ faults' \in Nat
    BY Zenon, <1>0, <1>3, <2>1, FaultTyped
  <2> QED
    BY <1>0, <1>4, <2>1, <2>2 DEF WorkerStep
<1>7. CASE Acknowledge(k) \/ RetryLater(k) \/ Crash(k)
  <2>1. task[k].entry \in Entries
    BY Zenon, <1>7, TaskTyped DEF Acknowledge, RetryLater, Crash, At
  <2>2. /\ task' = [task EXCEPT ![k] = NoTask] /\ local' = [local EXCEPT ![k] = Idle]
        /\ UNCHANGED <<published, jobs, sboms, counted, scanned, disturbed>>
        /\ Fault \/ UNCHANGED faults
        /\ \/ UNCHANGED stream
           \/ \E st \in {"absent", "ready", "pending"} :
                 stream' = [stream EXCEPT ![task[k].entry] =
                               [stream[task[k].entry] EXCEPT !.st = st]]
    <3>1. CASE Acknowledge(k)
      BY <3>1 DEF Acknowledge, Ack
    <3>2. CASE RetryLater(k)
      BY Zenon, <3>2 DEF RetryLater, Nak
    <3>3. CASE Crash(k)
      BY <3>3 DEF Crash, Abandon
    <3> QED
      BY Zenon, <1>7, <3>1, <3>2, <3>3
  <2>3. stream' \in [Entries -> Delivery]
    <3>1. ASSUME NEW st \in {"absent", "ready", "pending"},
                 stream' = [stream EXCEPT ![task[k].entry] =
                               [stream[task[k].entry] EXCEPT !.st = st]]
          PROVE  stream' \in [Entries -> Delivery]
      <4>1. [stream[task[k].entry] EXCEPT !.st = st] \in Delivery
        BY Zenon, <1>0, <1>3, <2>1
      <4> QED
        BY Zenon, <1>0, <3>1, <4>1
    <3> QED
      BY Zenon, <1>0, <2>2, <3>1
  <2>4. /\ task' \in [Nodes -> Task \cup {NoTask}] /\ local' \in [Nodes -> Local]
        /\ faults' \in Nat
    BY <1>0, <1>1, <2>2, FaultTyped
  <2> QED
    BY <1>0, <1>4, <2>2, <2>3, <2>4 DEF WorkerStep
<1>8. CASE HandlerError(k)
  <2>1. /\ Goto(k, "fail") /\ Fault
        /\ UNCHANGED <<published, stream, task, jobs, sboms, counted, scanned, disturbed>>
    BY Zenon, <1>8 DEF HandlerError
  <2>2. local' \in [Nodes -> Local] /\ faults' \in Nat
    BY Zenon, <1>2, <2>1, GotoTyped, FaultTyped
  <2> QED
    BY <1>0, <1>4, <2>1, <2>2 DEF WorkerStep
<1>9. CASE GiveUp(k)
  <2>1. /\ UNCHANGED <<sboms, published, stream, task, scanned, faults>>
        /\ Goto(k, "ack") /\ Finish(k, "Failed") /\ task[k] # NoTask
    BY Zenon, <1>9 DEF GiveUp, MarkFailed, At
  <2>2. local' \in [Nodes -> Local]
    BY Zenon, <1>2, <2>1, GotoTyped
  <2>3. /\ \/ Job(k) = NoJob /\ UNCHANGED <<jobs, counted, disturbed>>
           \/ Job(k) # NoJob /\ Rewrites(k, "Failed")
        /\ jobs' \in [Names -> NodeScanJob \cup {NoJob}] /\ disturbed' \subseteq UIDs
        /\ counted' \in [UIDs -> Nat]
    BY Zenon, <2>1, FinishRewrites
  <2> QED
    BY Zenon, <1>0, <2>1, <2>2, <2>3 DEF WorkerStep, Leaves, Disturbs
<1>10. CASE GiveUpSilently(k)
  <2>1. /\ UNCHANGED <<jobs, sboms, published, stream, task, counted, scanned>>
        /\ Goto(k, "ack") /\ Fault /\ disturbed' = disturbed \cup {M(k).uid} /\ task[k] # NoTask
    BY Zenon, <1>10 DEF GiveUpSilently, At
  <2>2. local' \in [Nodes -> Local] /\ faults' \in Nat
    BY Zenon, <1>2, <2>1, GotoTyped, FaultTyped
  <2>3. disturbed' \subseteq UIDs /\ Leaves /\ Disturbs
    BY Zenon, <1>0, <2>1, TaskTyped DEF Leaves, Disturbs
  <2> QED
    BY Zenon, <1>0, <2>1, <2>2, <2>3 DEF WorkerStep
<1> QED
  BY <1>5, <1>6, <1>7, <1>8, <1>9, <1>10

\* The workers, and nothing else of the cluster and the controllers.
LEMMA WorkerSteps ==
    ASSUME TypeOK, Worker
    PROVE  /\ WorkerStep /\ TypeOK'
           /\ UNCHANGED <<config, configs, nodes, created, changes, jobCache, configQueue,
                          nodeQueue, jobQueue, rec, cycle>>
<1>1. UNCHANGED <<config, configs, nodes, created, changes, jobCache, configQueue,
                  nodeQueue, jobQueue, rec, cycle>>
  BY DEF Worker, configVars, controllerVars, workVars
<1>2. WorkerStep
  <2>1. ASSUME NEW k \in Nodes, Subscribe(k) PROVE WorkerStep
    BY <2>1, GenerateTyped, ScanTyped, SubscriberTyped, Zenon DEF Subscribe, Handle
  <2>2. ASSUME NEW k \in Nodes, Mishap(k) PROVE WorkerStep
    BY <2>2, SubscriberTyped, Zenon DEF Mishap
  <2>3. ASSUME NEW e \in Entries, AckWaitElapsed(e) PROVE WorkerStep
    <3>1. \E k \in Nodes : TRUE
      BY Zenon, NodeAssumption DEF Entries, NodeMessages, Message
    <3> QED
      BY <2>3, <3>1, SubscriberTyped, Zenon
  <2> QED
    BY <2>1, <2>2, <2>3, Zenon DEF Worker
<1> QED
  BY Zenon, <1>1, <1>2 DEF WorkerStep, TypeOK, NodeClusterTypeOK, QueueTypeOK,
                             NodeControllersTypeOK,
                    NodeWorkerTypeOK

-----------------------------------------------------------------------------
\* The configuration is deleted, changed or created anew.
ConfigMoves ==
    \/ config' = NoConfig /\ configs' = configs
    \/ config # NoConfig /\ config' # NoConfig /\ config'.uid = config.uid /\ configs' = configs
    \/ /\ config = NoConfig /\ config' # NoConfig
       /\ config'.uid = configs + 1 /\ configs' = configs + 1

\* The steps of the cluster and the controllers, by what they do to the jobs and
\* to what the controllers hold.  Nothing is done but deletions:
Shrinks ==
    /\ \A n \in Names : jobs'[n] \in {NoJob, jobs[n]}
    /\ ConfigMoves
    /\ UNCHANGED <<created, published, stream, task, counted, scanned, disturbed, jobCache,
                   jobQueue, rec, local>>

\* job u is created;
Born(u) ==
    /\ u \notin created /\ created' = created \cup {u}
    /\ jobs[NameOf[u]] = NoJob /\ jobs'[NameOf[u]] \in NodeScanJob
    /\ jobs'[NameOf[u]].uid = u /\ jobs'[NameOf[u]].owner = 0
    /\ jobs'[NameOf[u]].status = "Unset"
    /\ \A n \in Names \ {NameOf[u]} : jobs'[n] = jobs[n]
    /\ UNCHANGED <<config, configs, published, stream, task, counted, scanned, disturbed,
                   jobCache, jobQueue, rec, local>>

\* the cache catches up with job n;
Synced(n) ==
    /\ jobCache[n] # jobs[n] /\ jobCache'[n] = jobs[n] /\ jobQueue' = Requeued(n, jobs[n])
    /\ \A m \in Names \ {n} : jobCache'[m] = jobCache[m]
    /\ UNCHANGED <<config, configs, jobs, created, published, stream, task, counted, scanned,
                   disturbed, rec, local>>

\* the controllers start afresh;
Restarted ==
    /\ jobCache' = jobs /\ jobQueue' = {n \in Names : Pending(jobs[n])}
    /\ \A n \in Names : rec'[n] = NoRec
    /\ UNCHANGED <<config, configs, jobs, created, published, stream, task, counted, scanned,
                   disturbed, local>>

\* the reconciliation of n updates the status, if it can.
Released(n) ==
    /\ rec[n] # NoRec /\ rec'[n] = NoRec
    /\ \A m \in Names \ {n} : rec'[m] = rec[m] /\ jobs'[m] = jobs[m]
    /\ UNCHANGED <<config, configs, created, published, stream, task, scanned, disturbed,
                   jobCache, local>>

Updated(n) ==
    /\ Released(n)
    /\ jobs[n] # NoJob /\ jobs[n] = rec[n].copy
    /\ jobs'[n] = [jobs[n] EXCEPT !.status = rec[n].status] /\ jobs'[n] \in NodeScanJob
    /\ \A v \in UIDs \ {jobs[n].uid} : counted'[v] = counted[v]
    /\ counted'[jobs[n].uid] =
          counted[jobs[n].uid] + (IF JobFinished(rec[n].status) THEN 1 ELSE 0)
    /\ jobQueue' = IF rec[n].retry THEN Requeued(n, jobCache[n]) ELSE jobQueue

Retried(n) ==
    /\ Released(n)
    /\ jobs'[n] = jobs[n] /\ counted' = counted /\ jobQueue' = Requeued(n, jobCache[n])

\* One of them happens, or a step of a worker, which leaves alone what the
\* controllers have.
Controlled ==
    \/ Shrinks \/ (\E u \in UIDs : Born(u)) \/ Restarted
    \/ \E n \in Names : Synced(n) \/ (Takes(n) /\ UNCHANGED local) \/ Updated(n) \/ Retried(n)

WorkerOnly ==
    /\ Worker /\ WorkerStep
    /\ UNCHANGED <<config, configs, created, jobCache, jobQueue, rec>>

-----------------------------------------------------------------------------
\* What users do to jobs and configurations.
LEMMA UsersControl ==
    ASSUME TypeOK, Users PROVE Controlled
<1> USE DEF configVars, jobVars, queueVars, historyVars
<1>1. UNCHANGED <<published, stream, task, counted, scanned, disturbed, jobCache, jobQueue, rec,
                  local>>
  BY DEF Users
<1>2. ASSUME UNCHANGED <<jobs, created>>, ConfigMoves PROVE Controlled
  BY <1>1, <1>2 DEF Controlled, Shrinks
<1>3. CASE CreateConfig
  <2>0. configs + 1 \in 1..MaxConfigs
    BY SMTT(30), <1>3, NodeAssumption DEF CreateConfig, TypeOK, NodeClusterTypeOK
  <2>1. [uid |-> configs + 1, enabled |-> TRUE, selects |-> Nodes, rescan |-> FALSE]
           \in Configuration
    BY <2>0 DEF Configuration
  <2>2. ConfigMoves
    BY Zenon, <1>3, <2>1, NodeAssumption DEF CreateConfig, ConfigMoves
  <2> QED
    BY <1>2, <1>3, <2>2 DEF CreateConfig
<1>4. CASE UpdateConfig
  <2>1. config # NoConfig /\ config \in Configuration /\ configs' = configs
    BY <1>4 DEF UpdateConfig, TypeOK, NodeClusterTypeOK
  <2>2. config' \in Configuration /\ config'.uid = config.uid
    <3>1. ASSUME NEW k \in Nodes
          PROVE  (IF k \in config.selects THEN config.selects \ {k} ELSE config.selects \cup {k})
                    \in SUBSET Nodes
      BY <2>1 DEF Configuration
    <3>2. CASE config' = [config EXCEPT !.enabled = ~@]
      BY Zenon, <2>1, <3>2 DEF Configuration
    <3>3. CASE config' = [config EXCEPT !.rescan = TRUE]
      BY Zenon, <2>1, <3>3 DEF Configuration
    <3>4. ASSUME NEW k \in Nodes,
                 config' = [config EXCEPT !.selects = IF k \in @ THEN @ \ {k} ELSE @ \cup {k}]
          PROVE  config' \in Configuration /\ config'.uid = config.uid
      BY <2>1, <3>1, <3>4 DEF Configuration
    <3> QED
      BY <1>4, <3>2, <3>3, <3>4 DEF UpdateConfig
  <2>3. ConfigMoves
    BY <2>1, <2>2, NodeAssumption DEF ConfigMoves
  <2> QED
    BY <1>2, <1>4, <2>3 DEF UpdateConfig
<1>5. CASE DeleteConfig
  BY <1>2, <1>5 DEF DeleteConfig, ConfigMoves
<1>6. ASSUME NEW k \in Nodes, ChangeNode(k) PROVE Controlled
  BY <1>2, <1>6 DEF ChangeNode, ConfigMoves
<1>7. ASSUME NEW u \in UIDs, CreateJob(u) PROVE Controlled
  <2>1. Create(u) /\ UNCHANGED <<config, configs>>
    BY Zenon, <1>7 DEF CreateJob
  <2>2. Born(u)
    BY Zenon, <1>1, <2>1, CreateTyped DEF Born
  <2> QED
    BY <2>2 DEF Controlled
<1>8. ASSUME NEW n \in Names, DeleteJob(n) PROVE Controlled
  <2>1. Deleted({n}) /\ UNCHANGED <<config, configs, created>>
    BY <1>8 DEF DeleteJob
  <2>2. Shrinks
    BY Zenon, <1>1, <2>1, DeletedTyped DEF Shrinks, ConfigMoves
  <2> QED
    BY <2>2 DEF Controlled
<1> QED
  BY <1>3, <1>4, <1>5, <1>6, <1>7, <1>8, Zenon DEF Users

\* The garbage collector and the reconcilers that clean up only delete.
LEMMA CleanupControls ==
    ASSUME TypeOK,
           CollectGarbage \/ (/\ ReconcileConfig \/ \E k \in Nodes : ReconcileNode(k)
                              /\ UNCHANGED local)
    PROVE  Controlled
<1> USE DEF configVars, jobVars, queueVars, historyVars, controllerVars, workVars
<1>1. UNCHANGED <<config, configs, created, published, stream, task, counted, scanned,
                  disturbed, jobCache, jobQueue, rec, local>>
  BY Zenon DEF CollectGarbage, ReconcileConfig, ReconcileNode
<1>2. \A n \in Names : jobs'[n] \in {NoJob, jobs[n]}
  <2>1. ASSUME NEW ns, Deleted(ns) PROVE \A n \in Names : jobs'[n] \in {NoJob, jobs[n]}
    BY <2>1, DeletedTyped
  <2> QED
    BY Zenon, <2>1 DEF CollectGarbage, ReconcileConfig, ReconcileNode
<1>3. Shrinks
  BY Zenon, <1>1, <1>2 DEF Shrinks, ConfigMoves
<1> QED
  BY <1>3 DEF Controlled

\* The watch of the jobs, the runner and a restart.
LEMMA RunnerControls ==
    ASSUME TypeOK, Watches \/ Runner \/ (RestartControllers /\ UNCHANGED local)
    PROVE  Controlled
<1> USE DEF configVars, jobVars, queueVars, historyVars, controllerVars, workVars
<1>1. UNCHANGED <<configs, published, stream, task, counted, scanned, disturbed, local>>
  BY Zenon DEF Watches, Runner, SyncJob, StartCycle, ScanNode, PassNode, EndCycle, RestartControllers
<1>2. ASSUME NEW n \in Names, SyncJob(n) PROVE Controlled
  <2>1. /\ jobCache[n] # jobs[n] /\ jobCache' = [jobCache EXCEPT ![n] = jobs[n]]
        /\ jobQueue' = Requeued(n, jobs[n]) /\ UNCHANGED <<config, jobs, created, rec>>
    BY Zenon, <1>2 DEF SyncJob
  <2>2. jobCache'[n] = jobs[n] /\ \A m \in Names \ {n} : jobCache'[m] = jobCache[m]
    BY <2>1 DEF TypeOK, NodeControllersTypeOK
  <2>3. Synced(n)
    BY Zenon, <1>1, <2>1, <2>2 DEF Synced
  <2> QED
    BY <2>3 DEF Controlled
<1>3. CASE RestartControllers
  <2>1. \A n \in Names : rec'[n] = NoRec
    BY Zenon, <1>3 DEF RestartControllers
  <2>2. Restarted
    BY Zenon, <1>1, <1>3, <2>1 DEF RestartControllers, Restarted
  <2> QED
    BY <2>2 DEF Controlled
<1>4. ASSUME NEW k \in Nodes, ScanNode(k) PROVE Controlled
  <2>1. PICK u \in UIDs : Create(u)
    BY Zenon, <1>4 DEF ScanNode, Unborn
  <2>2. Born(u)
    BY ZenonT(30), <1>1, <1>4, <2>1, CreateTyped DEF Born, ScanNode
  <2> QED
    BY <2>2 DEF Controlled
<1>5. ASSUME StartCycle \/ (\E k \in Nodes : PassNode(k)) \/ EndCycle PROVE Controlled
  <2>1. UNCHANGED <<jobs, created, jobCache, jobQueue, rec>>
    BY <1>5 DEF StartCycle, PassNode, EndCycle
  <2>2. config' = config \/ (config # NoConfig /\ config' = [config EXCEPT !.rescan = FALSE])
    BY Zenon, <1>5 DEF StartCycle, PassNode, EndCycle
  <2>3. config \in Configuration \cup {NoConfig}
    BY DEF TypeOK, NodeClusterTypeOK
  <2>4. ConfigMoves
    <3>1. CASE config' = config
      BY <1>1, <3>1 DEF ConfigMoves
    <3>2. CASE config # NoConfig /\ config' = [config EXCEPT !.rescan = FALSE]
      <4>1. config' \in Configuration /\ config'.uid = config.uid
        BY Zenon, <2>3, <3>2 DEF Configuration
      <4> QED
        BY <1>1, <3>2, <4>1, NodeAssumption DEF ConfigMoves
    <3> QED
      BY <2>2, <3>1, <3>2
  <2>5. Shrinks
    BY <1>1, <2>1, <2>4 DEF Shrinks
  <2> QED
    BY <2>5 DEF Controlled
<1> QED
  BY <1>2, <1>3, <1>4, <1>5, Zenon DEF Watches, Runner

\* The reconciliations of jobs.
LEMMA ReconcileControls ==
    ASSUME TypeOK, NEW n \in Names, \A m \in jobQueue : jobCache[m] # NoJob,
           ReconcileJob(n), UNCHANGED local
    PROVE  Controlled
<1> USE DEF configVars, jobVars, queueVars, historyVars, controllerVars, workVars
<1>1. CASE RejectJob(n) \/ SnapshotConfiguration(n) \/ ScheduleJob(n) \/ FailReconcile(n)
  <2>1. Takes(n)
    BY <1>1, ReconcileTakes
  <2> QED
    BY <2>1, Zenon DEF Controlled
<1>2. CASE UpdateJobStatus(n) \/ RetryJob(n)
  <2>1. /\ rec[n] # NoRec /\ rec \in [Names -> Reconciliation \cup {NoRec}]
        /\ jobs \in [Names -> NodeScanJob \cup {NoJob}]
    BY Zenon, <1>2 DEF UpdateJobStatus, RetryJob, TypeOK, NodeControllersTypeOK, NodeClusterTypeOK
  <2>2. /\ rec' = [rec EXCEPT ![n] = NoRec]
        /\ UNCHANGED <<config, configs, created, published, stream, task, scanned, disturbed,
                       jobCache>>
    BY <1>2, TypeFinish
  <2>3. rec'[n] = NoRec /\ \A m \in Names \ {n} : rec'[m] = rec[m]
    BY <2>1, <2>2
  <2>4. CASE UpdateJobStatus(n)
    <3>1. /\ jobs[n] # NoJob /\ jobs[n] = rec[n].copy /\ WriteStatus(n, rec[n].status)
          /\ RecordFinished(jobs[n].uid, rec[n].status)
          /\ jobQueue' = IF rec[n].retry THEN Requeued(n, jobCache[n]) ELSE jobQueue
      BY Zenon, <2>4 DEF UpdateJobStatus, StatusUpdateAccepted
    <3>2. rec[n].status \in Status /\ jobs[n].uid \in UIDs
      BY Zenon, <2>1, <3>1 DEF Reconciliation, NodeScanJob
    <3>3. /\ jobs'[n] = [jobs[n] EXCEPT !.status = rec[n].status] /\ jobs'[n] \in NodeScanJob
          /\ \A m \in Names \ {n} : jobs'[m] = jobs[m]
      BY <3>1, <3>2, StatusTyped
    <3>4. /\ \A v \in UIDs \ {jobs[n].uid} : counted'[v] = counted[v]
          /\ counted'[jobs[n].uid] =
                counted[jobs[n].uid] + (IF JobFinished(rec[n].status) THEN 1 ELSE 0)
      BY Zenon, <3>1, <3>2, RecordTyped
    <3>5. Released(n)
      BY <2>1, <2>2, <2>3, <3>3 DEF Released
    <3>6. Updated(n)
      BY <3>1, <3>3, <3>4, <3>5 DEF Updated
    <3> QED
      BY <3>6, Zenon DEF Controlled
  <2>5. CASE RetryJob(n)
    <3>1. UNCHANGED <<jobs, counted>> /\ jobQueue' = Requeued(n, jobCache[n])
      BY <2>5 DEF RetryJob
    <3>2. Retried(n)
      BY <2>1, <2>2, <2>3, <3>1 DEF Retried, Released
    <3> QED
      BY <3>2, Zenon DEF Controlled
  <2> QED
    BY <1>2, <2>4, <2>5
<1> QED
  BY <1>1, <1>2 DEF ReconcileJob

\* Every step is one of them.
LEMMA Steps ==
    ASSUME TypeOK, \A m \in jobQueue : jobCache[m] # NoJob, [Next]_vars
    PROVE  TypeOK' /\ (Controlled \/ WorkerOnly)
<1>1. CASE UNCHANGED vars
  <2>1. TypeOK'
    BY Zenon, <1>1 DEF vars, TypeOK, NodeClusterTypeOK, QueueTypeOK, NodeControllersTypeOK,
                NodeWorkerTypeOK
  <2>2. Shrinks
    BY Zenon, <1>1 DEF vars, Shrinks, ConfigMoves
  <2> QED
    BY <2>1, <2>2 DEF Controlled
<1>2. CASE Users
  BY <1>2, TypeUsers, UsersControl
<1>3. CASE CollectGarbage
  BY <1>3, TypeCleanup, CleanupControls
<1>4. CASE Watches \/ Runner \/ (RestartControllers /\ UNCHANGED local)
  BY <1>4, TypeRunner, RunnerControls
<1>5. CASE Reconcilers
  <2>1. ASSUME NEW n \in Names, ReconcileJob(n), UNCHANGED local PROVE TypeOK' /\ Controlled
    BY <2>1, TypeReconcile, ReconcileControls
  <2>2. CASE (ReconcileConfig \/ \E k \in Nodes : ReconcileNode(k)) /\ UNCHANGED local
    BY <2>2, TypeCleanup, CleanupControls
  <2> QED
    BY <1>5, <2>1, <2>2, Zenon DEF Reconcilers
<1>6. CASE Worker
  BY <1>6, WorkerSteps DEF WorkerOnly
<1> QED
  BY <1>1, <1>2, <1>3, <1>4, <1>5, <1>6 DEF Next

-----------------------------------------------------------------------------
\* The types of the jobs and of their copies.
LEMMA ObjectsTyped ==
    ASSUME TypeOK
    PROVE  /\ \A n \in Names : /\ jobs[n] # NoJob => jobs[n] \in NodeScanJob
                               /\ jobCache[n] # NoJob => jobCache[n] \in NodeScanJob
                               /\ rec[n] # NoRec => /\ rec[n] \in Reconciliation
                                                    /\ rec[n].copy \in NodeScanJob
                                                    /\ rec[n].status \in Status
           /\ configs \in Nat /\ created \subseteq UIDs /\ disturbed \subseteq UIDs
           /\ counted \in [UIDs -> Nat] /\ jobQueue \subseteq Names
           /\ config # NoConfig => config \in Configuration /\ config.uid \in Nat \ {0}
<1>1. /\ jobs \in [Names -> NodeScanJob \cup {NoJob}]
      /\ jobCache \in [Names -> NodeScanJob \cup {NoJob}]
      /\ rec \in [Names -> Reconciliation \cup {NoRec}]
      /\ configs \in 0..MaxConfigs /\ created \subseteq UIDs /\ disturbed \subseteq UIDs
      /\ counted \in [UIDs -> Nat] /\ jobQueue \subseteq Names
      /\ config \in Configuration \cup {NoConfig}
  BY DEF TypeOK, NodeClusterTypeOK, NodeControllersTypeOK
<1>2. \A r \in Reconciliation : r.copy \in NodeScanJob /\ r.status \in Status
  BY DEF Reconciliation
<1>3. \A c \in Configuration : c.uid \in Nat \ {0}
  BY DEF Configuration
<1> QED
  BY SMTT(30), <1>1, <1>2, <1>3, NodeAssumption

\* What a rewritten job keeps.
LEMMA StatusOnly ==
    ASSUME NEW j \in NodeScanJob, NEW s
    PROVE  LET i == [j EXCEPT !.status = s]
           IN  i.uid = j.uid /\ i.stamp = j.stamp /\ i.owner = j.owner /\ i.status = s
BY DEF NodeScanJob

\* The same of a job that is given an owner.
LEMMA OwnerOnly ==
    ASSUME NEW j \in NodeScanJob, NEW o
    PROVE  LET i == [j EXCEPT !.owner = o]
           IN  i.uid = j.uid /\ i.stamp = j.stamp /\ i.owner = o /\ i.status = j.status
BY DEF NodeScanJob

\* The objects change by steps of a worker in their status only.
LEMMA WorkerObjects ==
    ASSUME TypeOK, WorkerOnly
    PROVE  /\ \A n \in Names : jobs'[n] # NoJob =>
                  /\ jobs[n] # NoJob
                  /\ jobs'[n].uid = jobs[n].uid /\ jobs'[n].stamp = jobs[n].stamp
                  /\ jobs'[n].owner = jobs[n].owner
                  /\ jobs'[n] = jobs[n]
                     \/ jobs'[n].status \in {"InProgress", "Complete", "Failed"}
           /\ disturbed \subseteq disturbed'
<1>1. CASE \E k \in Nodes, s \in {"InProgress", "Complete", "Failed"} : Rewrites(k, s)
  <2>1. PICK k \in Nodes, s \in {"InProgress", "Complete", "Failed"} : Rewrites(k, s)
    BY <1>1
  <2> DEFINE m == NameOf[M(k).uid]
  <2>2. /\ jobs[m] # NoJob /\ jobs'[m] = [jobs[m] EXCEPT !.status = s] /\ task[k] # NoTask
        /\ \A n \in Names \ {m} : jobs'[n] = jobs[n]
        /\ disturbed \subseteq disturbed'
    BY Zenon, <2>1 DEF Rewrites
  <2>3. m \in Names
    BY <2>2, TaskTyped
  <2> HIDE DEF m
  <2>4. jobs[m] \in NodeScanJob
    BY <2>2, <2>3, ObjectsTyped
  <2>5. /\ jobs'[m].uid = jobs[m].uid /\ jobs'[m].stamp = jobs[m].stamp
        /\ jobs'[m].owner = jobs[m].owner /\ jobs'[m].status = s
    BY <2>2, <2>4, StatusOnly
  <2> QED
    BY Zenon, <2>2, <2>3, <2>5
<1>2. CASE Leaves /\ Disturbs
  BY <1>2 DEF Leaves
<1> QED
  BY Zenon, <1>1, <1>2 DEF WorkerOnly, WorkerStep

\* Who is disturbed or counted has been created.
LEMMA WorkerHistory ==
    ASSUME TypeOK, Identity, Causality, WorkerOnly, NEW u \in UIDs \ created
    PROVE  counted'[u] = counted[u] /\ u \notin disturbed'
<1>0. u \notin disturbed
  BY Zenon DEF Identity
<1>1. CASE \E k \in Nodes, s \in {"InProgress", "Complete", "Failed"} : Rewrites(k, s)
  <2>1. PICK k \in Nodes, s \in {"InProgress", "Complete", "Failed"} : Rewrites(k, s)
    BY <1>1
  <2> DEFINE m == NameOf[M(k).uid]
  <2>2. /\ jobs[m] # NoJob /\ task[k] # NoTask
        /\ disturbed' \subseteq disturbed \cup {jobs[m].uid}
        /\ \A v \in UIDs \ {jobs[m].uid} : counted'[v] = counted[v]
    BY Zenon, <2>1 DEF Rewrites
  <2>3. m \in Names
    BY Zenon, <2>2, TaskTyped
  <2> HIDE DEF m
  <2>4. jobs[m].uid \in created
    BY Zenon, <2>2, <2>3 DEF Identity, CopyOf
  <2> QED
    BY Zenon, <1>0, <2>2, <2>4
<1>2. CASE Leaves /\ Disturbs
  <2>1. \A n \in Names : jobs[n] # NoJob => jobs[n].uid \in created
    BY Zenon DEF Identity, CopyOf
  <2>2. \A k \in Nodes : task[k] # NoTask => M(k).uid \in created
    <3>1. ASSUME NEW k \in Nodes, task[k] # NoTask PROVE M(k).uid \in created
      <4>1. M(k) \in NodeMessages /\ published[M(k)] > 0
        BY Zenon, <3>1, TaskTyped DEF Causality
      <4> QED
        BY <4>1 DEF Causality
    <3> QED
      BY <3>1
  <2> QED
    BY <1>0, <1>2, <2>1, <2>2 DEF Leaves, Disturbs
<1> QED
  BY <1>1, <1>2 DEF WorkerOnly, WorkerStep

-----------------------------------------------------------------------------
\* Names and UIDs stay as they are, and copies are of objects that existed.
LEMMA IdentityStep ==
    ASSUME TypeOK, Identity, Causality, Held, Controlled \/ WorkerOnly
    PROVE  Identity'
<1>0. /\ config # NoConfig => config.uid = configs
      /\ \A n \in Names : /\ jobs[n] # NoJob => CopyOf(n, jobs[n])
                          /\ jobCache[n] # NoJob => CopyOf(n, jobCache[n])
                          /\ rec[n] # NoRec => CopyOf(n, rec[n].copy)
      /\ \A u \in UIDs \ created : counted[u] = 0 /\ u \notin disturbed
  BY DEF Identity
<1>00. /\ configs \in Nat /\ created \subseteq UIDs
       /\ \A n \in Names : /\ jobs[n] # NoJob => jobs[n] \in NodeScanJob /\ jobs[n].owner \in Nat
                           /\ jobCache[n] # NoJob => jobCache[n].owner \in Nat
                           /\ rec[n] # NoRec => rec[n].copy.owner \in Nat
  BY ObjectsTyped, JobTyped, NodeAssumption
<1>1. CASE Shrinks
  <2>1. /\ configs' \in Nat /\ configs <= configs'
        /\ config' # NoConfig => config'.uid = configs'
    <3>1. configs + 1 \in Nat /\ configs <= configs + 1 /\ configs <= configs
      BY <1>00
    <3>2. \/ configs' = configs /\ (config' # NoConfig => config'.uid = configs)
          \/ configs' = configs + 1 /\ config'.uid = configs + 1
      BY Zenon, <1>0, <1>1 DEF Shrinks, ConfigMoves
    <3> QED
      BY Zenon, <1>00, <3>1, <3>2
  <2>2. /\ \A n \in Names : jobs'[n] \in {NoJob, jobs[n]}
        /\ UNCHANGED <<created, counted, disturbed, jobCache, rec>>
    BY Zenon, <1>1 DEF Shrinks
  <2>3. \A a \in Nat : a <= configs => a <= configs'
    BY <1>00, <2>1
  <2>4. ASSUME NEW n \in Names
        PROVE  /\ jobs'[n] # NoJob => CopyOf(n, jobs[n])'
               /\ jobCache'[n] # NoJob => CopyOf(n, jobCache[n])'
               /\ rec'[n] # NoRec => CopyOf(n, rec[n].copy)'
    <3>1. jobs'[n] # NoJob => CopyOf(n, jobs[n])'
      BY Zenon, <1>0, <1>00, <2>2, <2>3 DEF CopyOf
    <3>2. jobCache'[n] # NoJob => CopyOf(n, jobCache[n])'
      BY Zenon, <1>0, <1>00, <2>2, <2>3 DEF CopyOf
    <3>3. rec'[n] # NoRec => CopyOf(n, rec[n].copy)'
      BY Zenon, <1>0, <1>00, <2>2, <2>3 DEF CopyOf
    <3> QED
      BY Zenon, <3>1, <3>2, <3>3
  <2> QED
    BY Zenon, <1>0, <2>1, <2>2, <2>4 DEF Identity
<1>2. ASSUME NEW u \in UIDs, Born(u) PROVE Identity'
  <2>1. /\ NameOf[u] \in Names
        /\ \A n \in Names \ {NameOf[u]} : jobs'[n] = jobs[n]
        /\ jobs'[NameOf[u]].uid = u /\ jobs'[NameOf[u]].owner = 0
        /\ created' = created \cup {u}
        /\ UNCHANGED <<config, configs, counted, disturbed, jobCache, rec>>
    BY Zenon, <1>2, NodeAssumption DEF Born
  <2>2. \A n \in Names : jobs'[n] # NoJob => CopyOf(n, jobs[n])'
    <3>1. 0 <= configs
      BY <1>00
    <3>2. CopyOf(NameOf[u], jobs[NameOf[u]])'
      BY Zenon, <2>1, <3>1 DEF CopyOf
    <3>3. ASSUME NEW n \in Names, n # NameOf[u], jobs'[n] # NoJob PROVE CopyOf(n, jobs[n])'
      BY Zenon, <1>0, <2>1, <3>3 DEF CopyOf
    <3> QED
      BY Zenon, <3>2, <3>3
  <2> QED
    BY Zenon, <1>0, <2>1, <2>2 DEF Identity, CopyOf
<1>3. CASE Restarted
  BY Zenon, <1>0, <1>3 DEF Restarted, Identity, CopyOf
<1>4. ASSUME NEW n \in Names, Synced(n) PROVE Identity'
  <2>1. /\ jobCache'[n] = jobs[n] /\ \A m \in Names \ {n} : jobCache'[m] = jobCache[m]
        /\ UNCHANGED <<config, configs, jobs, created, counted, disturbed, rec>>
    BY Zenon, <1>4 DEF Synced
  <2>2. ASSUME NEW m \in Names, jobCache'[m] # NoJob PROVE CopyOf(m, jobCache[m])'
    <3>1. CASE m = n
      BY Zenon, <1>0, <2>1, <2>2, <3>1 DEF CopyOf
    <3>2. CASE m # n
      BY Zenon, <1>0, <2>1, <2>2, <3>2 DEF CopyOf
    <3> QED
      BY Zenon, <3>1, <3>2
  <2> QED
    BY Zenon, <1>0, <2>1, <2>2 DEF Identity, CopyOf
<1>5. ASSUME NEW n \in Names, Takes(n) PROVE Identity'
  <2>1. /\ \A m \in Names \ {n} : rec'[m] = rec[m] /\ jobs'[m] \in {NoJob, jobs[m]}
        /\ UNCHANGED <<config, configs, created, counted, disturbed, jobCache>>
        /\ n \in jobQueue
    BY Zenon, <1>5 DEF Takes
  <2>2. CopyOf(n, jobCache[n])
    BY Zenon, <1>0, <2>1 DEF Held, HeldAt, Pending
  <2>3. CASE TakesCopy(n)
    <3>1. rec'[n].copy = jobCache[n] /\ jobs'[n] \in {NoJob, jobs[n]}
      BY Zenon, <2>3 DEF TakesCopy
    <3>2. CopyOf(n, rec[n].copy)'
      BY Zenon, <2>1, <2>2, <3>1 DEF CopyOf
    <3>3. ASSUME NEW m \in Names, jobs'[m] # NoJob PROVE CopyOf(m, jobs[m])'
      <4>1. jobs'[m] = jobs[m]
        BY Zenon, <2>1, <3>1, <3>3
      <4> QED
        BY Zenon, <1>0, <2>1, <3>3, <4>1 DEF CopyOf
    <3> QED
      BY Zenon, <1>0, <2>1, <3>2, <3>3 DEF Identity, CopyOf
  <2>4. CASE TakesAnswer(n)
    <3>1. /\ config # NoConfig /\ jobs[n] # NoJob
          /\ jobs'[n] = [jobs[n] EXCEPT !.owner = config.uid] /\ rec'[n].copy = jobs'[n]
      BY <2>4 DEF TakesAnswer
    <3>2. jobs'[n].uid = jobs[n].uid /\ jobs'[n].owner = configs
      BY <1>0, <1>00, <3>1, OwnerOnly
    <3>3. CopyOf(n, jobs[n])' /\ CopyOf(n, rec[n].copy)'
      BY <1>0, <1>00, <2>1, <3>1, <3>2 DEF CopyOf
    <3> QED
      BY Zenon, <1>0, <2>1, <3>3 DEF Identity, CopyOf
  <2> QED
    BY Zenon, <1>5, <2>3, <2>4 DEF Takes
<1>6. ASSUME NEW n \in Names, Updated(n) PROVE Identity'
  <2>1. /\ jobs[n] # NoJob /\ jobs'[n] = [jobs[n] EXCEPT !.status = rec[n].status]
        /\ \A v \in UIDs \ {jobs[n].uid} : counted'[v] = counted[v]
        /\ rec'[n] = NoRec
        /\ \A m \in Names \ {n} : rec'[m] = rec[m] /\ jobs'[m] = jobs[m]
        /\ UNCHANGED <<config, configs, created, disturbed, jobCache>>
    BY <1>6 DEF Updated, Released
  <2>2. jobs'[n].uid = jobs[n].uid /\ jobs'[n].owner = jobs[n].owner
    BY <1>00, <2>1, StatusOnly
  <2>3. CopyOf(n, jobs[n])' /\ jobs[n].uid \in created
    BY <1>0, <2>1, <2>2 DEF CopyOf
  <2>4. ASSUME NEW m \in Names
        PROVE  /\ jobs'[m] # NoJob => CopyOf(m, jobs[m])'
               /\ jobCache'[m] # NoJob => CopyOf(m, jobCache[m])'
               /\ rec'[m] # NoRec => CopyOf(m, rec[m].copy)'
    <3>1. CASE m = n
      BY Zenon, <1>0, <2>1, <2>3, <3>1 DEF CopyOf
    <3>2. CASE m # n
      <4>1. jobs'[m] = jobs[m] /\ rec'[m] = rec[m] /\ UNCHANGED <<configs, created, jobCache>>
        BY Zenon, <2>1, <3>2
      <4> QED
        BY Zenon, <1>0, <4>1 DEF CopyOf
    <3> QED
      BY Zenon, <3>1, <3>2
  <2>5. \A u \in UIDs \ created' : counted'[u] = 0 /\ u \notin disturbed'
    BY <1>0, <2>1, <2>3
  <2>6. config' # NoConfig => config'.uid = configs'
    BY <1>0, <2>1
  <2> QED
    BY Zenon, <2>4, <2>5, <2>6 DEF Identity
<1>7. ASSUME NEW n \in Names, Retried(n) PROVE Identity'
  <2>1. /\ \A m \in Names : jobs'[m] = jobs[m] /\ rec'[m] \in {NoRec, rec[m]}
        /\ UNCHANGED <<config, configs, created, counted, disturbed, jobCache>>
    BY Zenon, <1>7 DEF Retried, Released
  <2> QED
    BY Zenon, <1>0, <2>1 DEF Identity, CopyOf
<1>8. CASE WorkerOnly
  <2>1. UNCHANGED <<config, configs, created, jobCache, rec>>
    BY <1>8 DEF WorkerOnly
  <2>2. \A n \in Names : jobs'[n] # NoJob => CopyOf(n, jobs[n])'
    BY Zenon, <1>0, <1>8, <2>1, WorkerObjects DEF CopyOf
  <2>3. \A u \in UIDs \ created' : counted'[u] = 0 /\ u \notin disturbed'
    BY Zenon, <1>0, <1>8, <2>1, WorkerHistory
  <2> QED
    BY Zenon, <1>0, <2>1, <2>2, <2>3 DEF Identity, CopyOf
<1> QED
  BY <1>1, <1>2, <1>3, <1>4, <1>5, <1>6, <1>7, <1>8, Zenon DEF Controlled

\* What the controller holds does not get ahead.
LEMMA BehindStep ==
    ASSUME TypeOK, Identity, Behind, Held, Controlled \/ WorkerOnly
    PROVE  Behind'
<1>0. \A n \in Names :
        /\ jobs[n] # NoJob => /\ jobs[n] \in NodeScanJob /\ CopyOf(n, jobs[n])
                              /\ jobs[n].owner \in Nat
        /\ jobCache[n] # NoJob => /\ CopyOf(n, jobCache[n]) /\ jobCache[n].owner \in Nat
        /\ rec[n] # NoRec => CopyOf(n, rec[n].copy) /\ rec[n].copy.owner \in Nat
        /\ jobs[n] # NoJob /\ jobCache[n] # NoJob => NotAhead(jobCache[n], jobs[n])
        /\ jobs[n] # NoJob /\ rec[n] # NoRec => NotAhead(rec[n].copy, jobs[n])
  BY ObjectsTyped, JobTyped, NodeAssumption DEF Identity, Behind
<1>00. configs \in Nat
  BY Zenon, ObjectsTyped
<1> DEFINE Goal(m) == /\ jobCache'[m] # NoJob => NotAhead(jobCache'[m], jobs'[m])
                      /\ rec'[m] # NoRec => NotAhead(rec'[m].copy, jobs'[m])
<1> SUFFICES ASSUME NEW m \in Names, jobs'[m] # NoJob PROVE Goal(m)
  BY Zenon DEF Behind, NotAhead
<1>9. ASSUME jobs'[m] = jobs[m], jobCache'[m] = jobCache[m], rec'[m] \in {NoRec, rec[m]}
      PROVE  Goal(m)
  BY Zenon, <1>0, <1>9
<1>10. NotAhead(jobs[m], jobs[m]) \/ jobs[m] = NoJob
  <2>1. ASSUME NEW o \in Nat PROVE o <= o
    BY <2>1
  <2> QED
    BY Zenon, <1>0, <2>1 DEF NotAhead
<1>1. CASE Shrinks
  BY Zenon, <1>1, <1>9 DEF Shrinks
<1>2. ASSUME NEW u \in UIDs, Born(u) PROVE Goal(m)
  <2>1. /\ u \notin created
        /\ m # NameOf[u] => jobs'[m] = jobs[m]
        /\ m = NameOf[u] => jobs'[m].uid = u
        /\ UNCHANGED <<jobCache, rec>>
    BY Zenon, <1>2 DEF Born
  <2>2. CASE m = NameOf[u]
    <3>1. /\ jobCache[m] # NoJob => jobCache[m].uid # u
          /\ rec[m] # NoRec => rec[m].copy.uid # u
      BY Zenon, <1>0, <2>1 DEF CopyOf
    <3> QED
      BY Zenon, <2>1, <2>2, <3>1 DEF NotAhead
  <2> QED
    BY Zenon, <1>9, <2>1, <2>2
<1>3. CASE Restarted
  BY Zenon, <1>3, <1>10 DEF Restarted
<1>4. ASSUME NEW n \in Names, Synced(n) PROVE Goal(m)
  <2>1. /\ m = n => jobCache'[m] = jobs[m]
        /\ m # n => jobCache'[m] = jobCache[m]
        /\ jobs' = jobs /\ rec' = rec
    BY Zenon, <1>4 DEF Synced
  <2> QED
    BY Zenon, <1>0, <1>9, <1>10, <2>1
<1>5. ASSUME NEW n \in Names, Takes(n) PROVE Goal(m)
  <2>1. /\ m # n => rec'[m] = rec[m] /\ jobs'[m] \in {NoJob, jobs[m]}
        /\ UNCHANGED jobCache /\ n \in jobQueue
    BY Zenon, <1>5 DEF Takes
  <2>2. jobCache[n] # NoJob
    BY Zenon, <2>1 DEF Held, HeldAt, Pending
  <2>3. CASE m # n
    BY Zenon, <1>9, <2>1, <2>3
  <2>4. CASE m = n /\ TakesCopy(n)
    <3>1. rec'[n].copy = jobCache[n] /\ jobs'[n] \in {NoJob, jobs[n]}
      BY Zenon, <2>4 DEF TakesCopy
    <3> QED
      BY Zenon, <1>0, <2>1, <2>2, <2>4, <3>1
  <2>5. CASE m = n /\ TakesAnswer(n)
    <3>1. /\ config # NoConfig /\ jobs[n] # NoJob
          /\ jobs'[n] = [jobs[n] EXCEPT !.owner = config.uid] /\ rec'[n].copy = jobs'[n]
      BY <2>5 DEF TakesAnswer
    <3>2. /\ jobs'[n].uid = jobs[n].uid /\ jobs'[n].owner = configs
          /\ jobs'[n].stamp = jobs[n].stamp /\ jobs'[n].status = jobs[n].status
      BY <1>0, <3>1, OwnerOnly DEF Identity
    <3>3. NotAhead(jobCache'[n], jobs'[n]) /\ NotAhead(rec'[n].copy, jobs'[n])
      BY <1>0, <1>00, <2>1, <2>2, <3>1, <3>2 DEF NotAhead, CopyOf
    <3> QED
      BY Zenon, <2>5, <3>3
  <2> QED
    BY Zenon, <1>5, <2>3, <2>4, <2>5 DEF Takes
<1>6. ASSUME NEW n \in Names, Updated(n) PROVE Goal(m)
  <2>1. /\ jobs[n] # NoJob /\ jobs'[n] = [jobs[n] EXCEPT !.status = rec[n].status]
        /\ rec'[n] = NoRec /\ rec[n] # NoRec /\ jobs[n] = rec[n].copy
        /\ m # n => rec'[m] = rec[m] /\ jobs'[m] = jobs[m]
        /\ UNCHANGED jobCache
    BY <1>6 DEF Updated, Released
  <2>2. /\ jobs'[n].uid = jobs[n].uid /\ jobs'[n].owner = jobs[n].owner
        /\ jobs'[n].stamp = jobs[n].stamp /\ jobs'[n].status = rec[n].status
    BY <1>0, <2>1, StatusOnly
  <2>3. /\ IsPending(rec[n].status) => IsPending(jobs[n].status)
        /\ rec[n].status # "Unset"
    BY <2>1 DEF Held, HeldAt, IsPending
  <2>4. jobCache[n] # NoJob => NotAhead(jobCache'[n], jobs'[n])
    BY Zenon, <1>0, <2>1, <2>2, <2>3 DEF NotAhead
  <2> QED
    BY Zenon, <1>9, <2>1, <2>4
<1>7. ASSUME NEW n \in Names, Retried(n) PROVE Goal(m)
  <2>1. jobs'[m] = jobs[m] /\ jobCache' = jobCache /\ rec'[m] \in {NoRec, rec[m]}
    BY Zenon, <1>7 DEF Retried, Released
  <2> QED
    BY Zenon, <1>9, <2>1
<1>8. CASE WorkerOnly
  <2>1. UNCHANGED <<jobCache, rec>>
    BY <1>8 DEF WorkerOnly
  <2>2. ASSUME NEW c, NotAhead(c, jobs[m]) PROVE NotAhead(c, jobs'[m])
    BY Zenon, <1>8, <2>2, WorkerObjects DEF NotAhead, IsPending
  <2>3. jobs[m] # NoJob
    BY Zenon, <1>8, WorkerObjects
  <2> QED
    BY Zenon, <1>0, <2>1, <2>2, <2>3
<1> QED
  BY <1>1, <1>2, <1>3, <1>4, <1>5, <1>6, <1>7, <1>8, Zenon DEF Controlled

-----------------------------------------------------------------------------
\* The messages of a job.
LEMMA MessageTyped ==
    ASSUME NEW u \in UIDs, NEW v \in UIDs
    PROVE  /\ Message("generate", u, u) \in NodeMessages
           /\ NameOf[u] = NameOf[v] => Message("scan", u, v) \in NodeMessages
           /\ Message("generate", u, u).kind = "generate" /\ Message("generate", u, u).uid = u
           /\ Message("generate", u, u).id = u
           /\ Message("scan", u, v).kind = "scan" /\ Message("scan", u, v).id = u
           /\ Message("scan", u, v).uid = v
           /\ u # v => Message("generate", u, u) # Message("generate", v, v)
BY Zenon DEF NodeMessages, Message

\* There are no other messages.
LEMMA MessageKinds ==
    ASSUME NEW m \in NodeMessages
    PROVE  /\ m.uid \in UIDs /\ m.id \in UIDs /\ m.kind \in {"generate", "scan"}
           /\ m.kind = "generate" => m = Message("generate", m.uid, m.uid) /\ m.id = m.uid
BY DEF NodeMessages, Message

\* What publishing a message does.
LEMMA PublishEffect ==
    ASSUME TypeOK, NEW m \in NodeMessages, PublishNode(m)
    PROVE  /\ \A k \in NodeMessages : published[k] > 0 => published'[k] > 0
           /\ \A k \in NodeMessages \ {m} : published'[k] = published[k]
           /\ \A e \in Entries : InStream(e) => InStream(e)'
           /\ \A e \in Entries : InStream(e)' => InStream(e) \/ (e[1] = m /\ published'[m] > 0)
           /\ \/ /\ UNCHANGED <<published, stream>>
                 /\ \E k \in NodeMessages : k.kind = m.kind /\ k.id = m.id /\ published[k] > 0
              \/ published'[m] > 0 /\ \E e \in Entries : e[1] = m /\ InStream(e)'
<1>0. /\ published \in [NodeMessages -> 0..MaxCopies] /\ stream \in [Entries -> Delivery]
      /\ MaxCopies \in Nat
  BY Zenon, NodeAssumption DEF TypeOK, NodeClusterTypeOK, QueueTypeOK
<1>1. CASE /\ UNCHANGED queueVars
           /\ \E k \in NodeMessages : k.kind = m.kind /\ k.id = m.id /\ published[k] > 0
  BY <1>1 DEF queueVars, InStream
<1>2. CASE Store(m)
  <2>1. PICK c \in 1..MaxCopies : c = published[m] + 1
    <3>1. published[m] \in 0..MaxCopies /\ published[m] < MaxCopies
      BY <1>0, <1>2 DEF Store
    <3>2. published[m] + 1 \in 1..MaxCopies
      BY <1>0, <3>1
    <3> QED
      BY <3>2
  <2>3. PICK e0 \in Entries : e0 = <<m, c>> /\ e0[1] = m
    <3>1. <<m, c>> \in Entries /\ <<m, c>>[1] = m
      BY <2>1 DEF Entries
    <3> QED
      BY <3>1
  <2>2. /\ published' = [published EXCEPT ![m] = c]
        /\ stream' = [stream EXCEPT ![e0] = [st |-> "ready", n |-> 0]]
    BY <1>2, <2>1, <2>3 DEF Store
  <2>4. c > 0
    BY <1>0
  <2>5. published'[m] = c /\ \A k \in NodeMessages \ {m} : published'[k] = published[k]
    BY <1>0, <2>2
  <2>6. stream'[e0].st = "ready" /\ \A e \in Entries \ {e0} : stream'[e] = stream[e]
    BY <1>0, <2>2, <2>3
  <2>7. /\ \A e \in Entries : InStream(e) => InStream(e)'
        /\ \A e \in Entries : InStream(e)' => InStream(e) \/ e = e0
        /\ InStream(e0)'
    BY <2>6 DEF InStream
  <2> QED
    BY <2>3, <2>4, <2>5, <2>7
<1> QED
  BY Zenon, <1>1, <1>2 DEF PublishNode

\* The message the worker publishes is one.
LEMMA ScanMessage ==
    ASSUME TypeOK, Handlers, NEW k \in Nodes, Handling(k, "generate", "publish")
    PROVE  /\ Message("scan", local[k].uid, M(k).uid) \in NodeMessages
           /\ local[k].uid \in UIDs /\ M(k).uid \in UIDs
           /\ M(k) \in NodeMessages /\ task[k] # NoTask
<1>1. task[k] # NoTask
  BY Zenon DEF Handling, At
<1>2. local[k].uid \in UIDs /\ NameOf[local[k].uid] = NameOf[M(k).uid]
  BY Zenon, <1>1 DEF Handlers, HandlerAt
<1>3. M(k).uid \in UIDs /\ M(k) \in NodeMessages
  BY Zenon, <1>1, TaskTyped
<1> QED
  BY Zenon, <1>1, <1>2, <1>3, MessageTyped

\* What a step publishes: nothing, the message that starts the scan of a job the
\* controller takes, or the message for the second half of a scan.
Silent == UNCHANGED published

Starts(n) ==
    /\ Takes(n) /\ jobCache[n].uid \in UIDs /\ jobCache[n].owner # 0 /\ jobCache[n] # NoJob
    /\ PublishNode(Message("generate", jobCache[n].uid, jobCache[n].uid))

Passes(k) ==
    /\ Handling(k, "generate", "publish")
    /\ PublishNode(Message("scan", local[k].uid, M(k).uid))

\* No step publishes anything else.
LEMMA Publishes ==
    ASSUME TypeOK, Held, Controlled \/ WorkerOnly
    PROVE  \/ Silent
           \/ \E n \in Names : Starts(n)
           \/ WorkerOnly /\ \E k \in Nodes : Passes(k)
<1>1. ASSUME Shrinks \/ (\E u \in UIDs : Born(u)) \/ Restarted PROVE Silent
  BY Zenon, <1>1 DEF Shrinks, Born, Restarted, Silent
<1>2. ASSUME NEW n \in Names, Synced(n) \/ Updated(n) \/ Retried(n) PROVE Silent
  BY <1>2 DEF Synced, Updated, Retried, Released, Silent
<1>3. ASSUME NEW n \in Names, Takes(n) PROVE Silent \/ Starts(n)
  <2>1. jobCache[n] # NoJob
    BY Zenon, <1>3 DEF Takes, Held, HeldAt, Pending
  <2>2. jobCache[n].uid \in UIDs
    BY <2>1, ObjectsTyped, JobTyped
  <2>3. \/ UNCHANGED queueVars
        \/ /\ jobCache[n].owner # 0
           /\ PublishNode(Message("generate", jobCache[n].uid, jobCache[n].uid))
    BY <1>3 DEF Takes, TakesCopy, TakesAnswer
  <2> QED
    BY <1>3, <2>1, <2>2, <2>3, Zenon DEF Starts, Silent, queueVars
<1>4. CASE WorkerOnly
  BY Zenon, <1>4 DEF WorkerOnly, WorkerStep, Silent, Passes
<1> QED
  BY <1>1, <1>2, <1>3, <1>4, Zenon DEF Controlled

\* What is published stays published; what is new is known.
LEMMA PublishedGrows ==
    ASSUME TypeOK, Held, Handlers, Controlled \/ WorkerOnly
    PROVE  /\ \A m \in NodeMessages : published[m] > 0 => published'[m] > 0
           /\ \A u \in UIDs : Generated(u) => Generated(u)'
           /\ \A u \in UIDs : ScanPublished(u) => ScanPublished(u)'
           /\ \A u \in UIDs : Generated(u)' =>
                 Generated(u) \/ \E n \in Names : Starts(n) /\ jobCache[n].uid = u
<1>1. CASE Silent
  BY Zenon, <1>1 DEF Silent, Generated, ScanPublished
<1>2. ASSUME \A m \in NodeMessages : published[m] > 0 => published'[m] > 0
      PROVE  /\ \A u \in UIDs : Generated(u) => Generated(u)'
             /\ \A u \in UIDs : ScanPublished(u) => ScanPublished(u)'
  BY Zenon, <1>2, MessageTyped DEF Generated, ScanPublished
<1>3. ASSUME NEW n \in Names, Starts(n)
      PROVE  /\ \A m \in NodeMessages : published[m] > 0 => published'[m] > 0
             /\ \A u \in UIDs : Generated(u)' => Generated(u) \/ jobCache[n].uid = u
  <2> DEFINE v == jobCache[n].uid
             g == Message("generate", v, v)
  <2>1. v \in UIDs /\ PublishNode(g)
    BY Zenon, <1>3 DEF Starts
  <2> HIDE DEF v
  <2>2. g \in NodeMessages
    BY Zenon, <2>1, MessageTyped
  <2>3. /\ \A m \in NodeMessages : published[m] > 0 => published'[m] > 0
        /\ \A m \in NodeMessages \ {g} : published'[m] = published[m]
    BY Zenon, <2>1, <2>2, PublishEffect
  <2>4. \A u \in UIDs \ {v} : /\ Message("generate", u, u) \in NodeMessages
                              /\ Message("generate", u, u) # g
    <3> SUFFICES ASSUME NEW u \in UIDs, u # v
                 PROVE  /\ Message("generate", u, u) \in NodeMessages
                        /\ Message("generate", u, u) # g
      BY Zenon
    <3>1. Message("generate", u, u) \in NodeMessages /\ Message("generate", u, u).uid = u
      BY Zenon, MessageTyped
    <3>2. g.uid = v
      BY Zenon, <2>1, MessageTyped
    <3> QED
      BY Zenon, <3>1, <3>2
  <2> HIDE DEF g
  <2> QED
    BY Zenon, <2>3, <2>4 DEF Generated, v
<1>4. ASSUME NEW k \in Nodes, Passes(k)
      PROVE  /\ \A m \in NodeMessages : published[m] > 0 => published'[m] > 0
             /\ \A u \in UIDs : Generated(u)' => Generated(u)
  <2> DEFINE s == Message("scan", local[k].uid, M(k).uid)
  <2>1. PublishNode(s) /\ s \in NodeMessages /\ local[k].uid \in UIDs /\ M(k).uid \in UIDs
    BY Zenon, <1>4, ScanMessage DEF Passes
  <2>2. s.kind = "scan"
    BY Zenon DEF Message
  <2> HIDE DEF s
  <2>3. /\ \A m \in NodeMessages : published[m] > 0 => published'[m] > 0
        /\ \A m \in NodeMessages \ {s} : published'[m] = published[m]
    BY Zenon, <2>1, PublishEffect
  <2>4. \A u \in UIDs : /\ Message("generate", u, u) \in NodeMessages
                        /\ Message("generate", u, u) # s
    BY Zenon, <2>2, MessageTyped
  <2> QED
    BY Zenon, <2>3, <2>4 DEF Generated
<1> QED
  BY <1>1, <1>2, <1>3, <1>4, Publishes, Zenon

\* The objects across any step: the same object, or a new one.
LEMMA Objects ==
    ASSUME TypeOK, Identity, Controlled \/ WorkerOnly
    PROVE  /\ \A n \in Names : jobs'[n] # NoJob =>
                  \/ jobs[n] # NoJob /\ jobs'[n].uid = jobs[n].uid
                  \/ jobs'[n].uid \notin created
           /\ created \subseteq created' /\ disturbed \subseteq disturbed'
<1>0. \A n \in Names : jobs[n] # NoJob => jobs[n] \in NodeScanJob
  BY Zenon, ObjectsTyped
<1>1. CASE Shrinks
  BY <1>1 DEF Shrinks
<1>2. ASSUME NEW u \in UIDs, Born(u)
      PROVE  /\ \A n \in Names : jobs'[n] # NoJob =>
                  \/ jobs[n] # NoJob /\ jobs'[n].uid = jobs[n].uid
                  \/ jobs'[n].uid \notin created
             /\ created \subseteq created' /\ disturbed \subseteq disturbed'
  BY Zenon, <1>2 DEF Born
<1>3. CASE Restarted
  BY Zenon, <1>3 DEF Restarted
<1>4. ASSUME NEW n \in Names, Synced(n) \/ Retried(n)
      PROVE  /\ \A m \in Names : jobs'[m] = jobs[m]
             /\ created' = created /\ disturbed' = disturbed
  BY Zenon, <1>4 DEF Synced, Retried, Released
<1>5. ASSUME NEW n \in Names, Takes(n) \/ Updated(n)
      PROVE  /\ \A m \in Names : jobs'[m] # NoJob => jobs[m] # NoJob /\ jobs'[m].uid = jobs[m].uid
             /\ created' = created /\ disturbed' = disturbed
  <2>1. CASE Updated(n)
    <3>1. /\ jobs[n] # NoJob /\ jobs'[n] = [jobs[n] EXCEPT !.status = rec[n].status]
          /\ \A m \in Names \ {n} : jobs'[m] = jobs[m]
          /\ created' = created /\ disturbed' = disturbed
      BY <2>1 DEF Updated, Released
    <3>2. jobs'[n].uid = jobs[n].uid
      BY <1>0, <3>1, StatusOnly
    <3> QED
      BY Zenon, <3>1, <3>2
  <2>2. CASE Takes(n)
    <3>1. /\ \A m \in Names \ {n} : jobs'[m] \in {NoJob, jobs[m]}
          /\ created' = created /\ disturbed' = disturbed
          /\ \/ jobs'[n] \in {NoJob, jobs[n]}
             \/ jobs[n] # NoJob /\ jobs'[n] = [jobs[n] EXCEPT !.owner = config.uid]
      BY <2>2 DEF Takes, TakesCopy, TakesAnswer
    <3>2. jobs'[n] # NoJob => jobs[n] # NoJob /\ jobs'[n].uid = jobs[n].uid
      <4>1. CASE jobs'[n] \in {NoJob, jobs[n]}
        BY <4>1
      <4>2. CASE jobs[n] # NoJob /\ jobs'[n] = [jobs[n] EXCEPT !.owner = config.uid]
        BY <1>0, <4>2, OwnerOnly
      <4> QED
        BY <3>1, <4>1, <4>2
    <3> QED
      BY <3>1, <3>2
  <2> QED
    BY Zenon, <1>5, <2>1, <2>2
<1>6. CASE WorkerOnly
  BY Zenon, <1>6, WorkerObjects DEF WorkerOnly
<1> QED
  BY <1>1, <1>2, <1>3, <1>4, <1>5, <1>6, Zenon DEF Controlled

-----------------------------------------------------------------------------
\* The stream and the tasks across a step: what a worker is given, or the stream
\* has, is there already or is published by the step.
LEMMA Received ==
    ASSUME TypeOK, Worker, NEW l \in Nodes, task'[l] # NoTask
    PROVE  \/ task[l] # NoTask /\ task'[l] = task[l]
           \/ \E e \in Entries : InStream(e) /\ task'[l].entry = e
<1>0. task \in [Nodes -> Task \cup {NoTask}] /\ stream \in [Entries -> Delivery]
  BY DEF TypeOK, NodeClusterTypeOK, QueueTypeOK
<1>1. ASSUME NEW k \in Nodes, NEW e \in Entries, Receive(k, e)
      PROVE  task'[l] = task[l] \/ (InStream(e) /\ task'[l].entry = e)
  <2> DEFINE n == IF stream[e].n < MaxDeliver THEN stream[e].n + 1 ELSE MaxDeliver
             t == [entry |-> e, n |-> n]
  <2>1. task' = [task EXCEPT ![k] = t] /\ stream[e].st = "ready"
    BY <1>1 DEF Receive, Deliver
  <2>2. t.entry = e
    OBVIOUS
  <2> HIDE DEF t
  <2> QED
    BY <1>0, <2>1, <2>2 DEF InStream
<1>2. ASSUME NEW k \in Nodes, Acknowledge(k) \/ RetryLater(k) \/ Crash(k)
      PROVE  task'[l] = task[l]
  <2>1. task' = [task EXCEPT ![k] = NoTask]
    BY <1>2 DEF Acknowledge, RetryLater, Crash, Ack, Nak, Abandon
  <2> QED
    BY <1>0, <2>1
<1>3. ASSUME NEW k \in Nodes, Handle(k) \/ GiveUp(k) \/ HandlerError(k) \/ GiveUpSilently(k)
      PROVE  task' = task
  BY Zenon, <1>3 DEF Handle, GiveUp, HandlerError, GiveUpSilently, GenerateStart, GenerateMark,
              GenerateSBOM, GeneratePublish, ScanStart, ScanMark, ScanSBOM, ScanComplete
<1>4. ASSUME NEW e \in Entries, AckWaitElapsed(e) PROVE task' = task
  BY <1>4 DEF AckWaitElapsed, Redeliver
<1> QED
  BY <1>1, <1>2, <1>3, <1>4, Zenon DEF Worker, Subscribe, Mishap

\* A worker puts into the stream what it publishes, and takes out what it
\* acknowledges.
LEMMA StreamStep ==
    ASSUME TypeOK, Handlers, Worker
    PROVE  /\ \A e \in Entries : InStream(e)' => InStream(e) \/ published'[e[1]] > 0
           /\ \A e \in Entries : InStream(e) =>
                 InStream(e)' \/ \E k \in Nodes : Acknowledge(k) /\ task[k].entry = e
<1>0. stream \in [Entries -> Delivery]
  BY DEF TypeOK, NodeClusterTypeOK, QueueTypeOK
<1> DEFINE Kept(e) == InStream(e) <=> InStream(e)'
<1>1. ASSUME NEW k \in Nodes, NEW e0 \in Entries, Receive(k, e0) PROVE \A e \in Entries : Kept(e)
  <2> DEFINE d == [st |-> "pending", n |-> IF stream[e0].n < MaxDeliver THEN stream[e0].n + 1
                                           ELSE MaxDeliver]
  <2>1. stream' = [stream EXCEPT ![e0] = d] /\ stream[e0].st = "ready"
    BY <1>1 DEF Receive, Deliver
  <2>2. d.st = "pending"
    BY Zenon
  <2> HIDE DEF d
  <2> QED
    BY <1>0, <2>1, <2>2 DEF InStream
<1>2. ASSUME NEW e0 \in Entries, AckWaitElapsed(e0) PROVE \A e \in Entries : Kept(e)
  <2>1. /\ stream' = [stream EXCEPT ![e0] = [stream[e0] EXCEPT !.st = "ready"]]
        /\ stream[e0].st = "pending"
    BY <1>2 DEF AckWaitElapsed, Redeliver
  <2>2. [stream[e0] EXCEPT !.st = "ready"].st = "ready"
    BY <1>0 DEF Delivery
  <2> QED
    BY <1>0, <2>1, <2>2 DEF InStream
<1>3. ASSUME NEW k \in Nodes, Acknowledge(k)
      PROVE  \A e \in Entries : /\ InStream(e)' => InStream(e)
                                /\ InStream(e) => InStream(e)' \/ task[k].entry = e
  <2>1. PICK e0 \in Entries : e0 = task[k].entry
    BY Zenon, <1>3, TaskTyped DEF Acknowledge, At
  <2>2. stream' = [stream EXCEPT ![e0] = [stream[e0] EXCEPT !.st = "absent"]]
    BY <1>3, <2>1 DEF Acknowledge, Ack
  <2>3. [stream[e0] EXCEPT !.st = "absent"].st = "absent"
    BY <1>0 DEF Delivery
  <2> QED
    BY <1>0, <2>1, <2>2, <2>3 DEF InStream
<1>4. ASSUME NEW k \in Nodes, RetryLater(k) PROVE \A e \in Entries : Kept(e)
  <2>1. PICK e0 \in Entries : e0 = task[k].entry
    BY Zenon, <1>4, TaskTyped DEF RetryLater, At
  <2> DEFINE s == IF stream[e0].st = "absent" THEN stream[e0].st ELSE "ready"
  <2>2. stream' = [stream EXCEPT ![e0] = [stream[e0] EXCEPT !.st = s]]
    BY <1>4, <2>1 DEF RetryLater, Nak
  <2>3. [stream[e0] EXCEPT !.st = s].st = s /\ (s = "absent" <=> stream[e0].st = "absent")
    BY <1>0 DEF Delivery
  <2> HIDE DEF s
  <2> QED
    BY <1>0, <2>1, <2>2, <2>3 DEF InStream
<1>5. ASSUME NEW k \in Nodes, GeneratePublish(k)
      PROVE  \A e \in Entries : /\ InStream(e)' => InStream(e) \/ published'[e[1]] > 0
                                /\ InStream(e) => InStream(e)'
  <2>1. \/ UNCHANGED queueVars
        \/ /\ Handling(k, "generate", "publish")
           /\ PublishNode(Message("scan", local[k].uid, M(k).uid))
    BY Zenon, <1>5 DEF GeneratePublish
  <2>2. CASE UNCHANGED queueVars
    BY Zenon, <2>2 DEF queueVars, InStream
  <2>3. CASE /\ Handling(k, "generate", "publish")
             /\ PublishNode(Message("scan", local[k].uid, M(k).uid))
    <3> DEFINE s == Message("scan", local[k].uid, M(k).uid)
    <3>1. s \in NodeMessages /\ PublishNode(s)
      BY Zenon, <2>3, ScanMessage
    <3> HIDE DEF s
    <3>2. /\ \A e \in Entries : InStream(e) => InStream(e)'
          /\ \A e \in Entries : InStream(e)' => InStream(e) \/ (e[1] = s /\ published'[s] > 0)
      BY Zenon, <3>1, PublishEffect
    <3> QED
      BY Zenon, <3>2
  <2> QED
    BY Zenon, <2>1, <2>2, <2>3
<1>6. ASSUME NEW k \in Nodes,
             \/ GenerateStart(k) \/ GenerateMark(k) \/ GenerateSBOM(k) \/ ScanStart(k)
             \/ ScanMark(k) \/ ScanSBOM(k) \/ ScanComplete(k) \/ GiveUp(k)
             \/ HandlerError(k) \/ GiveUpSilently(k) \/ Crash(k)
      PROVE  \A e \in Entries : Kept(e)
  <2>1. stream' = stream
    BY Zenon, <1>6 DEF GiveUp, HandlerError, GiveUpSilently, GenerateStart, GenerateMark,
                         GenerateSBOM,
                ScanStart, ScanMark, ScanSBOM, ScanComplete, Crash, Abandon, queueVars
  <2> QED
    BY <2>1 DEF InStream
<1> HIDE DEF Kept
<1>7. ASSUME \A e \in Entries : Kept(e)
      PROVE  \A e \in Entries : InStream(e)' <=> InStream(e)
  BY <1>7 DEF Kept
<1> QED
  BY <1>1, <1>2, <1>3, <1>4, <1>5, <1>6, <1>7, Zenon DEF Worker, Subscribe, Mishap, Handle

\* A message comes after the message that starts the scan.
LEMMA CausalityStep ==
    ASSUME TypeOK, Identity, Causality, Held, Handlers, Controlled \/ WorkerOnly
    PROVE  Causality'
<1>0. /\ \A m \in NodeMessages : published[m] > 0 => published'[m] > 0
      /\ \A u \in UIDs : Generated(u) => Generated(u)'
      /\ created \subseteq created'
  BY Zenon, PublishedGrows, Objects
<1>1. \A m \in NodeMessages : published'[m] > 0 => m.uid \in created' /\ Generated(m.uid)'
  <2>1. ASSUME NEW m \in NodeMessages, published[m] > 0
        PROVE  m.uid \in created' /\ Generated(m.uid)'
    BY Zenon, <1>0, <2>1, MessageKinds DEF Causality
  <2>2. CASE Silent
    BY <2>1, <2>2 DEF Silent
  <2>3. ASSUME NEW n \in Names, Starts(n), NEW m \in NodeMessages, published'[m] > 0
        PROVE  m.uid \in created' /\ Generated(m.uid)'
    <3> DEFINE v == jobCache[n].uid
               g == Message("generate", v, v)
    <3>1. v \in UIDs /\ PublishNode(g) /\ jobCache[n] # NoJob /\ g \in NodeMessages /\ g.uid = v
      BY Zenon, <2>3, MessageTyped DEF Starts
    <3>2. v \in created
      BY Zenon, <3>1 DEF Identity, CopyOf
    <3>3. \A k \in NodeMessages \ {g} : published'[k] = published[k]
      BY Zenon, <3>1, PublishEffect
    <3>4. CASE m = g
      <4>1. m = Message("generate", m.uid, m.uid) /\ m.uid = v
        BY Zenon, <3>1, <3>4
      <4>2. Generated(m.uid)'
        BY Zenon, <2>3, <4>1 DEF Generated
      <4> QED
        BY Zenon, <1>0, <3>2, <4>1, <4>2
    <3>5. CASE m # g
      BY Zenon, <2>1, <2>3, <3>3, <3>5
    <3> QED
      BY <3>4, <3>5
  <2>4. ASSUME NEW k \in Nodes, Passes(k), NEW m \in NodeMessages, published'[m] > 0
        PROVE  m.uid \in created' /\ Generated(m.uid)'
    <3> DEFINE s == Message("scan", local[k].uid, M(k).uid)
    <3>0. /\ PublishNode(s) /\ s \in NodeMessages /\ local[k].uid \in UIDs /\ M(k).uid \in UIDs
          /\ M(k) \in NodeMessages /\ task[k] # NoTask
      BY Zenon, <2>4, ScanMessage DEF Passes
    <3>1. s.uid = M(k).uid
      BY DEF Message
    <3> HIDE DEF s
    <3>2. PICK v \in UIDs : v = M(k).uid
      BY <3>0
    <3>6. v \in created' /\ Generated(v)'
      BY Zenon, <1>0, <3>0, <3>2 DEF Causality
    <3>3. \A j \in NodeMessages \ {s} : published'[j] = published[j]
      BY Zenon, <3>0, PublishEffect
    <3>4. CASE m = s
      BY Zenon, <3>1, <3>2, <3>4, <3>6
    <3>5. CASE m # s
      BY Zenon, <2>1, <2>4, <3>3, <3>5
    <3> QED
      BY <3>4, <3>5
  <2> QED
    BY <2>2, <2>3, <2>4, Publishes
<1>2. \A e \in Entries : InStream(e)' => published'[e[1]] > 0
  <2>0. \A e \in Entries : e[1] \in NodeMessages
    BY DEF Entries
  <2>1. ASSUME NEW n \in Names, Starts(n)
        PROVE  \A e \in Entries : InStream(e)' => InStream(e) \/ published'[e[1]] > 0
    <3> DEFINE g == Message("generate", jobCache[n].uid, jobCache[n].uid)
    <3>1. PublishNode(g) /\ g \in NodeMessages
      BY Zenon, <2>1, MessageTyped DEF Starts
    <3> HIDE DEF g
    <3>2. \A e \in Entries : InStream(e)' => InStream(e) \/ (e[1] = g /\ published'[g] > 0)
      BY Zenon, <3>1, PublishEffect
    <3> QED
      BY <3>2
  <2>2. CASE WorkerOnly
    <3>1. \A e \in Entries : InStream(e)' => InStream(e) \/ published'[e[1]] > 0
      BY Zenon, <2>2, StreamStep DEF WorkerOnly
    <3> QED
      BY Zenon, <1>0, <2>0, <3>1 DEF Causality
  <2>3. CASE Controlled
    <3>1. stream' = stream \/ \E n \in Names : Starts(n)
      <4>1. ASSUME NEW n \in Names, Takes(n) PROVE stream' = stream \/ Starts(n)
        <5>1. jobCache[n] # NoJob
          BY Zenon, <4>1 DEF Takes, Held, HeldAt, Pending
        <5>2. jobCache[n].uid \in UIDs
          BY <5>1, ObjectsTyped, JobTyped
        <5>3. \/ UNCHANGED queueVars
              \/ /\ jobCache[n].owner # 0
                 /\ PublishNode(Message("generate", jobCache[n].uid, jobCache[n].uid))
          BY <4>1 DEF Takes, TakesCopy, TakesAnswer
        <5> QED
          BY <4>1, <5>1, <5>2, <5>3, Zenon DEF Starts, queueVars
      <4>2. ASSUME Shrinks \/ (\E u \in UIDs : Born(u)) \/ Restarted
                   \/ (\E n \in Names : Synced(n) \/ Updated(n) \/ Retried(n))
            PROVE  stream' = stream
        BY Zenon, <4>2 DEF Shrinks, Born, Restarted, Synced, Updated, Retried, Released
      <4> QED
        BY <2>3, <4>1, <4>2, Zenon DEF Controlled
    <3>2. \A e \in Entries : InStream(e)' => InStream(e) \/ published'[e[1]] > 0
      BY <2>1, <3>1 DEF InStream
    <3> QED
      BY Zenon, <1>0, <2>0, <3>2 DEF Causality
  <2> QED
    BY Zenon, <2>2, <2>3
<1>3. ASSUME NEW l \in Nodes, task'[l] # NoTask PROVE published'[M(l)'] > 0
  <2>1. \/ task[l] # NoTask /\ task'[l] = task[l]
        \/ \E e \in Entries : InStream(e) /\ task'[l].entry = e
    <3>1. CASE WorkerOnly
      BY Zenon, <1>3, <3>1, Received DEF WorkerOnly
    <3>2. CASE Controlled
      <4>1. task' = task
        BY Zenon, <3>2 DEF Controlled, Shrinks, Born, Restarted, Synced, Takes, Updated, Retried,
                           Released
      <4> QED
        BY <1>3, <4>1
    <3> QED
      BY <3>1, <3>2
  <2>2. CASE task[l] # NoTask /\ task'[l] = task[l]
    <3>1. M(l)' = M(l) /\ M(l) \in NodeMessages /\ published[M(l)] > 0
      BY Zenon, <2>2, TaskTyped DEF M, Causality
    <3> QED
      BY Zenon, <1>0, <3>1
  <2>3. ASSUME NEW e \in Entries, InStream(e), task'[l].entry = e PROVE published'[M(l)'] > 0
    <3>1. M(l)' = e[1] /\ e[1] \in NodeMessages /\ published[e[1]] > 0
      BY Zenon, <2>3 DEF M, Causality, Entries
    <3> QED
      BY <1>0, <3>1
  <2> QED
    BY Zenon, <2>1, <2>2, <2>3
<1> QED
  BY Zenon, <1>1, <1>2, <1>3 DEF Causality

-----------------------------------------------------------------------------
\* The cache stays as it is or is refreshed.
LEMMA CacheStep ==
    ASSUME Controlled \/ WorkerOnly, NEW n \in Names
    PROVE  jobCache'[n] \in {jobCache[n], jobs[n]}
BY Zenon DEF Controlled, WorkerOnly, Shrinks, Born, Restarted, Synced, Takes, Updated, Retried,
             Released

\* Of a job whose scan was started, the controller keeps an owner in its cache.
LEMMA PublishedStep ==
    ASSUME TypeOK, Identity, Behind, Causality, Published, Held, Handlers,
           Controlled \/ WorkerOnly
    PROVE  Published'
<1> SUFFICES ASSUME NEW u \in UIDs, Generated(u)', Live(u)'
             PROVE  /\ jobCache'[NameOf[u]] # NoJob /\ jobCache'[NameOf[u]].uid = u
                    /\ jobCache'[NameOf[u]].owner # 0
  BY Zenon DEF Published
<1> DEFINE n == NameOf[u]
<1>0. n \in Names
  BY NodeAssumption
<1>1. CASE Generated(u)
  <2>1. u \in created
    <3>1. PICK g \in NodeMessages : g = Message("generate", u, u) /\ g.uid = u
      BY Zenon, MessageTyped
    <3> QED
      BY Zenon, <1>1, <3>1 DEF Causality, Generated
  <2>2. jobs[n] # NoJob /\ jobs[n].uid = u
    BY Zenon, <1>0, <2>1, Objects DEF Live
  <2>3. jobCache[n] # NoJob /\ jobCache[n].uid = u /\ jobCache[n].owner # 0
    BY Zenon, <1>1, <2>2 DEF Published, Live
  <2>4. jobCache[n].owner <= jobs[n].owner
    BY Zenon, <1>0, <2>2, <2>3 DEF Behind, NotAhead
  <2>5. jobCache[n].owner \in Nat /\ jobs[n].owner \in Nat
    BY <1>0, <2>2, <2>3, ObjectsTyped, JobTyped, NodeAssumption
  <2>6. jobs[n].owner # 0
    <3>1. \A a, b \in Nat : a # 0 /\ a <= b => b # 0
      OBVIOUS
    <3> QED
      BY Zenon, <2>3, <2>4, <2>5, <3>1
  <2> QED
    BY Zenon, <1>0, <2>2, <2>3, <2>6, CacheStep
<1>2. CASE ~Generated(u)
  <2>1. PICK m \in Names : Starts(m) /\ jobCache[m].uid = u
    BY Zenon, <1>2, PublishedGrows
  <2>2. /\ jobCache[m] # NoJob /\ jobCache[m].owner # 0 /\ jobCache' = jobCache
    BY Zenon, <2>1 DEF Starts, Takes
  <2>3. m = n
    BY Zenon, <2>1, <2>2 DEF Identity, CopyOf
  <2> QED
    BY Zenon, <2>1, <2>2, <2>3
<1> QED
  BY Zenon, <1>1, <1>2
=============================================================================
