----------------------- MODULE WorkloadScanningProofs -----------------------
(***************************************************************************)
(* What the workload scan controller and the registry scan runner promise, *)
(* for any namespaces, pods, images, repositories and configurations, and  *)
(* any number of changes, requests, jobs and restarts: the Registry        *)
(* mirrors the images the selected namespaces run; no rescan request is    *)
(* dropped; the merge of requests asks for what they ask for between them; *)
(* and a catalogue finds what the targets select.                          *)
(***************************************************************************)
EXTENDS WorkloadScanning, FiniteSetTheorems, WellFoundedInduction, TLAPS

\* A resource version names one content of the Registry: a copy with the
\* version of the object is the object.
VersionInv ==
    /\ registry # NoRegistry => registry.rv <= revision
    /\ registryCache # NoRegistry => registryCache.rv <= revision
    /\ registry # NoRegistry /\ registryCache # NoRegistry /\ registry.rv = registryCache.rv
           => registry = registryCache

Labels(i) == IF registry = NoRegistry THEN {} ELSE registry.labels[i]

Wants(ns) == IF Enabled THEN groupImagesByRegistry(ns) ELSE {}

\* A namespace that is not queued labels exactly the images it wants, and the
\* Registry has a condition.
MirrorInv ==
    /\ registry # NoRegistry => \E i \in Images : registry.labels[i] # {}
    /\ ~hasty => \A ns \in Namespaces \ queue, i \in Images :
                     ns \in Labels(i) <=> i \in Wants(ns)

-----------------------------------------------------------------------------
\* What a write leaves: the labels that were asked for, a new annotation for
\* each request, and a new version unless nothing changed.
LEMMA Written ==
    ASSUME WorkloadTypeOK, NEW r \in Registry, NEW requests \in Seq(Scope), Write(r, requests)
    PROVE  /\ registry' \in Registry
           /\ registry'.labels = r.labels
           /\ registry'.rescan = r.rescan \cup (Len(asked) + 1)..(Len(asked) + Len(requests))
           /\ \/ UNCHANGED <<registry, revision>>
              \/ revision' = revision + 1 /\ registry'.rv = revision + 1
           /\ asked' = asked \o requests /\ asked' \in Seq(Scope) /\ Len(asked') <= MaxRequests
           /\ Len(asked') = Len(asked) + Len(requests)
<1> DEFINE new == [r EXCEPT !.rescan = @ \cup (Len(asked) + 1)..(Len(asked) + Len(requests))]
<1>1. /\ Len(asked) + Len(requests) <= MaxRequests
      /\ asked' = asked \o requests
      /\ IF registry = new THEN UNCHANGED <<registry, revision>>
         ELSE /\ revision' = revision + 1
              /\ registry' = [new EXCEPT !.rv = revision + 1]
  BY DEF Write
<1>2. /\ asked' \in Seq(Scope) /\ Len(asked') = Len(asked) + Len(requests)
      /\ Len(asked) \in Nat /\ Len(requests) \in Nat /\ MaxRequests \in Nat
  BY <1>1, WorkloadAssumption DEF WorkloadTypeOK
<1>3. (Len(asked) + 1)..(Len(asked) + Len(requests)) \subseteq 1..MaxRequests
  BY <1>1, <1>2
<1>4. /\ new \in Registry /\ new.labels = r.labels
      /\ new.rescan = r.rescan \cup (Len(asked) + 1)..(Len(asked) + Len(requests))
  BY <1>3 DEF Registry
<1> HIDE DEF new
<1>5. CASE registry = new
  BY <1>1, <1>2, <1>4, <1>5
<1>6. CASE registry # new
  <2>1. registry' = [new EXCEPT !.rv = revision + 1] /\ revision' = revision + 1
    BY <1>1, <1>6
  <2>2. revision + 1 \in Nat
    BY DEF WorkloadTypeOK
  <2>3. /\ registry' \in Registry /\ registry'.labels = new.labels
        /\ registry'.rescan = new.rescan /\ registry'.rv = revision + 1
    BY Zenon, <1>4, <2>1, <2>2 DEF Registry
  <2> QED
    BY <1>1, <1>2, <1>4, <2>1, <2>3
<1> QED
  BY <1>5, <1>6

\* What a namespace wants, and the copy updateRegistry writes, have their types.
LEMMA NewCopy ==
    ASSUME WorkloadTypeOK, Enabled, NEW ns \in Namespaces, NEW needed \in SUBSET Images
    PROVE  /\ config.interval \in BOOLEAN /\ config.scanOnChange \in BOOLEAN
           /\ registryCache # NoRegistry =>
                LET labels == processRepositoryMatchConditions(registryCache, ns, needed)
                    new == [registryCache EXCEPT !.labels = labels, !.interval = config.interval]
                IN  /\ new \in Registry /\ new.labels = labels
                    /\ new.rescan = registryCache.rescan
           /\ [rv |-> 0, labels |-> [i \in Images |-> IF i \in needed THEN {ns} ELSE {}],
               interval |-> config.interval, rescan |-> {}] \in Registry
<1>1. config.interval \in BOOLEAN /\ config.scanOnChange \in BOOLEAN
  BY WorkloadAssumption DEF Enabled, WorkloadTypeOK
<1>2. ASSUME registryCache # NoRegistry
      PROVE  processRepositoryMatchConditions(registryCache, ns, needed)
                 \in [Images -> SUBSET Namespaces]
  BY <1>2 DEF processRepositoryMatchConditions, WorkloadTypeOK, Registry
<1>3. [i \in Images |-> IF i \in needed THEN {ns} ELSE {}] \in [Images -> SUBSET Namespaces]
  OBVIOUS
<1> QED
  BY Zenon, <1>1, <1>2, <1>3 DEF WorkloadTypeOK, Registry

\* What a namespace needs, and what a request asks for, have their types.
LEMMA NeededTyped == ASSUME WorkloadTypeOK, NEW ns PROVE groupImagesByRegistry(ns) \in SUBSET Images
BY DEF groupImagesByRegistry, WorkloadTypeOK

LEMMA RequestTyped ==
    /\ Everything \in Scope
    /\ \A is \in SUBSET Images : buildRescanRequest(is) \in Scope
BY DEF Everything, Scope, buildRescanRequest

-----------------------------------------------------------------------------
(* The outcomes of a reconciliation.                                       *)

\* A write with these labels, on top of a copy with these annotations.
Wrote(labels, rescan) ==
    /\ registry' \in Registry /\ registry'.labels = labels
    /\ registry'.rescan = rescan \cup (Len(asked) + 1)..Len(asked')
    /\ \/ UNCHANGED <<registry, revision>>
       \/ revision' = revision + 1 /\ registry'.rv = revision + 1
    /\ asked' \in Seq(Scope) /\ Len(asked) <= Len(asked') /\ Len(asked') <= MaxRequests
    /\ \A k \in 1..Len(asked) : asked'[k] = asked[k]
    /\ UNCHANGED <<withdrawn, hasty>>

LeftAlone(ns) == registryCache = NoRegistry /\ Wants(ns) = {} /\ LeaveAlone

Deleted(ns) ==
    /\ DeleteRegistry /\ registryCache # NoRegistry
    /\ ~Enabled \/ shouldDelete(ns, Wants(ns))

Created(ns) ==
    /\ Enabled /\ registry = NoRegistry /\ Wants(ns) # {}
    /\ Wrote([i \in Images |-> IF i \in Wants(ns) THEN {ns} ELSE {}], {})

Updated(ns) ==
    /\ Enabled /\ registry # NoRegistry /\ registry = registryCache
    /\ ~shouldDelete(ns, Wants(ns))
    /\ Wrote(processRepositoryMatchConditions(registry, ns, Wants(ns)), registry.rescan)

\* A write is one of the outcomes above.
LEMMA WriteWrote ==
    ASSUME WorkloadTypeOK, NEW r \in Registry, NEW requests \in Seq(Scope), Write(r, requests),
           UNCHANGED <<withdrawn, hasty>>
    PROVE  Wrote(r.labels, r.rescan)
<1>1. Len(asked) \in Nat /\ Len(requests) \in Nat
  BY DEF WorkloadTypeOK
<1>2. \A k \in 1..Len(asked) : (asked \o requests)[k] = asked[k]
  BY DEF WorkloadTypeOK
<1> QED
  BY <1>1, <1>2, Written DEF Wrote

\* A reconciliation has one of the four outcomes.
LEMMA Outcome ==
    ASSUME WorkloadTypeOK, VersionInv, NEW ns \in Namespaces, Reconcile(ns)
    PROVE  /\ queue' = queue \ {ns} /\ UNCHANGED <<clusterVars, registryCache, faults>>
           /\ LeftAlone(ns) \/ Deleted(ns) \/ Created(ns) \/ Updated(ns)
<1> DEFINE needed == groupImagesByRegistry(ns)
<1>1. queue' = queue \ {ns} /\ UNCHANGED <<clusterVars, registryCache, faults>>
  BY DEF Reconcile
<1> SUFFICES LeftAlone(ns) \/ Deleted(ns) \/ Created(ns) \/ Updated(ns)
  BY <1>1
<1>2. needed \in SUBSET Images /\ (Enabled => Wants(ns) = needed) /\ (~Enabled => Wants(ns) = {})
  BY NeededTyped DEF Wants
<1> HIDE DEF needed
<1>3. CASE registryCache = NoRegistry /\ (~Enabled \/ needed = {}) /\ LeaveAlone
  BY <1>2, <1>3 DEF LeftAlone
<1>4. CASE registryCache # NoRegistry /\ (~Enabled \/ shouldDelete(ns, needed)) /\ DeleteRegistry
  BY <1>2, <1>4 DEF Deleted
<1>5. CASE Enabled /\ needed # {} /\ createRegistry(ns, needed) /\ UNCHANGED <<withdrawn, hasty>>
  <2> DEFINE r == [rv |-> 0, labels |-> [i \in Images |-> IF i \in needed THEN {ns} ELSE {}],
                   interval |-> config.interval, rescan |-> {}]
             q == IF config.scanOnChange THEN <<Everything>> ELSE <<>>
  <2>1. r \in Registry
    BY Zenon, <1>2, <1>5, NewCopy
  <2>q. q \in Seq(Scope)
    BY RequestTyped
  <2>2. Write(r, q) /\ registry = NoRegistry
    BY <1>5 DEF createRegistry
  <2>3. Wrote(r.labels, r.rescan)
    <3> HIDE DEF r, q
    <3> QED
      BY <1>5, <2>1, <2>q, <2>2, WriteWrote
  <2> QED
    BY <1>2, <1>5, <2>2, <2>3 DEF Created
<1>6. CASE /\ Enabled /\ registryCache # NoRegistry /\ ~shouldDelete(ns, needed)
           /\ updateRegistry(ns, needed) /\ UNCHANGED <<withdrawn, hasty>>
  <2> DEFINE labels == processRepositoryMatchConditions(registryCache, ns, needed)
             r == [registryCache EXCEPT !.labels = labels, !.interval = config.interval]
             added == extractMatchConditions(r) \ extractMatchConditions(registryCache)
             q == IF config.scanOnChange /\ added # {} THEN <<buildRescanRequest(added)>> ELSE <<>>
  <2>1. r \in Registry /\ r.labels = labels /\ r.rescan = registryCache.rescan
    BY Zenon, <1>2, <1>6, NewCopy
  <2>2. added \in SUBSET Images
    BY DEF extractMatchConditions
  <2>3. q \in Seq(Scope)
    <3> HIDE DEF added
    <3> QED
      BY <2>2, RequestTyped
  <2>4. Write(r, q) /\ registry # NoRegistry /\ registry.rv = registryCache.rv
    BY <1>6 DEF updateRegistry
  <2>5. registry = registryCache
    BY <1>6, <2>4 DEF VersionInv
  <2>6. Wrote(r.labels, r.rescan)
    <3> HIDE DEF r, q
    <3> QED
      BY <1>6, <2>1, <2>3, <2>4, WriteWrote
  <2> QED
    BY <1>2, <1>6, <2>1, <2>4, <2>5, <2>6 DEF Updated
<1> QED
  BY <1>3, <1>4, <1>5, <1>6 DEF Reconcile, needed

-----------------------------------------------------------------------------
(* The steps that write the Registry, apart from the others.               *)

ClusterChanges ==
    \/ \E p \in Pods, is \in SUBSET Images : podImagesChanged(p, is)
    \/ \E c \in Configs \cup {NoConfig} : mapConfigToNamespaces(c)
    \/ \E ns \in Namespaces : mapNamespace(ns)

\* Steps after which the controller's copy is the Registry.
CacheCatchesUp ==
    /\ registryCache' = registry
    /\ queue' \in {queue, Namespaces}
    /\ UNCHANGED <<clusterVars, registryVars>>

\* Every step, by what it does to the Registry and the copy of it.
LEMMA NextCases ==
    ASSUME [Next]_vars
    PROVE  \/ ClusterChanges
           \/ \E ns \in Namespaces : Reconcile(ns)
           \/ CacheCatchesUp
           \/ removeRescanAnnotations
           \/ UNCHANGED workloadVars
<1> USE DEF workloadVars, clusterVars, registryVars
<1>1. CASE \/ \E p \in Pods, is \in SUBSET Images : Workload(podImagesChanged(p, is))
           \/ \E c \in Configs \cup {NoConfig} : Workload(mapConfigToNamespaces(c))
           \/ \E ns \in Namespaces : Workload(mapNamespace(ns))
  BY <1>1, Zenon DEF ClusterChanges, Workload
<1>2. CASE \E ns \in Namespaces : Workload(Reconcile(ns))
  BY <1>2, Zenon DEF Workload
<1>3. CASE Workload(SyncRegistry) \/ Restart
  BY <1>3 DEF Workload, SyncRegistry, Restart, RestartWorkload, CacheCatchesUp
<1>4. CASE createScanJob \/ RemovalFails \/ SyncJobs
  BY <1>4, Zenon DEF createScanJob, RemovalFails, SyncJobs
<1>5. CASE \E n \in DOMAIN jobs : reconcileScanJob(n) \/ Finish(n)
  BY <1>5, Zenon DEF reconcileScanJob, Finish
<1>6. CASE UNCHANGED vars
  BY <1>6 DEF vars
<1> QED
  BY Zenon, <1>1, <1>2, <1>3, <1>4, <1>5, <1>6 DEF Next

\* Removing annotations leaves the labels.
LEMMA Removed ==
    ASSUME WorkloadTypeOK, VersionInv, removeRescanAnnotations
    PROVE  /\ UNCHANGED <<clusterVars, queue, registryCache, asked, withdrawn, hasty, faults>>
           /\ registry # NoRegistry /\ registry = registryCache
           /\ registry' \in Registry /\ registry'.labels = registry.labels
           /\ registry'.rescan = registry.rescan \ removing
           /\ \/ UNCHANGED <<registry, revision>>
              \/ revision' = revision + 1 /\ registry'.rv = revision + 1
<1>1. registry \in Registry /\ registry # NoRegistry /\ registry = registryCache /\ revision + 1 \in Nat
  BY DEF removeRescanAnnotations, WorkloadTypeOK, VersionInv
<1>2. UNCHANGED <<clusterVars, queue, registryCache, asked, withdrawn, hasty, faults>>
  BY DEF removeRescanAnnotations
<1>3. CASE registry.rescan \cap removing = {}
  BY <1>1, <1>2, <1>3 DEF removeRescanAnnotations
<1>4. CASE registry.rescan \cap removing # {}
  <2>1. /\ registry' = [registry EXCEPT !.rescan = @ \ removing, !.rv = revision + 1]
        /\ revision' = revision + 1
    BY <1>4 DEF removeRescanAnnotations
  <2>2. /\ registry' \in Registry /\ registry'.labels = registry.labels
        /\ registry'.rescan = registry.rescan \ removing /\ registry'.rv = revision + 1
    BY Zenon, <1>1, <2>1 DEF Registry
  <2> QED
    BY <1>1, <1>2, <2>1, <2>2
<1> QED
  BY <1>3, <1>4

\* Every step keeps the types of the workload scan controller's state.
LEMMA WorkloadTypeStep == WorkloadTypeOK /\ VersionInv /\ [Next]_vars => WorkloadTypeOK'
<1> SUFFICES ASSUME WorkloadTypeOK, VersionInv, [Next]_vars PROVE WorkloadTypeOK'
  OBVIOUS
<1> USE DEF clusterVars, registryVars, workloadVars
<1>1. CASE ClusterChanges
  <2>1. /\ pods' \in [Pods -> SUBSET Images] /\ labelled' \subseteq Namespaces
        /\ queue' \subseteq Namespaces /\ config' \in Configs \cup {NoConfig}
        /\ UNCHANGED <<registryVars, registryCache>>
    BY <1>1, WorkloadAssumption
    DEF ClusterChanges, podImagesChanged, mapConfigToNamespaces, mapNamespace, Selected, WorkloadTypeOK
  <2> QED
    BY <2>1 DEF WorkloadTypeOK
<1>2. ASSUME NEW ns \in Namespaces, Reconcile(ns)
      PROVE  WorkloadTypeOK'
  <2>1. queue' = queue \ {ns} /\ UNCHANGED <<clusterVars, registryCache>>
    BY <1>2, Outcome
  <2>2. CASE LeftAlone(ns)
    BY <2>1, <2>2 DEF LeftAlone, LeaveAlone, WorkloadTypeOK
  <2>3. CASE Deleted(ns)
    <3>1. withdrawn' \subseteq 1..MaxRequests
      BY Zenon, <2>3 DEF Deleted, DeleteRegistry, WorkloadTypeOK, Registry
    <3> QED
      BY <2>1, <2>3, <3>1 DEF Deleted, DeleteRegistry, WorkloadTypeOK
  <2>4. CASE Created(ns) \/ Updated(ns)
    <3>1. /\ registry' \in Registry /\ revision' \in Nat
          /\ asked' \in Seq(Scope) /\ Len(asked') <= MaxRequests /\ UNCHANGED <<withdrawn, hasty>>
      BY <2>4 DEF Created, Updated, Wrote, WorkloadTypeOK
    <3> QED
      BY <2>1, <3>1 DEF WorkloadTypeOK
  <2> QED
    BY <1>2, <2>2, <2>3, <2>4, Outcome
<1>3. CASE CacheCatchesUp
  BY <1>3 DEF CacheCatchesUp, WorkloadTypeOK
<1>4. CASE removeRescanAnnotations
  <2>1. /\ registry' \in Registry /\ revision' \in Nat
        /\ UNCHANGED <<clusterVars, queue, registryCache, asked, withdrawn, hasty>>
    BY <1>4, Removed DEF WorkloadTypeOK
  <2> QED
    BY <2>1 DEF WorkloadTypeOK
<1>5. CASE UNCHANGED workloadVars
  BY <1>5 DEF WorkloadTypeOK
<1> QED
  BY <1>1, <1>2, <1>3, <1>4, <1>5, NextCases

\* A write gives the Registry a version that no copy has.
LEMMA VersionStep == WorkloadTypeOK /\ VersionInv /\ [Next]_vars => VersionInv'
<1> SUFFICES ASSUME WorkloadTypeOK, VersionInv, [Next]_vars PROVE VersionInv'
  OBVIOUS
<1> USE DEF clusterVars, registryVars, workloadVars
<1>1. ASSUME UNCHANGED registryCache, revision' = revision + 1, registry'.rv = revision + 1
      PROVE  VersionInv'
  BY <1>1 DEF VersionInv, WorkloadTypeOK, Registry
<1>2. ASSUME UNCHANGED <<registry, revision, registryCache>>
      PROVE  VersionInv'
  BY <1>2 DEF VersionInv
<1>3. CASE ClusterChanges
  BY <1>2, <1>3 DEF ClusterChanges, podImagesChanged, mapConfigToNamespaces, mapNamespace
<1>4. ASSUME NEW ns \in Namespaces, Reconcile(ns)
      PROVE  VersionInv'
  <2>1. UNCHANGED registryCache
    BY <1>4, Outcome
  <2>2. CASE LeftAlone(ns)
    BY <1>2, <2>1, <2>2 DEF LeftAlone, LeaveAlone
  <2>3. CASE Deleted(ns)
    BY <2>1, <2>3 DEF Deleted, DeleteRegistry, VersionInv
  <2>4. CASE Created(ns) \/ Updated(ns)
    BY <1>1, <1>2, <2>1, <2>4 DEF Created, Updated, Wrote
  <2> QED
    BY <1>4, <2>2, <2>3, <2>4, Outcome
<1>5. CASE CacheCatchesUp
  BY <1>5 DEF CacheCatchesUp, VersionInv
<1>6. CASE removeRescanAnnotations
  BY <1>1, <1>2, <1>6, Removed
<1>7. CASE UNCHANGED workloadVars
  BY <1>2, <1>7
<1> QED
  BY <1>3, <1>4, <1>5, <1>6, <1>7, NextCases

-----------------------------------------------------------------------------
\* What a namespace wants changes only when the namespace is queued.
LEMMA WantsKept ==
    ASSUME WorkloadTypeOK, ClusterChanges
    PROVE  /\ UNCHANGED <<registryVars, registryCache>> /\ queue \subseteq queue'
           /\ \A ns \in Namespaces \ queue' : Wants(ns)' = Wants(ns)
<1> USE DEF registryVars
<1>1. ASSUME NEW p \in Pods, NEW is, podImagesChanged(p, is), NEW ns \in Namespaces \ queue'
      PROVE  Wants(ns)' = Wants(ns)
  <2>1. /\ ns # NamespaceOf[p] /\ UNCHANGED <<config, labelled>>
        /\ \A q \in Pods : NamespaceOf[q] = ns => pods'[q] = pods[q]
    BY <1>1 DEF podImagesChanged, WorkloadTypeOK
  <2>2. UNION {pods'[q] : q \in {q \in Pods : NamespaceOf[q] = ns}} =
        UNION {pods[q] : q \in {q \in Pods : NamespaceOf[q] = ns}}
    BY <2>1
  <2> QED
    BY Zenon, <2>1, <2>2 DEF Wants, Enabled, groupImagesByRegistry, checkNamespaceSelector, Selected
<1>2. ASSUME NEW c \in Configs \cup {NoConfig}, mapConfigToNamespaces(c), NEW ns \in Namespaces \ queue'
      PROVE  Wants(ns)' = Wants(ns)
  <2>1. /\ ns \notin Selected(config) /\ ns \notin Selected(config')
        /\ UNCHANGED <<pods, labelled>>
    BY <1>2 DEF mapConfigToNamespaces
  <2>2. Selected(config)' = Selected(config')
    BY <2>1 DEF Selected
  <2> QED
    BY <2>1, <2>2 DEF Wants, groupImagesByRegistry, checkNamespaceSelector
<1>3. ASSUME NEW m \in Namespaces, mapNamespace(m), NEW ns \in Namespaces \ queue'
      PROVE  Wants(ns)' = Wants(ns)
  <2>1. /\ UNCHANGED <<pods, config>> /\ (ns \in labelled' <=> ns \in labelled)
    BY <1>3 DEF mapNamespace
  <2> QED
    BY <2>1 DEF Wants, Enabled, groupImagesByRegistry, checkNamespaceSelector, Selected
<1>4. UNCHANGED <<registryVars, registryCache>> /\ queue \subseteq queue'
  BY DEF ClusterChanges, podImagesChanged, mapConfigToNamespaces, mapNamespace
<1> QED
  BY <1>1, <1>2, <1>3, <1>4 DEF ClusterChanges

\* Steps that leave the cluster alone leave what a namespace wants alone.
LEMMA WantsSame ==
    ASSUME UNCHANGED clusterVars
    PROVE  Enabled' = Enabled /\ \A ns : Wants(ns)' = Wants(ns)
BY DEF clusterVars, Wants, Enabled, groupImagesByRegistry, checkNamespaceSelector, Selected

\* A reconciled namespace has its labels, and the other namespaces theirs.
LEMMA MirrorReconcile ==
    ASSUME WorkloadTypeOK, VersionInv, MirrorInv, NEW ns \in Namespaces, Reconcile(ns)
    PROVE  MirrorInv'
<1>1. queue' = queue \ {ns} /\ \A m : Wants(m)' = Wants(m)
  BY Outcome, WantsSame
<1>2. Wants(ns) \in SUBSET Images
  BY NeededTyped DEF Wants
<1>3. CASE LeftAlone(ns)
  BY Zenon, <1>1, <1>3 DEF LeftAlone, LeaveAlone, MirrorInv, Labels, WorkloadTypeOK
<1>4. CASE Deleted(ns)
  <2>1. registry' = NoRegistry /\ \A i : Labels(i)' = {}
    BY <1>4 DEF Deleted, DeleteRegistry, Labels
  <2> SUFFICES ASSUME ~hasty', NEW m \in Namespaces \ queue', NEW i \in Images, i \in Wants(m)
               PROVE  FALSE
    BY <1>1, <2>1 DEF MirrorInv
  <2>2. ~hasty /\ registry = registryCache /\ registry # NoRegistry
    BY Zenon, <1>4 DEF Deleted, DeleteRegistry, WorkloadTypeOK
  <2>3. Enabled /\ shouldDelete(ns, Wants(ns))
    BY <1>4 DEF Deleted, Wants
  <2>4. processRepositoryMatchConditions(registry, ns, Wants(ns))[i] = {}
    BY <2>2, <2>3 DEF shouldDelete
  <2>5. i \notin Wants(ns) /\ registry.labels[i] \ {ns} = {}
    BY <2>4 DEF processRepositoryMatchConditions
  <2> QED
    BY <1>1, <2>2, <2>5 DEF MirrorInv, Labels
<1>5. CASE Created(ns)
  <2>1. /\ registry' \in Registry /\ registry' # NoRegistry
        /\ \A i \in Images : registry'.labels[i] = IF i \in Wants(ns) THEN {ns} ELSE {}
        /\ registry = NoRegistry /\ Wants(ns) # {} /\ UNCHANGED hasty
    BY <1>5, WorkloadAssumption DEF Created, Wrote
  <2>2. \A i \in Images : Labels(i) = {} /\ Labels(i)' = IF i \in Wants(ns) THEN {ns} ELSE {}
    BY <2>1 DEF Labels
  <2>3. \E i \in Images : registry'.labels[i] # {}
    BY <1>2, <2>1
  <2> QED
    BY <1>1, <2>1, <2>2, <2>3 DEF MirrorInv
<1>6. CASE Updated(ns)
  <2>1. /\ registry' \in Registry /\ registry' # NoRegistry
        /\ registry # NoRegistry /\ UNCHANGED hasty
        /\ \A i \in Images : registry'.labels[i] =
               IF i \in Wants(ns) THEN registry.labels[i] \cup {ns} ELSE registry.labels[i] \ {ns}
    BY <1>6, WorkloadAssumption DEF Updated, Wrote, processRepositoryMatchConditions
  <2>2. \A i \in Images :
           /\ Labels(i)' = IF i \in Wants(ns) THEN Labels(i) \cup {ns} ELSE Labels(i) \ {ns}
    BY <2>1 DEF Labels
  <2>3. \E i \in Images : registry'.labels[i] # {}
    BY <1>6 DEF Updated, Wrote, shouldDelete
  <2> QED
    BY <1>1, <2>1, <2>2, <2>3 DEF MirrorInv
<1> QED
  BY <1>3, <1>4, <1>5, <1>6, Outcome

\* Every step keeps MirrorInv.
LEMMA MirrorStep == WorkloadTypeOK /\ VersionInv /\ MirrorInv /\ [Next]_vars => MirrorInv'
<1> SUFFICES ASSUME WorkloadTypeOK, VersionInv, MirrorInv, [Next]_vars PROVE MirrorInv'
  OBVIOUS
<1> USE DEF registryVars, workloadVars
<1>1. CASE ClusterChanges
  BY <1>1, WantsKept DEF MirrorInv, Labels
<1>2. CASE CacheCatchesUp
  BY <1>2, WantsSame DEF CacheCatchesUp, MirrorInv, Labels
<1>3. CASE removeRescanAnnotations
  <2>1. /\ UNCHANGED <<clusterVars, queue, hasty>> /\ registry # NoRegistry /\ registry' # NoRegistry
        /\ registry'.labels = registry.labels
    BY <1>3, Removed, WorkloadAssumption
  <2>2. \A i : Labels(i)' = Labels(i)
    BY <2>1 DEF Labels
  <2> QED
    BY <2>1, <2>2, WantsSame DEF MirrorInv
<1>4. CASE UNCHANGED workloadVars
  BY <1>4, WantsSame DEF MirrorInv, Labels
<1> QED
  BY <1>1, <1>2, <1>3, <1>4, MirrorReconcile, NextCases

WorkloadInv == WorkloadTypeOK /\ VersionInv /\ MirrorInv

\* The first state, with no pod and no Registry.
LEMMA WorkloadInitially == Init => WorkloadInv
<1> SUFFICES ASSUME Init PROVE WorkloadInv
  OBVIOUS
<1>1. WorkloadTypeOK
  <2>1. asked \in Seq(Scope) /\ Len(asked) <= MaxRequests
    <3>1. asked = <<>>
      BY DEF Init, WorkloadInit
    <3>2. MaxRequests \in Nat
      BY WorkloadAssumption
    <3>3. asked \in Seq(Scope) /\ Len(asked) = 0
      BY <3>1
    <3> QED
      BY <3>2, <3>3
  <2>2. pods \in [Pods -> SUBSET Images]
    BY DEF Init, WorkloadInit
  <2> QED
    BY Zenon, <2>1, <2>2 DEF Init, WorkloadInit, WorkloadTypeOK
<1>2. VersionInv
  BY DEF Init, WorkloadInit, VersionInv
<1>3. MirrorInv
  BY DEF Init, WorkloadInit, MirrorInv, Labels, Wants, groupImagesByRegistry
<1> QED
  BY <1>1, <1>2, <1>3 DEF WorkloadInv

\* The invariant of the controller holds throughout.
LEMMA WorkloadInvariant == Spec => []WorkloadInv
<1>1. Init => WorkloadInv
  BY WorkloadInitially
<1>2. WorkloadInv /\ [Next]_vars => WorkloadInv'
  BY WorkloadTypeStep, VersionStep, MirrorStep DEF WorkloadInv
<1> QED
  BY <1>1, <1>2, PTL DEF Spec

\* Once every namespace is reconciled, the Registry has exactly the conditions
\* and labels of the images that run, whatever the order of pod events,
\* configuration changes, conflicts and restarts, and whatever the runner
\* removes meanwhile.
THEOREM RegistryMirrorsPods == Spec => []Mirrored
<1>1. WorkloadInv => Mirrored
  <2> DEFINE wanted == [i \in Images |-> {ns \in Namespaces : Enabled /\ i \in groupImagesByRegistry(ns)}]
  <2> SUFFICES ASSUME WorkloadInv, queue = {}, ~hasty
               PROVE  IF \A i \in Images : wanted[i] = {} THEN registry = NoRegistry
                      ELSE registry # NoRegistry /\ registry.labels = wanted
    BY DEF Mirrored
  <2>1. \A i \in Images, ns \in Namespaces : ns \in Labels(i) <=> ns \in wanted[i]
    BY DEF WorkloadInv, MirrorInv, Wants
  <2>2. registry # NoRegistry => registry.labels \in [Images -> SUBSET Namespaces]
    BY DEF WorkloadInv, WorkloadTypeOK, Registry
  <2>3. \A i \in Images : Labels(i) = wanted[i]
    BY <2>1, <2>2 DEF Labels
  <2> HIDE DEF wanted
  <2>4. wanted = [i \in Images |-> wanted[i]]
    BY DEF wanted
  <2>5. CASE registry = NoRegistry
    BY <2>3, <2>5 DEF Labels
  <2>6. CASE registry # NoRegistry
    BY <2>2, <2>3, <2>4, <2>6 DEF Labels, WorkloadInv, MirrorInv
  <2> QED
    BY <2>5, <2>6
<1> QED
  BY <1>1, WorkloadInvariant, PTL

-----------------------------------------------------------------------------
(* What folding mergeAnnotation over a sequence computes.  The fold is a   *)
(* recursive function on the subsets of the sequence's domain; that there  *)
(* is one, and what it yields, is shown with a smallest counterexample.    *)

\* The recursion of mergeAnnotations, with g as its own result on smaller sets.
Step(g, s, seq) ==
    IF s = {} THEN NothingMerged ELSE mergeAnnotation(g[s \ {Max(s)}], seq[Max(s)])

IsFold(g, D, seq) == g = [s \in SUBSET D |-> Step(g, s, seq)]

\* mergeAnnotations chooses such a function.
LEMMA FoldIsChosen ==
    ASSUME NEW seq
    PROVE  mergeAnnotations(seq) =
               (CHOOSE g : IsFold(g, DOMAIN seq, seq))[DOMAIN seq]
BY DEF mergeAnnotations, MapThenFoldSet, IsFold, Step

\* A set of numbers has a smallest one.
LEMMA SmallestNumber ==
    ASSUME NEW T \in SUBSET Nat, T # {}
    PROVE  \E c \in T : \A d \in T : c <= d
<1>1. PICK c \in T : \A d \in T : ~(<<d, c>> \in OpToRel(<, Nat))
  BY Zenon, WFMin, NatLessThanWellFounded
<1>2. \A d \in T : <<d, c>> \in OpToRel(<, Nat) <=> d < c
  <2>1. \A d \in T : d \in Nat /\ c \in Nat
    OBVIOUS
  <2> QED
    BY <2>1, Zenon DEF OpToRel
<1>3. \A d \in T : ~(d < c)
  BY <1>1, <1>2, Zenon
<1>4. ASSUME NEW e \in T, \A d \in T : ~(d < e) PROVE \E b \in T : \A d \in T : b <= d
  BY <1>4
<1> QED
  BY <1>3, <1>4, Zenon

Upto(n) == 1..n

\* A set of sets of numbers up to n has one that contains no other of them.
LEMMA SmallestSet ==
    ASSUME NEW n \in Nat, NEW T \in SUBSET (SUBSET Upto(n)), T # {}
    PROVE  \E s \in T : \A u \in T : u \subseteq s => u = s
<1>1. IsFiniteSet(Upto(n))
  BY FS_Interval DEF Upto
<1>2. \A s \in T : s \in FiniteSubsetsOf(Upto(n)) /\ s \in SUBSET Upto(n)
  BY <1>1, FS_Subset DEF FiniteSubsetsOf
<1>3. T \subseteq FiniteSubsetsOf(Upto(n))
  BY <1>2
<1>4. PICK s \in T : \A u \in T : ~(<<u, s>> \in StrictSubsetOrdering(Upto(n)))
  BY <1>3, WFMin, FS_StrictSubsetOrderingWellFounded, Zenon
<1> QED
  BY Zenon, <1>2, <1>4 DEF StrictSubsetOrdering

\* A non-empty set of positions has a last one.
LEMMA MaxInSet ==
    ASSUME NEW n \in Nat, NEW s \in SUBSET Upto(n), s # {}
    PROVE  Max(s) \in s /\ \A y \in s : Max(s) >= y
<1> DEFINE Above == {c \in Nat : \A y \in s : y <= c}
<1>1. Above \in SUBSET Nat /\ n \in Above
  BY DEF Upto
<1>2. PICK c \in Above : \A d \in Above : c <= d
  <2> HIDE DEF Above
  <2> QED
    BY <1>1, SmallestNumber
<1>3. c \in s
  <2> SUFFICES ASSUME c \notin s PROVE FALSE
    OBVIOUS
  <2>0. PICK y \in s : TRUE
    OBVIOUS
  <2>1. c \in Nat /\ c # 0
    BY <1>2, <2>0 DEF Upto
  <2>2. c - 1 \in Above
    BY <1>2, <2>1 DEF Upto
  <2> QED
    BY <1>2, <2>1, <2>2
<1> QED
  BY Zenon, <1>2, <1>3 DEF Max

\* Two such functions agree where both are defined.
LEMMA FoldUnique ==
    ASSUME NEW seq, NEW n \in Nat, NEW A, NEW B, NEW g, NEW h, IsFold(g, A, seq), IsFold(h, B, seq)
    PROVE  \A s : s \subseteq Upto(n) /\ s \subseteq A /\ s \subseteq B => g[s] = h[s]
<1> DEFINE T == {s \in SUBSET (Upto(n) \cap A \cap B) : g[s] # h[s]}
<1> SUFFICES ASSUME T # {} PROVE FALSE
  BY Zenon
<1>1. T \in SUBSET (SUBSET Upto(n))
  OBVIOUS
<1>2. PICK s \in T : \A u \in T : u \subseteq s => u = s
  <2>1. \A X \in SUBSET (SUBSET Upto(n)) : X # {} => \E s \in X : \A u \in X : u \subseteq s => u = s
    BY SmallestSet
  <2> HIDE DEF T
  <2> QED
    BY <1>1, <2>1, Zenon
<1>3. s \in SUBSET A /\ s \in SUBSET B /\ s \in SUBSET Upto(n)
  BY <1>2
<1>4. g[s] = Step(g, s, seq) /\ h[s] = Step(h, s, seq)
  BY <1>3 DEF IsFold
<1>5. s # {}
  BY <1>2, <1>4 DEF Step
<1> DEFINE u == s \ {Max(s)}
<1>6. Max(s) \in s /\ u # s /\ u \subseteq s
  BY <1>3, <1>5, MaxInSet
<1>7. g[u] = h[u]
  BY <1>2, <1>6
<1>8. g[s] = h[s]
  BY <1>4, <1>5, <1>7 DEF Step
<1> QED
  BY <1>2, <1>8

\* Two folds, over a domain and over a smaller one, agree on the smaller one.
LEMMA FoldAgree ==
    ASSUME NEW seq, NEW n \in Nat, NEW A \in SUBSET Upto(n), NEW B \in SUBSET A,
           NEW g, NEW h, IsFold(g, A, seq), IsFold(h, B, seq)
    PROVE  g[B] = h[B]
<1>1. B \subseteq Upto(n) /\ B \subseteq A /\ B \subseteq B
  OBVIOUS
<1> QED
  <2>1. \A s : s \subseteq Upto(n) /\ s \subseteq A /\ s \subseteq B => g[s] = h[s]
    BY FoldUnique
  <2> QED
    BY <1>1, <2>1, Zenon

\* There is such a function.
LEMMA FoldExists ==
    ASSUME NEW seq, NEW n \in Nat
    PROVE  \E g : IsFold(g, Upto(n), seq)
<1> DEFINE T == {D \in SUBSET Upto(n) : ~ \E g : IsFold(g, D, seq)}
<1> SUFFICES ASSUME T # {} PROVE FALSE
  OBVIOUS
<1>1. PICK D \in T : \A u \in T : u \subseteq D => u = D
  <2>1. T \in SUBSET (SUBSET Upto(n))
    OBVIOUS
  <2> HIDE DEF T
  <2> QED
    BY <2>1, SmallestSet
<1> DEFINE part == [u \in SUBSET D |-> CHOOSE h : IsFold(h, u, seq)]
           g == [s \in SUBSET D |-> IF s = {} THEN NothingMerged
                    ELSE mergeAnnotation(part[s \ {Max(s)}][s \ {Max(s)}], seq[Max(s)])]
<1>2. D \in SUBSET Upto(n) /\ ~ \E h : IsFold(h, D, seq)
  BY <1>1
<1>3. \A u \in SUBSET D : u # D => IsFold(part[u], u, seq)
  <2> SUFFICES ASSUME NEW u \in SUBSET D, u # D PROVE IsFold(part[u], u, seq)
    BY Zenon
  <2>1. \E h : IsFold(h, u, seq)
    BY <1>1, <1>2
  <2> QED
    BY <2>1
<1>4. \A s \in SUBSET D : s # {} => Max(s) \in s
  BY <1>2, MaxInSet
<1>5. ASSUME NEW u \in SUBSET D, u # D PROVE g[u] = part[u][u]
  <2>1. part[u][u] = Step(part[u], u, seq)
    <3>1. IsFold(part[u], u, seq) /\ u \in SUBSET u
      BY Zenon, <1>3, <1>5
    <3> HIDE DEF part
    <3> QED
      BY <3>1 DEF IsFold
  <2>2. CASE u = {}
    BY Zenon, <2>1, <2>2 DEF Step
  <2>3. CASE u # {}
    <3> DEFINE v == u \ {Max(u)}
    <3>1. v \in SUBSET D /\ v # D /\ v \subseteq u
      BY <1>4, <1>5, <2>3
    <3>2. part[v][v] = part[u][v]
      <4>1. IsFold(part[u], u, seq) /\ IsFold(part[v], v, seq)
        BY Zenon, <1>3, <1>5, <3>1
      <4>2. u \in SUBSET Upto(n) /\ v \in SUBSET u
        BY <1>2, <3>1
      <4> HIDE DEF part, v, g, T
      <4> QED
        BY <4>1, <4>2, FoldAgree
    <3> QED
      BY Zenon, <2>1, <2>3, <3>2 DEF Step
  <2> QED
    BY Zenon, <2>2, <2>3
<1>6. \A s \in SUBSET D : g[s] = Step(g, s, seq)
  <2> SUFFICES ASSUME NEW s \in SUBSET D, s # {} PROVE g[s] = Step(g, s, seq)
    BY Zenon DEF Step
  <2> DEFINE u == s \ {Max(s)}
  <2>1. u \in SUBSET D /\ u # D
    BY <1>4
  <2>2. g[u] = part[u][u]
    BY Zenon, <1>5, <2>1
  <2>3. g[s] = mergeAnnotation(part[u][u], seq[Max(s)])
    BY Zenon
  <2> HIDE DEF g, part
  <2> QED
    BY Zenon, <2>2, <2>3 DEF Step
<1>7. IsFold(g, D, seq)
  <2>1. g = [s \in SUBSET D |-> g[s]]
    BY SMTT(30)
  <2> HIDE DEF g
  <2> QED
    BY Zenon, <1>6, <2>1 DEF IsFold
<1> QED
  BY <1>2, <1>7

\* The fold as a sequence of accumulators.
LEMMA FoldSteps ==
    ASSUME NEW n \in Nat, NEW seq, DOMAIN seq = 1..n
    PROVE  \E acc : /\ mergeAnnotations(seq) = acc[n]
                    /\ acc[0] = NothingMerged
                    /\ \A k \in 1..n : acc[k] = mergeAnnotation(acc[k - 1], seq[k])
<1> DEFINE g == CHOOSE g : IsFold(g, 1..n, seq)
           acc == [k \in 0..n |-> g[Upto(k)]]
<1>1. IsFold(g, Upto(n), seq)
  BY FoldExists DEF Upto
<1> HIDE DEF g
<1>2. \A s \in SUBSET Upto(n) : g[s] = Step(g, s, seq)
  BY <1>1 DEF IsFold
<1>3. Upto(0) = {}
  BY DEF Upto
<1>4. ASSUME NEW k \in 1..n
      PROVE  /\ Upto(k) # {} /\ Upto(k) \in SUBSET Upto(n) /\ k \in Nat /\ k - 1 \in 0..n
             /\ Max(Upto(k)) = k /\ Upto(k) \ {k} = Upto(k - 1)
  <2>0. Upto(k) \ {k} = Upto(k - 1)
    BY DEF Upto
  <2>1. /\ Upto(k) # {} /\ Upto(k) \in SUBSET Upto(n) /\ k \in Nat /\ k - 1 \in 0..n
        /\ k \in Upto(k) /\ \A j \in Upto(k) : j \in Nat /\ j <= k
    BY DEF Upto
  <2>2. Max(Upto(k)) \in Upto(k) /\ \A y \in Upto(k) : Max(Upto(k)) >= y
    BY <2>1, MaxInSet
  <2>3. Max(Upto(k)) = k
    BY <2>1, <2>2
  <2> QED
    BY <2>0, <2>1, <2>3
<1>5. acc[0] = NothingMerged
  <2>1. {} \in SUBSET Upto(n) /\ 0 \in 0..n
    OBVIOUS
  <2> QED
    BY <1>2, <1>3, <2>1 DEF Step
<1>6. ASSUME NEW k \in 1..n
      PROVE  acc[k] = mergeAnnotation(acc[k - 1], seq[k])
  <2>1. g[Upto(k)] = mergeAnnotation(g[Upto(k - 1)], seq[k])
    BY Zenon, <1>2, <1>4 DEF Step
  <2>2. acc[k] = g[Upto(k)] /\ acc[k - 1] = g[Upto(k - 1)]
    BY <1>4
  <2> QED
    BY <2>1, <2>2
<1>7. mergeAnnotations(seq) = acc[n]
  <2>1. acc[n] = g[Upto(n)]
    OBVIOUS
  <2> QED
    BY <2>1, FoldIsChosen DEF g, Upto
<1> HIDE DEF acc
<1> QED
  BY <1>5, <1>6, <1>7

\* The requests among the first k annotations, and those of them that name
\* what they ask for.
ValidOf(seq, k) == {seq[j] : j \in 1..k} \ {Malformed}

Partial(R) == R \ {Everything}

\* What merging the requests R is to yield, in whatever order.
IsMerged(a, R) ==
    /\ a \in [all : BOOLEAN, whole : SUBSET Repositories, of : SUBSET Images]
    /\ a.all <=> Everything \in R
    /\ a.whole = {q \in Repositories : \E r \in Partial(R) : q \in r.whole}
    /\ a.of = {i \in Images : RepositoryOf[i] \notin a.whole /\ \E r \in Partial(R) : i \in r.of}

\* Merging one more annotation.
LEMMA MergeOne ==
    ASSUME NEW R \in SUBSET Scope, NEW a, IsMerged(a, R), NEW r \in Scope
    PROVE  IsMerged(mergeRescanRequest(a, r), R \cup {r})
<1> DEFINE m == mergeRescanRequest(a, r)
<1> SUFFICES IsMerged(m, R \cup {r})
  OBVIOUS
<1>1. /\ a = [all |-> a.all, whole |-> a.whole, of |-> a.of]
      /\ a.all \in BOOLEAN /\ a.whole \in SUBSET Repositories /\ a.of \in SUBSET Images
  BY DEF IsMerged
<1>2. ASSUME NEW all \in BOOLEAN, NEW w \in SUBSET Repositories, NEW o \in SUBSET Images,
             m = [all |-> all, whole |-> w, of |-> o],
             all <=> Everything \in R \cup {r},
             w = {q \in Repositories : \E p \in Partial(R \cup {r}) : q \in p.whole},
             o = {i \in Images : RepositoryOf[i] \notin w /\ \E p \in Partial(R \cup {r}) : i \in p.of}
      PROVE  IsMerged(m, R \cup {r})
  <2> HIDE DEF m
  <2>1. /\ m \in [all : BOOLEAN, whole : SUBSET Repositories, of : SUBSET Images]
        /\ m.all = all /\ m.whole = w /\ m.of = o
    BY Zenon, <1>2
  <2> QED
    BY Zenon, <1>2, <2>1 DEF IsMerged
<1>3. CASE r = Everything
  <2>1. m = [all |-> TRUE, whole |-> a.whole, of |-> a.of]
    BY Zenon, <1>1, <1>3 DEF mergeRescanRequest
  <2>2. Partial(R \cup {r}) = Partial(R)
    BY <1>3 DEF Partial
  <2>3. /\ a.whole = {q \in Repositories : \E p \in Partial(R \cup {r}) : q \in p.whole}
        /\ a.of = {i \in Images : RepositoryOf[i] \notin a.whole /\
                                  \E p \in Partial(R \cup {r}) : i \in p.of}
    BY Zenon, <2>2 DEF IsMerged
  <2> HIDE DEF m
  <2> QED
    BY Zenon, <1>1, <1>2, <1>3, <2>1, <2>3
<1>4. CASE r # Everything
  <2> DEFINE w == a.whole \cup r.whole
             o == {i \in a.of \cup r.of : RepositoryOf[i] \notin w}
  <2>1. m = [all |-> a.all, whole |-> w, of |-> o]
    BY Zenon, <1>1, <1>4 DEF mergeRescanRequest
  <2>2. Partial(R \cup {r}) = Partial(R) \cup {r}
    BY <1>4 DEF Partial
  <2>3. r.whole \in SUBSET Repositories /\ r.of \in SUBSET Images
    BY DEF Scope
  <2>4. w = {q \in Repositories : \E p \in Partial(R \cup {r}) : q \in p.whole}
    BY Zenon, <2>2, <2>3 DEF IsMerged
  <2>5. o = {i \in Images : RepositoryOf[i] \notin w /\ \E p \in Partial(R \cup {r}) : i \in p.of}
    BY Zenon, <2>2, <2>3 DEF IsMerged
  <2>6. w \in SUBSET Repositories /\ o \in SUBSET Images
    BY <1>1, <2>3
  <2>7. a.all <=> Everything \in R \cup {r}
    BY <1>4 DEF IsMerged
  <2> HIDE DEF w, o, m
  <2> QED
    BY Zenon, <1>1, <1>2, <2>1, <2>4, <2>5, <2>6, <2>7
<1> QED
  BY <1>3, <1>4

\* The fold over a whole sequence merges the valid annotations in it.
LEMMA FoldMerges ==
    ASSUME NEW n \in Nat, NEW seq \in [1..n -> Scope \cup {Malformed}]
    PROVE  IsMerged(mergeAnnotations(seq), ValidOf(seq, n))
<1>1. PICK acc : /\ mergeAnnotations(seq) = acc[n]
                 /\ acc[0] = NothingMerged
                 /\ \A k \in 1..n : acc[k] = mergeAnnotation(acc[k - 1], seq[k])
  BY ZenonT(30), FoldSteps
<1> DEFINE T == {k \in 0..n : ~IsMerged(acc[k], ValidOf(seq, k))}
<1> SUFFICES ASSUME T # {} PROVE FALSE
  BY <1>1
<1>2. PICK k \in T : \A d \in T : k <= d
  <2>1. T \in SUBSET Nat
    OBVIOUS
  <2> HIDE DEF T
  <2> QED
    BY <2>1, SmallestNumber
<1>3. k \in 0..n /\ ~IsMerged(acc[k], ValidOf(seq, k))
  BY <1>2
<1>4. k # 0
  <2>1. ValidOf(seq, 0) = {}
    BY DEF ValidOf
  <2>2. IsMerged(NothingMerged, {})
    BY Zenon DEF IsMerged, NothingMerged, Partial
  <2> QED
    BY Zenon, <1>1, <1>3, <2>1, <2>2
<1>5. k \in 1..n /\ k - 1 \in 0..n /\ k - 1 < k
  BY <1>3, <1>4
<1>6. IsMerged(acc[k - 1], ValidOf(seq, k - 1))
  BY <1>2, <1>5
<1>7. acc[k] = mergeAnnotation(acc[k - 1], seq[k]) /\ seq[k] \in Scope \cup {Malformed}
  BY <1>1, <1>5
<1>8. ValidOf(seq, k) = ValidOf(seq, k - 1) \cup ({seq[k]} \ {Malformed})
  <2>1. 1..k = (1..(k - 1)) \cup {k}
    BY <1>5
  <2> QED
    BY <2>1 DEF ValidOf
<1>9. ValidOf(seq, k - 1) \in SUBSET Scope
  BY <1>5 DEF ValidOf
<1>10. CASE seq[k] = Malformed
  BY Zenon, <1>3, <1>6, <1>7, <1>8, <1>10 DEF mergeAnnotation
<1>11. CASE seq[k] # Malformed
  <2>1. acc[k] = mergeRescanRequest(acc[k - 1], seq[k]) /\ seq[k] \in Scope
        /\ ValidOf(seq, k) = ValidOf(seq, k - 1) \cup {seq[k]}
    BY <1>7, <1>8, <1>11 DEF mergeAnnotation
  <2> QED
    BY <1>3, <1>6, <1>9, <2>1, MergeOne
<1> QED
  BY <1>10, <1>11

\* A scope is everything exactly if it names nothing.
LEMMA ScopeParts ==
    ASSUME NEW r \in Scope
    PROVE  /\ r.whole \in SUBSET Repositories /\ r.of \in SUBSET Images
           /\ r = Everything <=> r.whole = {} /\ r.of = {}
BY DEF Scope, Everything

\* What the job made for a sequence of annotations scans: what the valid ones
\* ask for, between them, or everything if none is valid.
LEMMA CollectedScope ==
    ASSUME NEW n \in Nat, NEW seq \in [1..n -> Scope \cup {Malformed}]
    PROVE  LET c == collectRescanRequests(seq)
               R == ValidOf(seq, n)
           IN  /\ c \in Scope /\ R \in SUBSET Scope
               /\ \A i \in c.of : RepositoryOf[i] \notin c.whole
               /\ Asks(c) = IF R = {} THEN Images ELSE UNION {Asks(r) : r \in R}
<1> DEFINE c == collectRescanRequests(seq)
           R == ValidOf(seq, n)
           m == mergeAnnotations(seq)
<1>1. IsMerged(m, R)
  BY FoldMerges
<1>2. c = IF m.all THEN Everything ELSE [whole |-> m.whole, of |-> m.of]
  BY DEF collectRescanRequests
<1>3. R \in SUBSET Scope
  BY DEF ValidOf
<1>4. \A r : Asks(r) \subseteq Images
  BY DEF Asks
<1>5. Asks(Everything) = Images /\ Everything \in Scope
  BY Zenon DEF Asks, Covers, Everything, Scope
<1> HIDE DEF c, R, m
<1>6. CASE m.all
  <2>1. c = Everything /\ Everything \in R
    BY <1>1, <1>2, <1>6 DEF IsMerged
  <2>2. UNION {Asks(r) : r \in R} = Images
    BY <1>4, <1>5, <2>1
  <2>3. c.of = {}
    BY <2>1 DEF Everything
  <2> QED
    BY <1>3, <1>5, <2>1, <2>2, <2>3 DEF c, R
<1>7. CASE ~m.all
  <2>1. /\ m.whole \in SUBSET Repositories /\ m.of \in SUBSET Images
        /\ Partial(R) = R /\ Everything \notin R
        /\ m.whole = {q \in Repositories : \E r \in R : q \in r.whole}
        /\ m.of = {i \in Images : RepositoryOf[i] \notin m.whole /\ \E r \in R : i \in r.of}
    BY <1>1, <1>7 DEF IsMerged, Partial
  <2>2. c \in Scope /\ c.whole = m.whole /\ c.of = m.of
    BY <1>2, <1>7, <2>1 DEF Scope
  <2>3. \A i \in c.of : RepositoryOf[i] \notin c.whole
    BY <2>1, <2>2
  <2>4. CASE R = {}
    <3>1. c = Everything
      BY Zenon, <2>1, <2>2, <2>4, ScopeParts
    <3> QED
      BY <1>3, <1>5, <2>2, <2>3, <2>4, <3>1 DEF c, R
  <2>5. CASE R # {}
    <3>1. PICK r \in R : r \in Scope /\ r # Everything
      BY <1>3, <2>1, <2>5
    <3>2. c # Everything
      <4>1. r.whole # {} \/ r.of # {}
        BY <3>1, ScopeParts
      <4>2. c.whole # {} \/ c.of # {}
        BY <2>1, <2>2, <3>1, <4>1, ScopeParts
      <4> QED
        BY <2>2, <4>2, ScopeParts
    <3>3. \A i \in Images : Covers(c, i) <=> \E q \in R : Covers(q, i)
      <4>1. \A i \in Images : RepositoryOf[i] \in Repositories
        BY DEF Repositories
      <4>2. \A i \in Images : Covers(c, i) <=> RepositoryOf[i] \in c.whole \/ i \in c.of
        BY <3>2 DEF Covers
      <4>3. \A i \in Images, q \in R : Covers(q, i) <=> RepositoryOf[i] \in q.whole \/ i \in q.of
        BY <2>1 DEF Covers
      <4> QED
        BY <2>1, <2>2, <4>1, <4>2, <4>3
    <3>4. Asks(c) = UNION {Asks(q) : q \in R}
      BY <3>3 DEF Asks
    <3> QED
      BY <1>3, <2>2, <2>3, <2>5, <3>4 DEF c, R
  <2> QED
    BY <2>4, <2>5
<1> QED
  BY <1>6, <1>7

\* A finite set as a sequence: every element is in it.
LEMMA Enumerated ==
    ASSUME NEW S, IsFiniteSet(S)
    PROVE  /\ Cardinality(S) \in Nat
           /\ InSomeOrder(S) \in [1..Cardinality(S) -> S]
           /\ \A x \in S : \E j \in 1..Cardinality(S) : InSomeOrder(S)[j] = x
<1> DEFINE n == Cardinality(S)
           f == InSomeOrder(S)
<1>1. n \in Nat /\ ExistsBijection(1..n, S)
  BY FS_CardinalityType
<1>2. \E g \in [1..n -> S] : IsInjective(g)
  BY <1>1 DEF ExistsBijection, Bijection, Injection, IsInjective
<1>3. f \in [1..n -> S] /\ IsInjective(f)
  BY <1>2 DEF InSomeOrder
<1>4. f \in Injection(1..n, S)
  BY <1>3 DEF Injection, IsInjective
<1>5. IsFiniteSet(1..n) /\ Cardinality(1..n) = n
  BY <1>1, FS_Interval
<1> HIDE DEF n, f
<1>6. f \in Surjection(1..n, S)
  BY <1>4, <1>5, FS_Injection DEF n
<1>7. \A x \in S : \E j \in 1..n : f[j] = x
  BY <1>6 DEF Surjection
<1> QED
  BY <1>1, <1>3, <1>7 DEF n, f

-----------------------------------------------------------------------------
\* A request that is to be removed is served by a job.
Served(k) == \E n \in DOMAIN jobs : k \in jobs[n].serves

\* The annotations on the Registry and on the copy of it name requests; none is
\* lost, and the runner removes only what a job serves.
RequestInv ==
    /\ registry # NoRegistry => registry.rescan \subseteq 1..Len(asked)
    /\ registryCache # NoRegistry => registryCache.rescan \subseteq 1..Len(asked)
    /\ \A k \in 1..Len(asked) :
           \/ registry # NoRegistry /\ k \in registry.rescan
           \/ k \in withdrawn
           \/ Served(k)
    /\ \A k \in removing : Served(k)

\* The targets of a job that was not looked at yet name no image of a
\* repository that they name as a whole.
TargetsInv ==
    \A n \in DOMAIN jobs : jobs[n].state = "pending" =>
        \A i \in jobs[n].targets.of : RepositoryOf[i] \notin jobs[n].targets.whole

\* The job the runner makes covers every request it read.
LEMMA JobCovers ==
    ASSUME WorkloadTypeOK, RequestInv, createScanJob
    PROVE  LET keys == registryCache.rescan
           IN  \E j \in Job :
                   /\ jobs' = Append(jobs, j) /\ j.serves = keys /\ j.state = "pending"
                   /\ \A i \in j.targets.of : RepositoryOf[i] \notin j.targets.whole
<1> DEFINE keys == registryCache.rescan
           seq == [n \in 1..Cardinality(keys) |-> asked[InSomeOrder(keys)[n]]]
           targets == IF keys = {} THEN Everything ELSE collectRescanRequests(seq)
           serves == {k \in keys : Asks(asked[k]) \subseteq Asks(targets)}
           j == [targets |-> targets, state |-> "pending", serves |-> serves]
<1>1. /\ keys \in SUBSET (1..MaxRequests) /\ keys \subseteq 1..Len(asked)
      /\ \A k \in keys : asked[k] \in Scope
  BY DEF createScanJob, WorkloadTypeOK, Registry, RequestInv
<1>2. IsFiniteSet(keys)
  <2>1. MaxRequests \in Nat
    BY WorkloadAssumption
  <2>2. IsFiniteSet(1..MaxRequests)
    BY <2>1, FS_Interval
  <2> HIDE DEF keys
  <2> QED
    BY Zenon, <1>1, <2>2, FS_Subset
<1>3. jobs' = Append(jobs, j)
  BY DEF createScanJob
<1> HIDE DEF keys
<1>4. /\ Cardinality(keys) \in Nat
      /\ InSomeOrder(keys) \in [1..Cardinality(keys) -> keys]
      /\ \A x \in keys : \E l \in 1..Cardinality(keys) : InSomeOrder(keys)[l] = x
  BY <1>2, Enumerated
<1>5. seq \in [1..Cardinality(keys) -> Scope \cup {Malformed}]
  BY Zenon, <1>1, <1>4
<1>6. \A k \in keys : asked[k] \in ValidOf(seq, Cardinality(keys))
  <2> SUFFICES ASSUME NEW k \in keys PROVE asked[k] \in ValidOf(seq, Cardinality(keys))
    OBVIOUS
  <2>1. PICK l \in 1..Cardinality(keys) : InSomeOrder(keys)[l] = k
    BY <1>4
  <2>2. seq[l] = asked[k] /\ asked[k] # Malformed
    BY <1>1, <2>1, RunnerAssumption
  <2> HIDE DEF seq
  <2> QED
    BY <2>2 DEF ValidOf
<1> HIDE DEF seq
<1>7. /\ targets \in Scope /\ \A i \in targets.of : RepositoryOf[i] \notin targets.whole
      /\ \A k \in keys : Asks(asked[k]) \subseteq Asks(targets)
  <2>1. CASE keys = {}
    BY Zenon, <2>1, RequestTyped DEF Everything
  <2>2. CASE keys # {}
    <3> DEFINE R == ValidOf(seq, Cardinality(keys))
               c == collectRescanRequests(seq)
    <3>1. /\ c \in Scope /\ \A i \in c.of : RepositoryOf[i] \notin c.whole
          /\ Asks(c) = IF R = {} THEN Images ELSE UNION {Asks(r) : r \in R}
      BY <1>4, <1>5, CollectedScope
    <3> HIDE DEF c, R
    <3>2. \A k \in keys : asked[k] \in R
      BY <1>6 DEF R
    <3>3. \A k \in keys : Asks(asked[k]) \subseteq Asks(c)
      BY <3>1, <3>2
    <3>4. targets = c
      BY <2>2 DEF c
    <3> HIDE DEF targets
    <3> QED
      BY <3>1, <3>3, <3>4
  <2> QED
    BY Zenon, <2>1, <2>2
<1> HIDE DEF targets
<1>8. serves = keys
  BY <1>7
<1>9. /\ j \in Job /\ j.serves = keys /\ j.state = "pending"
      /\ \A i \in j.targets.of : RepositoryOf[i] \notin j.targets.whole
  BY Zenon, <1>1, <1>7, <1>8 DEF Job
<1> HIDE DEF j
<1> QED
  BY <1>3, <1>9 DEF keys

\* The jobs after a step: one more, or the same ones serving the same requests.
JobsKept ==
    /\ DOMAIN jobs' = DOMAIN jobs
    /\ \A n \in DOMAIN jobs : jobs'[n].serves = jobs[n].serves

\* A job is looked at, or finishes.
LEMMA JobMoves ==
    ASSUME RunnerTypeOK, NEW n \in DOMAIN jobs, reconcileScanJob(n) \/ Finish(n)
    PROVE  /\ jobs' \in Seq(Job) /\ Len(jobs') = Len(jobs) /\ JobsKept
           /\ \A m \in DOMAIN jobs : jobs'[m].state = "pending" => jobs'[m] = jobs[m]
           /\ UNCHANGED <<jobCache, removing, workloadVars>>
<1>1. jobs \in Seq(Job) /\ DOMAIN jobs = 1..Len(jobs) /\ Len(jobs) \in Nat /\ jobs[n] \in Job
  BY DEF RunnerTypeOK
<1>2. PICK j \in Job : jobs' = [jobs EXCEPT ![n] = j] /\ j.serves = jobs[n].serves /\ j.state # "pending"
  <2>1. CASE reconcileScanJob(n)
    <3> DEFINE s == IF /\ registryCache # NoRegistry
                       /\ validateScanJobTargets(jobs[n].targets, registryCache)
                    THEN "running" ELSE "rejected"
               j == [jobs[n] EXCEPT !.targets = Everything, !.state = s]
    <3>1. jobs' = [jobs EXCEPT ![n] = j]
      BY <2>1 DEF reconcileScanJob
    <3>2. s \in {"running", "rejected"}
      OBVIOUS
    <3> HIDE DEF s
    <3>3. j \in Job /\ j.serves = jobs[n].serves /\ j.state # "pending"
      BY Zenon, <1>1, <3>2, RequestTyped DEF Job
    <3> HIDE DEF j
    <3> QED
      BY Zenon, <3>1, <3>3
  <2>2. CASE Finish(n)
    <3> DEFINE j == [jobs[n] EXCEPT !.state = "finished"]
    <3>1. jobs' = [jobs EXCEPT ![n] = j]
      BY <2>2 DEF Finish
    <3>2. j \in Job /\ j.serves = jobs[n].serves /\ j.state # "pending"
      BY <1>1 DEF Job
    <3> HIDE DEF j
    <3> QED
      BY Zenon, <3>1, <3>2
  <2> QED
    BY <2>1, <2>2
<1>3. UNCHANGED <<jobCache, removing, workloadVars>>
  BY DEF reconcileScanJob, Finish
<1>4. jobs' \in Seq(Job) /\ Len(jobs') = Len(jobs) /\ DOMAIN jobs' = DOMAIN jobs
  BY <1>1, <1>2
<1>5. \A m \in DOMAIN jobs : jobs'[m] = IF m = n THEN j ELSE jobs[m]
  BY <1>1, <1>2
<1> QED
  BY <1>2, <1>3, <1>4, <1>5 DEF JobsKept

\* A job is created: the others are as they were.
LEMMA JobAppended ==
    ASSUME jobs \in Seq(Job), NEW j \in Job, jobs' = Append(jobs, j)
    PROVE  /\ jobs' \in Seq(Job) /\ Len(jobs') = Len(jobs) + 1 /\ Len(jobs) \in Nat
           /\ DOMAIN jobs' = 1..(Len(jobs) + 1) /\ DOMAIN jobs = 1..Len(jobs)
           /\ jobs'[Len(jobs) + 1] = j
           /\ \A n \in DOMAIN jobs : jobs'[n] = jobs[n]
OBVIOUS

\* What a refresh of the job cache reads.
LEMMA FinishedTyped ==
    ASSUME jobs \in Seq(Job)
    PROVE  Finished \in Seq(BOOLEAN) /\ Len(Finished) = Len(jobs)
<1>1. DOMAIN jobs = 1..Len(jobs) /\ Len(jobs) \in Nat
  OBVIOUS
<1>2. \A n \in DOMAIN jobs : IsFinished(jobs[n]) \in BOOLEAN
  BY DEF IsFinished
<1> QED
  BY <1>1, <1>2 DEF Finished

\* The runner's variables after a step.
RunnerStep ==
    \/ createScanJob
    \/ \E n \in DOMAIN jobs : reconcileScanJob(n) \/ Finish(n)
    \/ /\ UNCHANGED jobs /\ removing' \in {removing, {}}
       /\ jobCache' \in {jobCache, Finished}

\* Every step, by what it does to the jobs.
LEMMA RunnerCases == ASSUME [Next]_vars PROVE RunnerStep
<1> USE DEF runnerVars
<1>1. CASE \/ \E p \in Pods, is \in SUBSET Images : Workload(podImagesChanged(p, is))
           \/ \E c \in Configs \cup {NoConfig} : Workload(mapConfigToNamespaces(c))
           \/ \E ns \in Namespaces : Workload(mapNamespace(ns))
           \/ \E ns \in Namespaces : Workload(Reconcile(ns))
           \/ Workload(SyncRegistry)
  <2>1. UNCHANGED runnerVars
    BY <1>1, Zenon DEF Workload
  <2> QED
    BY <2>1 DEF RunnerStep
<1>2. CASE removeRescanAnnotations \/ RemovalFails \/ SyncJobs \/ Restart
  BY <1>2 DEF removeRescanAnnotations, RemovalFails, SyncJobs, Restart, RestartRunner, RunnerStep
<1>3. CASE createScanJob \/ \E n \in DOMAIN jobs : reconcileScanJob(n) \/ Finish(n)
  BY <1>3, Zenon DEF RunnerStep
<1>4. CASE UNCHANGED vars
  BY <1>4 DEF vars, RunnerStep
<1> QED
  BY <1>1, <1>2, <1>3, <1>4 DEF Next

\* Every step keeps the types of the runner's state and the shape of targets.
LEMMA RunnerTypeStep ==
    ASSUME WorkloadTypeOK, RunnerTypeOK, RequestInv, TargetsInv, [Next]_vars
    PROVE  RunnerTypeOK' /\ TargetsInv'
<1>1. jobs \in Seq(Job) /\ DOMAIN jobs = 1..Len(jobs) /\ Len(jobs) \in Nat /\ Len(jobCache) \in Nat
  BY DEF RunnerTypeOK
<1>2. CASE createScanJob
  <2>1. PICK j \in Job :
           /\ jobs' = Append(jobs, j) /\ j.serves = registryCache.rescan /\ j.state = "pending"
           /\ \A i \in j.targets.of : RepositoryOf[i] \notin j.targets.whole
    BY <1>2, JobCovers
  <2>2. /\ jobs' \in Seq(Job) /\ Len(jobs') = Len(jobs) + 1
        /\ DOMAIN jobs' = 1..(Len(jobs) + 1) /\ jobs'[Len(jobs) + 1] = j
        /\ \A n \in DOMAIN jobs : jobs'[n] = jobs[n]
    BY <1>1, <2>1, JobAppended
  <2>3. /\ Len(jobs) < MaxJobs /\ MaxJobs \in Nat /\ UNCHANGED jobCache
        /\ removing' = registryCache.rescan /\ registryCache \in Registry
    BY <1>2, RunnerAssumption DEF createScanJob, WorkloadTypeOK
  <2>4. removing' \subseteq 1..MaxRequests
    BY <2>3 DEF Registry
  <2>5. RunnerTypeOK'
    BY <1>1, <2>2, <2>3, <2>4 DEF RunnerTypeOK
  <2>6. \A n \in DOMAIN jobs' : n \in DOMAIN jobs \/ n = Len(jobs) + 1
    BY <1>1, <2>2
  <2>7. TargetsInv'
    BY Zenon, <2>1, <2>2, <2>6 DEF TargetsInv
  <2> QED
    BY <2>5, <2>7
<1>3. ASSUME NEW n \in DOMAIN jobs, reconcileScanJob(n) \/ Finish(n)
      PROVE  RunnerTypeOK' /\ TargetsInv'
  <2>1. /\ jobs' \in Seq(Job) /\ Len(jobs') = Len(jobs) /\ DOMAIN jobs' = DOMAIN jobs
        /\ \A m \in DOMAIN jobs : jobs'[m].state = "pending" => jobs'[m] = jobs[m]
        /\ UNCHANGED <<jobCache, removing>>
    BY <1>3, JobMoves DEF JobsKept
  <2> QED
    BY Zenon, <2>1 DEF RunnerTypeOK, TargetsInv
<1>4. CASE /\ UNCHANGED jobs /\ removing' \in {removing, {}}
           /\ jobCache' \in {jobCache, Finished}
  <2>1. jobCache' \in Seq(BOOLEAN) /\ Len(jobCache') <= Len(jobs)
    BY <1>1, <1>4, FinishedTyped DEF RunnerTypeOK
  <2> QED
    BY <1>4, <2>1 DEF RunnerTypeOK, TargetsInv
<1> QED
  BY <1>2, <1>3, <1>4, RunnerCases DEF RunnerStep

\* A request that a job serves stays served.
LEMMA ServedKept ==
    ASSUME WorkloadTypeOK, RunnerTypeOK, RequestInv, [Next]_vars
    PROVE  \A k : Served(k) => Served(k)'
<1>1. jobs \in Seq(Job)
  BY DEF RunnerTypeOK
<1>2. CASE createScanJob
  <2>1. PICK j \in Job : jobs' = Append(jobs, j)
    BY <1>2, JobCovers
  <2>2. /\ DOMAIN jobs \subseteq DOMAIN jobs' /\ \A n \in DOMAIN jobs : jobs'[n] = jobs[n]
    BY <1>1, <2>1, JobAppended
  <2> QED
    BY <2>2 DEF Served
<1>3. ASSUME NEW n \in DOMAIN jobs, reconcileScanJob(n) \/ Finish(n)
      PROVE  \A k : Served(k) => Served(k)'
  BY <1>3, JobMoves DEF JobsKept, Served
<1>4. CASE UNCHANGED jobs
  BY <1>4 DEF Served
<1> QED
  BY <1>2, <1>3, <1>4, RunnerCases DEF RunnerStep

\* What the runner removes after a step is served.
LEMMA RemovingServed ==
    ASSUME WorkloadTypeOK, RunnerTypeOK, RequestInv, [Next]_vars
    PROVE  \A k \in removing' : Served(k)'
<1>1. jobs \in Seq(Job)
  BY DEF RunnerTypeOK
<1>2. CASE createScanJob
  <2>1. PICK j \in Job : jobs' = Append(jobs, j) /\ j.serves = registryCache.rescan
    BY <1>2, JobCovers
  <2>2. /\ Len(jobs) + 1 \in DOMAIN jobs' /\ jobs'[Len(jobs) + 1] = j
    BY <1>1, <2>1, JobAppended
  <2>3. removing' = registryCache.rescan
    BY <1>2 DEF createScanJob
  <2> QED
    BY <2>1, <2>2, <2>3 DEF Served
<1>3. ASSUME NEW n \in DOMAIN jobs, reconcileScanJob(n) \/ Finish(n)
      PROVE  \A k \in removing' : Served(k)'
  BY <1>3, JobMoves, ServedKept DEF RequestInv
<1>4. CASE UNCHANGED jobs /\ removing' \in {removing, {}}
  BY <1>4, ServedKept DEF RequestInv
<1> QED
  BY <1>2, <1>3, <1>4, RunnerCases DEF RunnerStep

\* Every step keeps RequestInv.
LEMMA RequestStep ==
    ASSUME WorkloadTypeOK, VersionInv, RunnerTypeOK, RequestInv, [Next]_vars
    PROVE  RequestInv'
<1> USE DEF registryVars, workloadVars
<1>1. (\A k : Served(k) => Served(k)') /\ \A k \in removing' : Served(k)'
  BY ServedKept, RemovingServed
<1>2. Len(asked) \in Nat
  BY DEF WorkloadTypeOK
<1>3. ASSUME UNCHANGED <<registry, asked, withdrawn>>, registryCache' \in {registryCache, registry}
      PROVE  RequestInv'
  BY <1>1, <1>3 DEF RequestInv
<1>4. CASE ClusterChanges
  BY Zenon, <1>3, <1>4 DEF ClusterChanges, podImagesChanged, mapConfigToNamespaces, mapNamespace
<1>5. CASE CacheCatchesUp
  BY <1>3, <1>5 DEF CacheCatchesUp
<1>6. CASE removeRescanAnnotations
  <2>1. /\ UNCHANGED <<registryCache, asked, withdrawn>> /\ registry # NoRegistry
        /\ registry' \in Registry /\ registry'.rescan = registry.rescan \ removing
    BY Zenon, <1>6, Removed
  <2>2. registry' # NoRegistry
    BY Zenon, <2>1, WorkloadAssumption
  <2> QED
    BY Zenon, <1>1, <2>1, <2>2 DEF RequestInv
<1>7. CASE UNCHANGED workloadVars
  BY <1>3, <1>7
<1>8. ASSUME NEW ns \in Namespaces, Reconcile(ns)
      PROVE  RequestInv'
  <2>1. UNCHANGED registryCache
    BY <1>8, Outcome
  <2>2. CASE LeftAlone(ns)
    BY <1>3, <2>1, <2>2 DEF LeftAlone, LeaveAlone
  <2>3. CASE Deleted(ns)
    <3>1. /\ registry' = NoRegistry /\ UNCHANGED asked
          /\ withdrawn' = IF registry = NoRegistry THEN withdrawn ELSE withdrawn \cup registry.rescan
      BY <2>3 DEF Deleted, DeleteRegistry
    <3> QED
      BY <1>1, <2>1, <3>1 DEF RequestInv
  <2>4. ASSUME NEW labels, NEW old, Wrote(labels, old), old \subseteq 1..Len(asked),
               registry # NoRegistry => registry.rescan = old
        PROVE  RequestInv'
    <3>1. /\ registry' \in Registry /\ registry' # NoRegistry
          /\ registry'.rescan = old \cup (Len(asked) + 1)..Len(asked')
          /\ Len(asked') \in Nat /\ Len(asked) <= Len(asked') /\ UNCHANGED withdrawn
      BY <2>4, WorkloadAssumption DEF Wrote
    <3>2. \A k \in 1..Len(asked') : k \in 1..Len(asked) \/ k \in (Len(asked) + 1)..Len(asked')
      BY <1>2, <3>1
    <3>3. registry'.rescan \subseteq 1..Len(asked') /\ 1..Len(asked) \subseteq 1..Len(asked')
      <4>1. ASSUME NEW a \in Nat, NEW b \in Nat, a <= b
            PROVE  1..a \subseteq 1..b /\ (a + 1)..b \subseteq 1..b
        BY <4>1
      <4>2. 1..Len(asked) \subseteq 1..Len(asked') /\ (Len(asked) + 1)..Len(asked') \subseteq 1..Len(asked')
        BY <1>2, <3>1, <4>1
      <4> QED
        BY Zenon, <2>4, <3>1, <4>2
    <3>4. \A k \in 1..Len(asked') : k \in registry'.rescan \/ k \in withdrawn' \/ Served(k)'
      BY <1>1, <2>4, <3>1, <3>2 DEF RequestInv
    <3> QED
      BY <1>1, <2>1, <3>1, <3>3, <3>4 DEF RequestInv
  <2>5. CASE Created(ns)
    BY <2>4, <2>5 DEF Created
  <2>6. CASE Updated(ns)
    BY Zenon, <2>4, <2>6 DEF Updated, RequestInv
  <2> QED
    BY <1>8, <2>2, <2>3, <2>5, <2>6, Outcome
<1> QED
  BY <1>4, <1>5, <1>6, <1>7, <1>8, NextCases

-----------------------------------------------------------------------------
\* The controller's copy, too, has a condition.
CacheInv == registryCache # NoRegistry => \E i \in Images : registryCache.labels[i] # {}

\* Every step keeps CacheInv.
LEMMA CacheStep ==
    ASSUME WorkloadTypeOK, VersionInv, MirrorInv, CacheInv, [Next]_vars
    PROVE  CacheInv'
<1> USE DEF registryVars, workloadVars
<1>1. CASE ClusterChanges
  BY <1>1, WantsKept DEF CacheInv
<1>2. CASE CacheCatchesUp
  BY Zenon, <1>2 DEF CacheCatchesUp, CacheInv, MirrorInv
<1>3. CASE \/ removeRescanAnnotations \/ \E ns \in Namespaces : Reconcile(ns)
           \/ UNCHANGED workloadVars
  BY Zenon, <1>3, Removed, Outcome DEF CacheInv
<1> QED
  BY <1>1, <1>2, <1>3, NextCases

ScanningInv == WorkloadInv /\ RunnerTypeOK /\ RequestInv /\ TargetsInv /\ CacheInv

\* The invariant of both components holds throughout.
LEMMA ScanningInvariant == Spec => []ScanningInv
<1>1. Init => WorkloadInv /\ RunnerTypeOK /\ RequestInv /\ TargetsInv /\ CacheInv
  <2> SUFFICES ASSUME Init PROVE RunnerTypeOK /\ RequestInv /\ TargetsInv /\ CacheInv
    BY WorkloadInitially
  <2>1. jobs = <<>> /\ jobCache = <<>> /\ removing = {}
    BY DEF Init, RunnerInit
  <2>2. registry = NoRegistry /\ registryCache = NoRegistry /\ asked = <<>>
    BY DEF Init, WorkloadInit
  <2>3. RunnerTypeOK
    BY <2>1, RunnerAssumption DEF RunnerTypeOK
  <2>4. TargetsInv
    BY <2>1 DEF TargetsInv
  <2>5. RequestInv
    BY <2>1, <2>2 DEF RequestInv
  <2>6. CacheInv
    BY Zenon, <2>2 DEF CacheInv
  <2> QED
    BY Zenon, <2>3, <2>4, <2>5, <2>6
<1>2. ScanningInv /\ [Next]_vars => ScanningInv'
  BY WorkloadTypeStep, VersionStep, MirrorStep, RunnerTypeStep, RequestStep, CacheStep
  DEF ScanningInv, WorkloadInv
<1> QED
  BY <1>1, <1>2, PTL DEF Spec, ScanningInv

\* Every variable keeps its type, across the whole of workloadscan and the
\* runner: among them the targets that collectRescanRequests merges, which are
\* repositories and images of the Registry, and the keys of the annotations.
THEOREM ScanningTyped == Spec => []TypeOK
<1>1. ScanningInv => TypeOK
  BY DEF ScanningInv, WorkloadInv, TypeOK
<1> QED
  BY <1>1, ScanningInvariant, PTL

\* No rescan request is dropped (see RequestsCovered): when the runner removes
\* the annotations it read, in removeRescanAnnotations, a job it created covers
\* each of them, and the ones written meanwhile stay.
THEOREM NoRequestDropped == Spec => []RequestsCovered
<1>1. ScanningInv => RequestsCovered
  <2> SUFFICES ASSUME ScanningInv PROVE RequestsCovered
    OBVIOUS
  <2>1. DOMAIN asked = 1..Len(asked)
    BY DEF ScanningInv, WorkloadInv, WorkloadTypeOK
  <2> QED
    BY <2>1 DEF ScanningInv, RequestInv, RequestsCovered, Served
<1> QED
  BY <1>1, ScanningInvariant, PTL

-----------------------------------------------------------------------------
\* f is a sequence of n values of S; the values in it.
Over(f, n, S) == f \in [1..n -> S]

Elements(f, n) == {f[j] : j \in 1..n}

With(f, x) == Range(f) \cup {x}

\* A value after a sequence, or before the reverse of it, adds the value.
LEMMA AtTheEnd ==
    ASSUME NEW S, NEW n \in Nat, NEW f, Over(f, n, S), NEW x \in S
    PROVE  /\ Over(f \o <<x>>, n + 1, S)
           /\ Elements(f \o <<x>>, n + 1) = With(f, x)
<1>0. f \in [1..n -> S]
  BY DEF Over
<1> DEFINE s == f \o <<x>>
<1>1. f \in Seq(S) /\ Len(f) = n /\ <<x>> \in Seq(S) /\ Len(<<x>>) = 1
  BY <1>0
<1>2. /\ s \in Seq(S) /\ Len(s) = n + 1
      /\ \A j \in 1..(n + 1) : s[j] = IF j <= n THEN f[j] ELSE x
  BY <1>1
<1> HIDE DEF s
<1>3. s \in [1..(n + 1) -> S]
  BY <1>2
<1>4. ASSUME NEW j \in 1..(n + 1) PROVE s[j] \in Range(f) \cup {x}
  BY <1>0, <1>2 DEF Range
<1>5. ASSUME NEW y \in Range(f) \cup {x} PROVE \E j \in 1..(n + 1) : s[j] = y
  <2>1. CASE y = x
    BY <1>2, <2>1
  <2>2. CASE y \in Range(f)
    <3>1. PICK i \in 1..n : f[i] = y
      BY <1>0, <2>2 DEF Range
    <3>2. i \in 1..(n + 1) /\ i <= n
      OBVIOUS
    <3> QED
      BY <1>2, <3>1, <3>2
  <2> QED
    BY <2>1, <2>2
<1>6. {s[j] : j \in 1..(n + 1)} = Range(f) \cup {x}
  BY <1>4, <1>5
<1> QED
  BY <1>3, <1>6, Zenon DEF s, Over, Elements, With

\* The same at the other end, in the opposite order.
LEMMA AtTheStart ==
    ASSUME NEW S, NEW n \in Nat, NEW f, Over(f, n, S), NEW x \in S
    PROVE  /\ Over(<<x>> \o Backwards(f), n + 1, S)
           /\ Elements(<<x>> \o Backwards(f), n + 1) = With(f, x)
<1>0. f \in [1..n -> S]
  BY DEF Over
<1> DEFINE r == Backwards(f)
           s == <<x>> \o r
<1>1. f \in Seq(S) /\ Len(f) = n
  BY <1>0
<1>2. r = [i \in 1..n |-> f[(n - i) + 1]]
  BY <1>1 DEF Backwards
<1>3. r \in [1..n -> S]
  BY <1>0, <1>2
<1>4. /\ \A i \in 1..n : r[i] = f[(n - i) + 1] /\ (n - i) + 1 \in 1..n
      /\ \A i \in 1..n : f[i] = r[(n - i) + 1]
  BY <1>2
<1>5. r \in Seq(S) /\ Len(r) = n
  BY <1>3
<1> HIDE DEF r
<1>6. s \in [1..(n + 1) -> S] /\ s[1] = x /\ \A i \in 1..n : s[i + 1] = r[i]
  <2>1. <<x>> \in Seq(S) /\ Len(<<x>>) = 1
    OBVIOUS
  <2>2. /\ s \in Seq(S) /\ Len(s) = n + 1
        /\ \A j \in 1..(n + 1) : s[j] = IF j <= 1 THEN x ELSE r[j - 1]
    BY <1>5, <2>1
  <2> HIDE DEF s
  <2>3. s \in [1..(n + 1) -> S]
    BY <2>2
  <2>4. \A i \in 1..n : i + 1 \in 1..(n + 1) /\ ~(i + 1 <= 1) /\ (i + 1) - 1 = i
    OBVIOUS
  <2> QED
    BY <2>2, <2>3, <2>4
<1>7. \A j \in 1..(n + 1) : j = 1 \/ j - 1 \in 1..n
  OBVIOUS
<1> HIDE DEF s
<1>8. ASSUME NEW j \in 1..(n + 1) PROVE s[j] \in Range(f) \cup {x}
  <2>1. CASE j = 1
    BY <1>6, <2>1
  <2>2. CASE j # 1
    <3>1. j - 1 \in 1..n /\ s[j] = r[j - 1]
      BY <1>6, <1>7, <2>2
    <3> QED
      BY Zenon, <1>0, <1>4, <3>1 DEF Range
  <2> QED
    BY <2>1, <2>2
<1>9. ASSUME NEW y \in Range(f) \cup {x} PROVE \E j \in 1..(n + 1) : s[j] = y
  <2>1. CASE y = x
    BY <1>6, <2>1
  <2>2. CASE y \in Range(f)
    <3>1. PICK i \in 1..n : f[i] = y
      BY <1>0, <2>2 DEF Range
    <3>2. (n - i) + 1 \in 1..n /\ s[((n - i) + 1) + 1] = y /\ ((n - i) + 1) + 1 \in 1..(n + 1)
      BY <1>4, <1>6, <3>1
    <3> QED
      BY <3>2
  <2> QED
    BY <2>1, <2>2
<1>10. {s[j] : j \in 1..(n + 1)} = Range(f) \cup {x}
  BY <1>8, <1>9
<1> QED
  BY <1>6, <1>10, Zenon DEF s, r, Over, Elements, With

\* The annotations of the Registry and one more, in one order and in the other.
LEMMA MergedInAnyOrder ==
    ASSUME ScanningInv, registry # NoRegistry, NEW x \in Scope \cup {Malformed}
    PROVE  LET mine == InSomeOrder({asked[k] : k \in registry.rescan})
               Union(S) == IF S = {} THEN Images ELSE UNION {Asks(r) : r \in S}
               valid == (Range(mine) \cup {x}) \ {Malformed}
           IN  /\ Asks(collectRescanRequests(mine \o <<x>>)) = Union(valid)
               /\ Asks(collectRescanRequests(<<x>> \o Backwards(mine))) = Union(valid)
<1> DEFINE K == registry.rescan
           A == {asked[k] : k \in K}
           mine == InSomeOrder(A)
           n == Cardinality(A)
           valid == (Range(mine) \cup {x}) \ {Malformed}
           Union(S) == IF S = {} THEN Images ELSE UNION {Asks(r) : r \in S}
<1>1. /\ K \in SUBSET (1..MaxRequests) /\ \A k \in K : asked[k] \in Scope
  BY DEF ScanningInv, WorkloadInv, WorkloadTypeOK, Registry, RequestInv
<1> HIDE DEF K
<1>2. IsFiniteSet(A) /\ A \subseteq Scope \cup {Malformed}
  <2>1. MaxRequests \in Nat
    BY WorkloadAssumption
  <2>2. IsFiniteSet(1..MaxRequests)
    BY <2>1, FS_Interval
  <2>3. IsFiniteSet(K)
    BY Zenon, <1>1, <2>2, FS_Subset
  <2>4. [k \in K |-> asked[k]] \in Surjection(K, A)
    BY DEF Surjection
  <2>5. IsFiniteSet(A)
    BY <2>3, <2>4, FS_Surjection
  <2> QED
    BY <1>1, <2>5
<1> HIDE DEF A
<1>3. n \in Nat /\ mine \in [1..n -> A]
  BY <1>2, Enumerated
<1> HIDE DEF n, mine
<1> DEFINE S == Scope \cup {Malformed}
<1>4. Over(mine, n, S) /\ n + 1 \in Nat /\ x \in S
  BY <1>2, <1>3 DEF Over
<1> HIDE DEF S
<1>5. /\ Over(mine \o <<x>>, n + 1, S) /\ Over(<<x>> \o Backwards(mine), n + 1, S)
      /\ Elements(mine \o <<x>>, n + 1) = With(mine, x)
      /\ Elements(<<x>> \o Backwards(mine), n + 1) = With(mine, x)
  BY <1>3, <1>4, AtTheEnd, AtTheStart
<1>6. /\ mine \o <<x>> \in [1..(n + 1) -> Scope \cup {Malformed}]
      /\ <<x>> \o Backwards(mine) \in [1..(n + 1) -> Scope \cup {Malformed}]
      /\ ValidOf(mine \o <<x>>, n + 1) = valid
      /\ ValidOf(<<x>> \o Backwards(mine), n + 1) = valid
  BY <1>5, Zenon DEF ValidOf, Over, Elements, With, S
<1> HIDE DEF valid
<1>7. Asks(collectRescanRequests(mine \o <<x>>)) = Union(valid)
  BY Zenon, <1>4, <1>6, CollectedScope
<1>8. Asks(collectRescanRequests(<<x>> \o Backwards(mine))) = Union(valid)
  BY Zenon, <1>4, <1>6, CollectedScope
<1> QED
  BY Zenon, <1>7, <1>8 DEF valid, mine, A, K

\* collectRescanRequests asks for exactly what the annotations ask for between
\* them (see MergeExact), whatever the order in which a map yields them.
THEOREM MergedExactly == Spec => []MergeExact
<1>1. ScanningInv => MergeExact
  BY Zenon, MergedInAnyOrder DEF MergeExact
<1> QED
  BY <1>1, ScanningInvariant, PTL

-----------------------------------------------------------------------------
\* The conditions a catalogue of the Registry, narrowed to targets that the
\* controller accepted, works with: for every repository it looks at, the
\* images the targets select.
LEMMA Narrowed ==
    ASSUME NEW r, NEW t \in Scope, extractMatchConditions(r) # {},
           validateScanJobTargets(t, r), \A i \in t.of : RepositoryOf[i] \notin t.whole
    PROVE  LET wanted == {i \in extractMatchConditions(r) : Covers(t, i)}
               P == {RepositoryOf[i] : i \in wanted}
           IN  /\ TargetsDeclared(t, RepositoriesOf(r))
               /\ P # {} /\ P \subseteq Repositories
               /\ applyTargetsToRegistry(RepositoriesOf(r), t)
                    = [q \in P |-> {i \in wanted : RepositoryOf[i] = q}]
<1> DEFINE C == extractMatchConditions(r)
           wanted == {i \in C : Covers(t, i)}
           P == {RepositoryOf[i] : i \in wanted}
           R == RepositoriesOf(r)
           Q == {RepositoryOf[i] : i \in C}
           In(q) == {i \in wanted : RepositoryOf[i] = q}
<1>1. /\ C \subseteq Images /\ C # {}
      /\ t.of \subseteq C /\ t.whole \subseteq Q
  BY DEF extractMatchConditions, validateScanJobTargets
<1>2. /\ DOMAIN R = Q
      /\ \A q \in Q : R[q] = {i \in C : RepositoryOf[i] = q}
      /\ R = [q \in Q |-> {i \in C : RepositoryOf[i] = q}]
  BY Zenon DEF RepositoriesOf
<1> HIDE DEF C, R
<1>3. P \subseteq Repositories
  BY Zenon, <1>1 DEF Repositories
<1>4. TargetsDeclared(t, R)
  <2> SUFFICES ASSUME NEW q \in TargetRepositories(t)
               PROVE  q \in DOMAIN R /\ TargetConditions(t, q) \subseteq R[q]
    BY Zenon DEF TargetsDeclared
  <2>1. q \in Q
    BY Zenon, <1>1 DEF TargetRepositories
  <2> QED
    BY Zenon, <1>1, <1>2, <2>1 DEF TargetConditions
<1>5. CASE t = Everything
  <2>1. wanted = C
    BY <1>5 DEF Covers
  <2>2. applyTargetsToRegistry(R, t) = R
    BY <1>5 DEF applyTargetsToRegistry
  <2> HIDE DEF wanted
  <2>3. P = Q /\ P # {} /\ \A q \in Q : In(q) = {i \in C : RepositoryOf[i] = q}
    BY <1>1, <2>1
  <2>4. applyTargetsToRegistry(R, t) = [q \in P |-> In(q)]
    BY Zenon, <1>2, <2>2, <2>3
  <2> QED
    BY Zenon, <1>3, <1>4, <2>3, <2>4 DEF C, R, wanted
<1>6. CASE t # Everything
  <2>1. \A i \in C : i \in wanted <=> RepositoryOf[i] \in t.whole \/ i \in t.of
    BY <1>6 DEF Covers
  <2>2. wanted \subseteq C
    OBVIOUS
  <2> HIDE DEF wanted
  <2>3. TargetRepositories(t) = P
    BY <1>1, <2>1, <2>2 DEF TargetRepositories
  <2>4. P # {}
    <3>1. t.whole # {} \/ t.of # {}
      BY <1>6, ScopeParts
    <3> QED
      BY <2>3, <3>1 DEF TargetRepositories
  <2>5. ASSUME NEW q \in P
        PROVE  (IF TargetConditions(t, q) = {} THEN R[q] ELSE R[q] \cap TargetConditions(t, q)) = In(q)
    <3>1. q \in Q
      BY <2>2
    <3>2. R[q] = {i \in C : RepositoryOf[i] = q}
      BY <1>2, <3>1
    <3>3. CASE q \in t.whole
      <4>1. TargetConditions(t, q) = {}
        BY Zenon, <3>3 DEF TargetConditions
      <4>2. In(q) = R[q]
        BY <2>1, <2>2, <3>2, <3>3
      <4> QED
        BY Zenon, <4>1, <4>2
    <3>4. CASE q \notin t.whole
      <4>1. In(q) = TargetConditions(t, q)
        BY Zenon, <1>1, <2>1, <2>2, <3>4 DEF TargetConditions
      <4>2. In(q) # {} /\ In(q) \subseteq R[q]
        BY <2>2, <3>2
      <4> HIDE DEF In
      <4> QED
        BY Zenon, <4>1, <4>2
    <3> QED
      BY Zenon, <3>3, <3>4
  <2>6. applyTargetsToRegistry(R, t) = [q \in P |-> In(q)]
    BY <1>6, <2>3, <2>5 DEF applyTargetsToRegistry
  <2> QED
    BY Zenon, <1>3, <1>4, <2>4, <2>6 DEF C, R, wanted
<1> QED
  BY Zenon, <1>5, <1>6

\* What a catalogue finds, repository by repository.
LEMMA FoundIn ==
    ASSUME NEW In \in SUBSET Images, In # {}, NEW q, \A i \in In : RepositoryOf[i] = q,
           NEW remote \in Remotes, NEW D \in SUBSET Images
    PROVE  /\ Listed(In, D) <=> In \cap D = {}
           /\ {i \in discoverImages(q, In, remote, D) : FilterByTag(In, i)}
                  = IF In \cap D = {} THEN In \cap remote.of ELSE In
<1>1. workloadRepositoryReferences(In, D) = IF In \cap D = {} THEN {} ELSE In
  BY Zenon DEF workloadRepositoryReferences
<1>2. Listed(In, D) <=> In \cap D = {}
  BY Zenon, <1>1 DEF Listed
<1>3. discoverImages(q, In, remote, D) =
          IF In \cap D = {} THEN {i \in remote.of \ D : RepositoryOf[i] = q} ELSE In
  BY Zenon, <1>1, <1>2 DEF discoverImages
<1> QED
  BY Zenon, <1>2, <1>3 DEF FilterByTag

\* When the catalogue of a repository fails, and when that of the Registry does.
RepositoryFails(In, q, remote, D) ==
    IF In \cap D # {} THEN ~(In \subseteq remote.of) ELSE q \notin remote.whole

Broken(wanted, remote, D) ==
    \E i \in wanted : LET q == RepositoryOf[i]
                      IN  RepositoryFails({x \in wanted : RepositoryOf[x] = q}, q, remote, D)

\* What a catalogue of the Registry finds for targets that were accepted.
LEMMA FoundExactly ==
    ASSUME NEW r, NEW t \in Scope, extractMatchConditions(r) # {},
           validateScanJobTargets(t, r), \A i \in t.of : RepositoryOf[i] \notin t.whole,
           NEW remote \in Remotes, NEW D \in SUBSET Images
    PROVE  LET wanted == {i \in extractMatchConditions(r) : Covers(t, i)}
           IN  DiscoveredImages(r, t, remote, D) =
                   IF Broken(wanted, remote, D) THEN CatalogueFails
                   ELSE [whole |-> {}, of |-> wanted \cap remote.of]
<1> DEFINE wanted == {i \in extractMatchConditions(r) : Covers(t, i)}
           P == {RepositoryOf[i] : i \in wanted}
           In(q) == {i \in wanted : RepositoryOf[i] = q}
           repositories == applyTargetsToRegistry(RepositoriesOf(r), t)
           Conditions(q) == IF q \in DOMAIN repositories THEN repositories[q] ELSE {}
           Found(q) == {i \in discoverImages(q, Conditions(q), remote, D) :
                            FilterByTag(Conditions(q), i)}
           discovered == discoverRepositories(repositories, remote)
           references == UNION {Found(q) : q \in discovered}
           missing == \E q \in discovered \ remote.whole : Listed(Conditions(q), D)
           broken == \E q \in P : RepositoryFails(In(q), q, remote, D)
<1>1. /\ TargetsDeclared(t, RepositoriesOf(r)) /\ P # {} /\ P \subseteq Repositories
      /\ repositories = [q \in P |-> In(q)]
  BY Zenon, Narrowed
<1>2. wanted \subseteq Images
  BY Zenon DEF extractMatchConditions
<1>3. DiscoveredImages(r, t, remote, D) =
          IF missing \/ ~(references \subseteq remote.of) THEN CatalogueFails
          ELSE [whole |-> {}, of |-> references]
  BY Zenon, <1>1 DEF DiscoveredImages
<1> HIDE DEF repositories, wanted
<1>4. DOMAIN repositories = P /\ \A q \in P : Conditions(q) = In(q)
  BY Zenon, <1>1
<1>5. discovered = P
  BY Zenon, <1>1, <1>4 DEF discoverRepositories
<1>6. \A q \in P : /\ Listed(Conditions(q), D) <=> In(q) \cap D = {}
                   /\ Found(q) = IF In(q) \cap D = {} THEN In(q) \cap remote.of ELSE In(q)
  <2> SUFFICES ASSUME NEW q \in P
               PROVE  /\ Listed(Conditions(q), D) <=> In(q) \cap D = {}
                      /\ Found(q) = IF In(q) \cap D = {} THEN In(q) \cap remote.of ELSE In(q)
    BY Zenon
  <2>1. In(q) \in SUBSET Images /\ In(q) # {} /\ \A i \in In(q) : RepositoryOf[i] = q
    BY Zenon, <1>2
  <2>2. Conditions(q) = In(q)
    BY Zenon, <1>4
  <2> HIDE DEF In, Conditions
  <2>3. /\ Listed(In(q), D) <=> In(q) \cap D = {}
        /\ {i \in discoverImages(q, In(q), remote, D) : FilterByTag(In(q), i)}
               = IF In(q) \cap D = {} THEN In(q) \cap remote.of ELSE In(q)
    BY Zenon, <2>1, FoundIn
  <2> QED
    BY Zenon, <2>2, <2>3
<1>7. references = UNION {Found(q) : q \in P}
  BY Zenon, <1>5
<1>8. missing <=> \E q \in P \ remote.whole : In(q) \cap D = {}
  BY Zenon, <1>5, <1>6
<1> HIDE DEF Found, references, missing, discovered
<1>9. broken <=> missing \/ ~(references \subseteq remote.of)
  <2>1. ASSUME NEW q \in P, RepositoryFails(In(q), q, remote, D)
        PROVE  missing \/ ~(references \subseteq remote.of)
    <3>1. CASE In(q) \cap D = {}
      BY Zenon, <1>8, <2>1, <3>1 DEF RepositoryFails
    <3>2. CASE In(q) \cap D # {}
      <4>1. ~(In(q) \subseteq remote.of)
        BY Zenon, <2>1, <3>2 DEF RepositoryFails
      <4>2. Found(q) = In(q)
        BY Zenon, <1>6, <2>1, <3>2
      <4> QED
        BY Zenon, <1>7, <2>1, <4>1, <4>2
    <3> QED
      BY Zenon, <3>1, <3>2
  <2>2. ASSUME ~broken PROVE ~missing /\ references \subseteq remote.of
    <3>1. \A q \in P : ~RepositoryFails(In(q), q, remote, D)
      BY Zenon, <2>2
    <3>2. ~missing
      BY Zenon, <1>8, <3>1 DEF RepositoryFails
    <3>3. ASSUME NEW q \in P PROVE Found(q) \subseteq remote.of
      BY Zenon, <1>6, <3>1, <3>3 DEF RepositoryFails
    <3> QED
      BY Zenon, <1>7, <3>2, <3>3
  <2> QED
    BY Zenon, <2>1, <2>2
<1>10. ~broken => references = wanted \cap remote.of
  <2> SUFFICES ASSUME ~broken PROVE references = wanted \cap remote.of
    BY Zenon
  <2>1. \A q \in P : Found(q) = In(q) \cap remote.of
    BY Zenon, <1>6 DEF RepositoryFails
  <2> QED
    BY <1>7, <2>1
<1>11. broken <=> Broken(wanted, remote, D)
  BY Zenon DEF Broken
<1> HIDE DEF broken
<1>12. DiscoveredImages(r, t, remote, D) =
           IF Broken(wanted, remote, D) THEN CatalogueFails
           ELSE [whole |-> {}, of |-> wanted \cap remote.of]
  BY Zenon, <1>3, <1>9, <1>10, <1>11
<1> QED
  BY Zenon, <1>12 DEF wanted

\* The catalogue of the managed Registry finds exactly the images the targets
\* select and that exist, and fails exactly when it must (see CatalogueExact):
\* mergeRescanRequest, validateScanJobTargets and applyTargetsToRegistry agree on
\* what targets mean.
THEOREM CatalogueFindsTargets == Spec => []CatalogueExact
<1>1. ScanningInv => CatalogueExact
  <2> SUFFICES ASSUME ScanningInv, NEW n \in DOMAIN jobs,
                      jobs[n].state = "pending", registryCache # NoRegistry,
                      validateScanJobTargets(jobs[n].targets, registryCache),
                      NEW remote \in Remotes, NEW D \in SUBSET Images
               PROVE  LET t == jobs[n].targets
                          wanted == {i \in extractMatchConditions(registryCache) : Covers(t, i)}
                      IN  DiscoveredImages(registryCache, t, remote, D) =
                              IF Broken(wanted, remote, D) THEN CatalogueFails
                              ELSE [whole |-> {}, of |-> wanted \cap remote.of]
    BY Zenon DEF CatalogueExact, Broken, RepositoryFails
  <2>1. jobs[n].targets \in Scope
    <3>1. jobs \in Seq(Job)
      BY DEF ScanningInv, RunnerTypeOK
    <3>2. jobs[n] \in Job
      BY <3>1
    <3> QED
      BY <3>2 DEF Job
  <2>2. \A i \in jobs[n].targets.of : RepositoryOf[i] \notin jobs[n].targets.whole
    BY Zenon DEF ScanningInv, TargetsInv
  <2>3. extractMatchConditions(registryCache) # {}
    BY DEF ScanningInv, CacheInv, extractMatchConditions
  <2> DEFINE t == jobs[n].targets
  <2>4. /\ t \in Scope /\ validateScanJobTargets(t, registryCache)
        /\ \A i \in t.of : RepositoryOf[i] \notin t.whole
    BY Zenon, <2>1, <2>2
  <2> HIDE DEF t
  <2>5. LET wanted == {i \in extractMatchConditions(registryCache) : Covers(t, i)}
        IN  DiscoveredImages(registryCache, t, remote, D) =
                IF Broken(wanted, remote, D) THEN CatalogueFails
                ELSE [whole |-> {}, of |-> wanted \cap remote.of]
    BY ZenonT(30), <2>3, <2>4, FoundExactly
  <2> QED
    BY Zenon, <2>5 DEF t
<1> QED
  BY <1>1, ScanningInvariant, PTL
=============================================================================
