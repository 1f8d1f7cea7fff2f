-------------------------- MODULE WorkloadRegistry --------------------------
(***************************************************************************)
(* The Registry that the workload scan controller keeps for the images of  *)
(* running pods (internal/controller/workloadscan_controller*.go).  The    *)
(* namespaces of the cluster share it: spec.artifactsNamespace is set.     *)
(* The model has one registry host; a host is one Registry object, and the *)
(* objects of two hosts have nothing in common.                            *)
(*                                                                         *)
(* An image of a pod is one match condition of the Registry, and the       *)
(* labels of the condition name the namespaces that run the image.  pods,  *)
(* labelled and config are what the controller's cache holds: their watch  *)
(* events start a reconciliation, so their lag only delays it.  Registries *)
(* are not watched, so the lag of registryCache is a variable.             *)
(***************************************************************************)
EXTENDS Naturals, FiniteSets, Sequences, FiniteSetsExt, Folds, Functions

CONSTANTS
    Namespaces,
    Pods, NamespaceOf,        \* NamespaceOf[p]: the namespace of pod p
    Images, RepositoryOf,     \* RepositoryOf[i]: the repository of image i
    Configs, NoConfig,        \* values of the WorkloadScanConfiguration
    NoRegistry,
    MaxRequests,              \* bound: rescan requests
    MaxPodChanges, MaxConfigChanges, MaxFaults

Repositories == {RepositoryOf[i] : i \in Images}

\* A RescanRequest, and the targets of a ScanJob: repositories as a whole, and
\* match conditions of repositories.  No target at all is everything.
Scope == [whole : SUBSET Repositories, of : SUBSET Images]

Everything == [whole |-> {}, of |-> {}]

\* rescan: the annotations that request a scan, by the number in their key.
Registry == [rv : Nat, labels : [Images -> SUBSET Namespaces], interval : BOOLEAN,
             rescan : SUBSET (1..MaxRequests)]

ASSUME WorkloadAssumption ==
    /\ NamespaceOf \in [Pods -> Namespaces]
    /\ Configs \subseteq [enabled : BOOLEAN, selector : {"all", "labelled"},
                          scanOnChange : BOOLEAN, interval : BOOLEAN]
    /\ {MaxRequests, MaxPodChanges, MaxConfigChanges, MaxFaults} \subseteq Nat
    /\ NoRegistry \notin Registry

VARIABLES
    pods,            \* pods[p]: images of the containers of p; {}: no pod
    labelled,        \* namespaces that carry the label of the selector
    config,
    queue,           \* namespaces with a reconciliation request
    registry,        \* the Registry object
    registryCache,   \* the controller process's copy of it
    revision,        \* resource version of the last write to the Registry
    asked,           \* asked[k]: what the k-th rescan request asks for
    withdrawn,       \* history: requests gone with a deleted Registry
    hasty,           \* history: a decision was taken on an outdated copy
    podChanges, configChanges, faults      \* what may still happen

clusterVars == <<pods, labelled, config, podChanges, configChanges>>
registryVars == <<registry, revision, asked, withdrawn, hasty>>
workloadVars == <<clusterVars, queue, registryVars, registryCache, faults>>

WorkloadTypeOK ==
    /\ pods \in [Pods -> SUBSET Images]
    /\ labelled \subseteq Namespaces /\ queue \subseteq Namespaces
    /\ config \in Configs \cup {NoConfig}
    /\ registry \in Registry \cup {NoRegistry}
    /\ registryCache \in Registry \cup {NoRegistry}
    /\ revision \in Nat
    /\ asked \in Seq(Scope) /\ Len(asked) <= MaxRequests
    /\ withdrawn \subseteq 1..MaxRequests
    /\ hasty \in BOOLEAN

WorkloadInit ==
    /\ pods = [p \in Pods |-> {}]
    /\ labelled = {}
    /\ config \in Configs \cup {NoConfig}
    /\ queue = {}
    /\ registry = NoRegistry /\ registryCache = NoRegistry /\ revision = 0
    /\ asked = <<>> /\ withdrawn = {}
    /\ hasty = FALSE
    /\ podChanges = MaxPodChanges /\ configChanges = MaxConfigChanges
    /\ faults = MaxFaults

-----------------------------------------------------------------------------
\* Watches: what starts a reconciliation of a namespace.

\* The namespaces a configuration selects.
Selected(c) == IF c = NoConfig THEN {}
               ELSE IF c.selector = "all" THEN Namespaces ELSE labelled

\* A pod is created, deleted or gets other images.
podImagesChanged(p, is) ==
    /\ podChanges > 0 /\ is # pods[p]
    /\ pods' = [pods EXCEPT ![p] = is]
    /\ queue' = queue \cup {NamespaceOf[p]}
    /\ podChanges' = podChanges - 1
    /\ UNCHANGED <<labelled, config, configChanges, registryVars, registryCache, faults>>

\* Mutant: only the new object is mapped.
mapConfigToNamespacesNew(c) ==
    /\ configChanges > 0 /\ c # config
    /\ config' = c
    /\ queue' = queue \cup Selected(IF c = NoConfig THEN config ELSE c)
    /\ configChanges' = configChanges - 1
    /\ UNCHANGED <<pods, labelled, podChanges, registryVars, registryCache, faults>>

\* The handler maps the old object of an update and the new one.
mapConfigToNamespaces(c) ==
    /\ configChanges > 0 /\ c # config
    /\ config' = c
    /\ queue' = queue \cup Selected(config) \cup Selected(c)
    /\ configChanges' = configChanges - 1
    /\ UNCHANGED <<pods, labelled, podChanges, registryVars, registryCache, faults>>

\* The label of a namespace is set or removed.
mapNamespace(ns) ==
    /\ configChanges > 0
    /\ labelled' = IF ns \in labelled THEN labelled \ {ns} ELSE labelled \cup {ns}
    /\ queue' = queue \cup {ns}
    /\ configChanges' = configChanges - 1
    /\ UNCHANGED <<pods, config, podChanges, registryVars, registryCache, faults>>

\* The informer of Registries catches up.
SyncRegistry ==
    /\ registryCache # registry
    /\ registryCache' = registry
    /\ UNCHANGED <<clusterVars, queue, registryVars, faults>>

\* A new controller process lists everything; every namespace is an event.
RestartWorkload ==
    /\ queue' = Namespaces
    /\ registryCache' = registry
    /\ faults' = faults - 1
    /\ UNCHANGED <<clusterVars, registryVars>>

-----------------------------------------------------------------------------
\* Reconcile(ns): cleanupAllManagedResources, reconcileRegistries.

Enabled == config # NoConfig /\ config.enabled

checkNamespaceSelector(ns) == ns \in Selected(config)

\* Images of the pods of ns, and none if ns is not selected.
groupImagesByRegistry(ns) ==
    IF checkNamespaceSelector(ns)
    THEN UNION {pods[p] : p \in {q \in Pods : NamespaceOf[q] = ns}} ELSE {}

\* The match conditions of a Registry: a condition without labels is dropped.
extractMatchConditions(r) == {i \in Images : r.labels[i] # {}}

processRepositoryMatchConditions(r, ns, needed) ==
    [i \in Images |-> IF i \in needed THEN r.labels[i] \cup {ns} ELSE r.labels[i] \ {ns}]

buildRescanRequest(is) == [whole |-> {}, of |-> is]

\* Mutant: a request takes the key of the one before it.
WriteSameKey(r, requests) ==
    /\ Len(asked) + Len(requests) <= MaxRequests
    /\ asked' = asked \o requests
    /\ revision' = revision + 1
    /\ registry' = [r EXCEPT !.rescan = @ \cup Len(asked)..(Len(asked) + Len(requests) - 1),
                              !.rv = revision + 1]

\* The Registry is written, with a new annotation key for each request.  A
\* write that changes nothing leaves the resource version alone.
Write(r, requests) ==
    /\ Len(asked) + Len(requests) <= MaxRequests
    /\ asked' = asked \o requests
    /\ LET new == [r EXCEPT !.rescan = @ \cup (Len(asked) + 1)..(Len(asked) + Len(requests))]
       IN  IF registry = new THEN UNCHANGED <<registry, revision>>
           ELSE /\ revision' = revision + 1
                /\ registry' = [new EXCEPT !.rv = revision + 1]

\* The cached copy is written back; the API server refuses one that is not
\* the latest, and the namespace stays in the queue.
updateRegistry(ns, needed) ==
    LET labels == processRepositoryMatchConditions(registryCache, ns, needed)
        new == [registryCache EXCEPT !.labels = labels, !.interval = config.interval]
        added == extractMatchConditions(new) \ extractMatchConditions(registryCache)
    IN  /\ registry # NoRegistry /\ registry.rv = registryCache.rv
        /\ Write(new, IF config.scanOnChange /\ added # {}
                      THEN <<buildRescanRequest(added)>> ELSE <<>>)

\* Does updateRegistry leave no repository, so that the caller deletes?
shouldDelete(ns, needed) ==
    \A i \in Images : processRepositoryMatchConditions(registryCache, ns, needed)[i] = {}

\* Delete names the object and no version of it; NotFound is ignored.
DeleteRegistry ==
    /\ registry' = NoRegistry
    /\ withdrawn' = IF registry = NoRegistry THEN withdrawn ELSE withdrawn \cup registry.rescan
    /\ hasty' = (hasty \/ registry # registryCache)
    /\ UNCHANGED <<revision, asked>>

createRegistry(ns, needed) ==
    /\ registry = NoRegistry
    /\ Write([rv |-> 0, labels |-> [i \in Images |-> IF i \in needed THEN {ns} ELSE {}],
              interval |-> config.interval, rescan |-> {}],
             IF config.scanOnChange THEN <<Everything>> ELSE <<>>)

\* Nothing to clean up or to create, as far as the cache tells.
LeaveAlone ==
    /\ hasty' = (hasty \/ registry # registryCache)
    /\ UNCHANGED <<registry, revision, asked, withdrawn>>

\* A namespace is reconciled to the end and leaves the queue.
Reconcile(ns) ==
    LET needed == groupImagesByRegistry(ns) IN
    /\ ns \in queue
    /\ queue' = queue \ {ns}
    /\ \/ /\ ~Enabled /\ registryCache = NoRegistry
          /\ LeaveAlone
       \/ /\ ~Enabled /\ registryCache # NoRegistry
          /\ DeleteRegistry
       \/ /\ Enabled /\ registryCache = NoRegistry /\ needed = {}
          /\ LeaveAlone
       \/ /\ Enabled /\ registryCache = NoRegistry /\ needed # {}
          /\ createRegistry(ns, needed)
          /\ UNCHANGED <<withdrawn, hasty>>
       \/ /\ Enabled /\ registryCache # NoRegistry
          /\ shouldDelete(ns, needed)
          /\ DeleteRegistry
       \/ /\ Enabled /\ registryCache # NoRegistry
          /\ ~shouldDelete(ns, needed)
          /\ updateRegistry(ns, needed)
          /\ UNCHANGED <<withdrawn, hasty>>
    /\ UNCHANGED <<clusterVars, registryCache, faults>>
=============================================================================
