-------------------------- MODULE WorkloadScanning --------------------------
(***************************************************************************)
(* The workload scan controller and the registry scan runner on the        *)
(* Registry they share.                                                    *)
(***************************************************************************)
EXTENDS Catalogue

vars == <<workloadVars, runnerVars>>

TypeOK == WorkloadTypeOK /\ RunnerTypeOK

Init == WorkloadInit /\ RunnerInit

Workload(A) == A /\ UNCHANGED runnerVars

\* The controller process stops, between any two steps, and is started again.
Restart ==
    /\ faults > 0
    /\ RestartWorkload /\ RestartRunner

Next ==
    \/ \E p \in Pods, is \in SUBSET Images : Workload(podImagesChanged(p, is))
    \/ \E c \in Configs \cup {NoConfig} : Workload(mapConfigToNamespaces(c))
    \/ \E ns \in Namespaces : Workload(mapNamespace(ns))
    \/ \E ns \in Namespaces : Workload(Reconcile(ns))
    \/ Workload(SyncRegistry)
    \/ createScanJob \/ removeRescanAnnotations \/ RemovalFails \/ SyncJobs
    \/ \E n \in DOMAIN jobs : reconcileScanJob(n) \/ Finish(n)
    \/ Restart

Spec == Init /\ [][Next]_vars

-----------------------------------------------------------------------------
\* Once every namespace is reconciled, the Registry names exactly the images
\* the selected namespaces run, each labelled with the namespaces that run it,
\* and there is none if scanning is off or nothing runs: whatever the order of
\* pod events, configuration changes, conflicts and restarts.  Decisions on an
\* outdated copy (hasty) are the exception the code has.
Mirrored ==
    LET wanted == [i \in Images |-> {ns \in Namespaces :
                                        Enabled /\ i \in groupImagesByRegistry(ns)}]
    IN  queue = {} /\ ~hasty =>
            IF \A i \in Images : wanted[i] = {} THEN registry = NoRegistry
            ELSE registry # NoRegistry /\ registry.labels = wanted

\* No rescan request is dropped: its annotation is on the Registry, or a ScanJob
\* was created whose targets cover it, or the Registry itself was deleted.
\* Requests come from one reconciliation while the runner, which read an older
\* copy, creates a job and removes the annotations it read.
RequestsCovered ==
    \A k \in DOMAIN asked :
        \/ registry # NoRegistry /\ k \in registry.rescan
        \/ k \in withdrawn
        \/ \E n \in DOMAIN jobs : k \in jobs[n].serves

Backwards(s) == [i \in 1..Len(s) |-> s[(Len(s) - i) + 1]]

\* collectRescanRequests scans what the annotations of the Registry ask for
\* between them, and no more, in whatever order a map yields them and whatever
\* other annotation x is among them; a malformed one changes nothing, and alone
\* it scans everything.
MergeExact ==
    registry # NoRegistry =>
        LET mine == InSomeOrder({asked[k] : k \in registry.rescan})
            Union(S) == IF S = {} THEN Images ELSE UNION {Asks(r) : r \in S}
        IN  \A x \in Scope \cup {Malformed} :
                LET valid == (Range(mine) \cup {x}) \ {Malformed}
                IN  /\ Asks(collectRescanRequests(mine \o <<x>>)) = Union(valid)
                    /\ Asks(collectRescanRequests(<<x>> \o Backwards(mine))) = Union(valid)

\* A ScanJob that the controller accepts against its copy of the Registry, and
\* whose worker reads the snapshot of that copy, finds the images that its
\* targets select and that exist, whichever of them are named by digest: the
\* merge of requests, the controller's check and the worker's narrowing of the
\* Registry agree on what the targets mean.  It fails exactly when one of their
\* repositories does: one with a digest among the images selected in it fails
\* when any of these is missing, one without when it is missing itself.
CatalogueExact ==
    \A n \in DOMAIN jobs :
        LET t == jobs[n].targets
            wanted == {i \in extractMatchConditions(registryCache) : Covers(t, i)}
            In(q) == {i \in wanted : RepositoryOf[i] = q}
        IN  /\ jobs[n].state = "pending" /\ registryCache # NoRegistry
            /\ validateScanJobTargets(t, registryCache)
            => \A remote \in Remotes, D \in SUBSET Images :
                  DiscoveredImages(registryCache, t, remote, D) =
                      IF \E i \in wanted :
                            LET q == RepositoryOf[i]
                            IN  IF In(q) \cap D # {} THEN ~(In(q) \subseteq remote.of)
                                                     ELSE q \notin remote.whole
                      THEN CatalogueFails
                      ELSE [whole |-> {}, of |-> wanted \cap remote.of]
=============================================================================
