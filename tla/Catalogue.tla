----------------------------- MODULE Catalogue -----------------------------
(***************************************************************************)
(* What a catalogue of the managed Registry finds in the remote registry   *)
(* (internal/handlers/create_catalog.go), as a function of the Registry r, *)
(* the targets t of the ScanJob, the repositories and images that exist    *)
(* there (remote.whole and remote.of) and the images that pods name by     *)
(* digest, D.  Module RegistryScan has the steps of the handler.           *)
(* Platforms and layers are left out: an image is one reference.           *)
(***************************************************************************)
EXTENDS RegistryScanRunner

\* An error of the handler: the message is retried and the ScanJob fails.
CatalogueFails == [whole |-> Repositories, of |-> Images]

\* spec.repositories: each with the match conditions that are in it, which
\* match one tag or digest each and are joined by Or.
RepositoriesOf(r) ==
    [q \in {RepositoryOf[i] : i \in extractMatchConditions(r)} |->
        {i \in extractMatchConditions(r) : RepositoryOf[i] = q}]

TargetRepositories(t) == t.whole \cup {RepositoryOf[i] : i \in t.of}

TargetConditions(t, q) == {i \in t.of : RepositoryOf[i] = q}

\* Are all targets declared on the Registry?
TargetsDeclared(t, repositories) ==
    \A q \in TargetRepositories(t) :
        /\ q \in DOMAIN repositories
        /\ TargetConditions(t, q) \subseteq repositories[q]

\* No targets leave the Registry as it is.
applyTargetsToRegistry(repositories, t) ==
    IF t = Everything THEN repositories
    ELSE [q \in TargetRepositories(t) |->
             IF TargetConditions(t, q) = {} THEN repositories[q]
             ELSE repositories[q] \cap TargetConditions(t, q)]

\* A Registry without repositories is scanned as a whole.
discoverRepositories(repositories, remote) ==
    IF DOMAIN repositories = {} THEN remote.whole ELSE DOMAIN repositories

\* Mutant: only the references by digest are resolved.
workloadRepositoryReferencesDigests(conditions, D) == conditions \cap D

\* The references the conditions stand for, if one of them is a digest.
workloadRepositoryReferences(conditions, D) ==
    IF conditions \cap D = {} THEN {} ELSE conditions

\* Is the repository listed (ListRepositoryContents)?
Listed(conditions, D) == workloadRepositoryReferences(conditions, D) = {}

\* A listing of the repository has its tags and no digests.
discoverImages(q, conditions, remote, D) ==
    IF Listed(conditions, D) THEN {i \in remote.of \ D : RepositoryOf[i] = q}
    ELSE workloadRepositoryReferences(conditions, D)

FilterByTag(conditions, i) == conditions = {} \/ i \in conditions

\* What a remote registry may hold: a repository may be there without images.
Remotes == {x \in [whole : SUBSET Repositories, of : SUBSET Images] :
                \A i \in x.of : RepositoryOf[i] \in x.whole}

\* Handle up to the images found.  Targets that are not declared, a listing of
\* a repository that is missing, and refToImages on an image that is missing
\* are errors.
DiscoveredImages(r, t, remote, D) ==
    LET repositories == applyTargetsToRegistry(RepositoriesOf(r), t)
        Conditions(q) == IF q \in DOMAIN repositories THEN repositories[q] ELSE {}
        discovered == discoverRepositories(repositories, remote)
        references == UNION {{i \in discoverImages(q, Conditions(q), remote, D) :
                                 FilterByTag(Conditions(q), i)} : q \in discovered}
    IN  IF \/ ~TargetsDeclared(t, RepositoriesOf(r))
           \/ \E q \in discovered \ remote.whole : Listed(Conditions(q), D)
           \/ ~(references \subseteq remote.of)
        THEN CatalogueFails ELSE [whole |-> {}, of |-> references]
=============================================================================
