------------------------------ MODULE Cluster ------------------------------
(***************************************************************************)
(* What the parts of a registry scan share: the objects of one namespace   *)
(* in the Kubernetes API (the ScanJobs of one Registry, and the Images,    *)
(* SBOMs and VulnerabilityReports of its images), the work queue, and the  *)
(* bounds on what the environment does.                                    *)
(*                                                                         *)
(* An image, its SBOM and its VulnerabilityReport have one name            *)
(* (computeImageUID), so all three are indexed by image.                   *)
(***************************************************************************)
EXTENDS Naturals, FiniteSets, ScanJobStatus

CONSTANTS
    Names,         \* names of ScanJobs of the Registry
    UIDs,          \* UIDs of ScanJob objects; a recreated job has a new one
    NameOf,        \* NameOf[u]: the name of the object with UID u
    Images,        \* images the Registry may hold
    Targeted,      \* images a targeted ScanJob selects
    Targets,       \* kinds of ScanJob users create, a subset of TargetKinds
    Workers, MaxDeliver, MaxCopies, NoTask,   \* see WorkQueue
    NoJob, NoUID, NoImage, NoRec              \* absent values

\* spec.repositories: empty, naming part of the Registry, or naming a repository
\* or a match condition that the Registry does not declare.
Undeclared == {"unknownRepository", "unknownCondition"}

TargetKinds == {"all", "subset"} \cup Undeclared

ScanJob == [uid : UIDs, rv : Nat, stamp : Nat, snapshot : BOOLEAN,
            target : TargetKinds, status : Status]

Owned == {"none", "owned", "orphan"}

Report == [uid : UIDs \cup {NoUID}, owner : Owned]

NoReport == [uid |-> NoUID, owner |-> "none"]

ASSUME ClusterAssumption ==
    /\ NameOf \in [UIDs -> Names]
    /\ Targeted \subseteq Images
    /\ Targets \subseteq TargetKinds
    /\ MaxDeliver \in Nat \ {0}
    /\ MaxCopies \in Nat \ {0}
    /\ NoUID \notin UIDs
    /\ NoImage \notin Images
    /\ NoJob \notin ScanJob

\* Images is finite, in the form counting images and reports needs.
ASSUME FiniteAssumption ==
    \A T \in SUBSET Images :
        /\ Cardinality(T) \in Nat
        /\ \A S \in SUBSET T : Cardinality(S) = Cardinality(T) => S = T

VARIABLES
    jobs,          \* jobs[n]: the ScanJob called n, or NoJob
    jobCache,      \* the controller process's copy of jobs
    clock,         \* revision of the last write to a ScanJob
    images,        \* names of the Image objects
    sboms,         \* sboms[i]: no SBOM, one owned by the Image, an orphan
    reports,       \* reports[i]: ScanJob label and ownership of the report
    reportEvents,  \* reports with a watch event under way to the controller
    registry,      \* does the Registry object exist
    tags,          \* images the remote registry holds now
    published, stream, task,                  \* see WorkQueue
    counted,       \* counted[u]: times u was counted as finished
    catalog,       \* catalog[u]: images of the last catalogue of u
    labelled,      \* labelled[u]: images whose report was given label u
    disturbed,     \* jobs one of the disturbances below happened to
    faults,        \* errors, crashes and timeouts still to come
    changes        \* acts of users still to come

\* Message ids: createCatalog/<uid>, generateSBOM/<uid>/<image>,
\* scanSBOM/<uid>/<image>.
Message(kind, u, i) == [kind |-> kind, uid |-> u, img |-> i]

ScanMessages ==
    [kind : {"createCatalog"}, uid : UIDs, img : {NoImage}]
        \cup [kind : {"generateSBOM", "scanSBOM"}, uid : UIDs, img : Images]

INSTANCE WorkQueue WITH Messages <- ScanMessages

ASSUME TaskAssumption == NoTask \notin Task

ClusterTypeOK ==
    /\ jobs \in [Names -> ScanJob \cup {NoJob}]
    /\ clock \in Nat
    /\ images \subseteq Images
    /\ sboms \in [Images -> Owned]
    /\ reports \in [Images -> Report]
    /\ reportEvents \subseteq Images
    /\ registry \in BOOLEAN
    /\ tags \subseteq Images
    /\ counted \in [UIDs -> Nat]
    /\ catalog \in [UIDs -> SUBSET Images]
    /\ labelled \in [UIDs -> SUBSET Images]
    /\ disturbed \subseteq UIDs
    /\ faults \in Nat
    /\ changes \in Nat
    /\ QueueTypeOK

ClusterInit(initialTags, maxFaults, maxChanges) ==
    /\ jobs = [n \in Names |-> NoJob]
    /\ clock = 0
    /\ images = {}
    /\ sboms = [i \in Images |-> "none"]
    /\ reports = [i \in Images |-> NoReport]
    /\ reportEvents = {}
    /\ registry = TRUE
    /\ tags = initialTags
    /\ counted = [u \in UIDs |-> 0]
    /\ catalog = [u \in UIDs |-> {}]
    /\ labelled = [u \in UIDs |-> {}]
    /\ disturbed = {}
    /\ faults = maxFaults
    /\ changes = maxChanges
    /\ QueueInit

jobVars == <<jobs, clock>>
objectVars == <<images, sboms, reports, reportEvents>>
queueVars == <<published, stream>>
userVars == <<registry, tags, changes>>
historyVars == <<catalog, labelled, disturbed>>

\* The ScanJob with UID u still exists.
Live(u) == jobs[NameOf[u]] # NoJob /\ jobs[NameOf[u]].uid = u

StatusOf(u) == jobs[NameOf[u]].status

\* A write of the status subresource.  The API server stores, and gives a new
\* resource version to, an update that changes something.
WriteStatus(n, s) ==
    IF jobs[n].status = s
    THEN UNCHANGED jobVars
    ELSE /\ clock' = clock + 1
         /\ jobs' = [jobs EXCEPT ![n].status = s, ![n].rv = clock + 1]

\* JobMetrics.RecordScanJobFinished, called after the status s was persisted.
RecordScanJobFinished(u, s) ==
    counted' = IF JobFinished(s) THEN [counted EXCEPT ![u] = @ + 1]
                                 ELSE counted

\* One of the faults the environment has left happens.
Fault == faults > 0 /\ faults' = faults - 1

\* Something happens to unfinished jobs after which nothing may ever finish
\* them.  The disturbances are: an Image or SBOM is gone when its message is
\* handled, a report is relabelled or collected, the failure handler fails.
\* Two more concern finished jobs too: the catalogue is written again over
\* another one or over a finished job, and the failure handler of a message of
\* an earlier job of the same name fails this one.
Disturb(us) ==
    disturbed' = disturbed \cup
        {u \in us \cap UIDs : Live(u) /\ ~JobFinished(StatusOf(u))}
=============================================================================
