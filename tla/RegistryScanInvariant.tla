----------------------- MODULE RegistryScanInvariant -----------------------
(***************************************************************************)
(* The inductive invariant behind the proofs about RegistryScan: what ties *)
(* the controller's cache and held copies, the queue and the reports to    *)
(* the jobs in the API server.                                             *)
(***************************************************************************)
EXTENDS RegistryScan

Catalogued(u) == published[Message("createCatalog", u, NoImage)] > 0

\* The job called n and the cached job called n both exist.
Cached(n) == jobs[n] # NoJob /\ jobCache[n] # NoJob

\* A held copy of n is the version the API server has.
Current(n) == rec[n] # NoRec /\ jobs[n] # NoJob /\ rec[n].rv = jobs[n].rv

\* Every object has the name of its UID, and no version is from the future.
Versions ==
    \A n \in Names :
        /\ jobs[n] # NoJob => NameOf[jobs[n].uid] = n /\ jobs[n].rv <= clock
        /\ jobCache[n] # NoJob
              => NameOf[jobCache[n].uid] = n /\ jobCache[n].rv <= clock
        /\ rec[n] # NoRec => rec[n].rv <= clock

\* Nothing refers to a UID before the object is created.
Fresh ==
    /\ \A n \in Names : /\ jobs[n] # NoJob => jobs[n].uid \in created
                        /\ jobCache[n] # NoJob => jobCache[n].uid \in created
    /\ \A u \in UIDs \ created :
          counted[u] = 0 /\ u \notin disturbed /\ ~Catalogued(u)

\* A cached job of the current version is the current job; of an older
\* version of the same object it differs in what can change only.
CacheAgrees ==
    \A n \in Names :
        /\ Cached(n) /\ jobCache[n].rv = jobs[n].rv => jobCache[n] = jobs[n]
        /\ Cached(n) /\ jobCache[n].uid = jobs[n].uid
              => /\ jobCache[n].target = jobs[n].target
                 /\ jobCache[n].snapshot => jobs[n].snapshot

\* Messages, deliveries and reports of a job come after its first message.
Causality ==
    /\ \A m \in ScanMessages : published[m] > 0 => Catalogued(m.uid)
    /\ \A e \in Entries : InStream(e) => Catalogued(e[1].uid)
    /\ \A w \in Workers : task[w] # NoTask => Catalogued(task[w].entry[1].uid)
    /\ \A i \in Images : /\ reports[i].uid # NoUID => Catalogued(reports[i].uid)
                         /\ reportCache[i] # NoUID => Catalogued(reportCache[i])

\* The controller has seen the snapshot of every job it has published.
Published ==
    \A u \in UIDs :
        Catalogued(u) /\ Live(u)
            => /\ jobs[NameOf[u]].snapshot
               /\ jobCache[NameOf[u]] # NoJob
               /\ jobCache[NameOf[u]].uid = u
               /\ jobCache[NameOf[u]].snapshot

\* A job that is taken for one still to be annotated is pending, unless it
\* was failed on behalf of an earlier job of its name.
Quiet ==
    \A n \in Names :
        /\ Cached(n) /\ CachedPending(n) /\ ~jobCache[n].snapshot
        /\ registry /\ jobCache[n].target \notin Undeclared
        /\ ~IsPending(jobs[n].status)
        => jobs[n].uid \in disturbed

\* A held copy that is still current was made from the pending job, or is the
\* annotated job itself.
HeldCopies ==
    \A n \in Names :
        Current(n) =>
            \/ /\ jobCache[n] = jobs[n]
               /\ IsPending(jobs[n].status)
               /\ IsFailed(rec[n].status) => ~registry \/ jobs[n].target \in Undeclared
               /\ ~IsPending(rec[n].status) /\ ~IsFailed(rec[n].status)
                     => jobs[n].snapshot
            \/ IsPending(rec[n].status) /\ IsPending(jobs[n].status)
            \/ jobs[n].uid \in disturbed /\ rec[n].status = jobs[n].status

\* The inductive invariant: it relates what the controller's cache, its held
\* copies, the queue and the reports say of a job to the job itself.
Inv ==
    /\ TypeOK
    /\ Versions
    /\ Fresh
    /\ CacheAgrees
    /\ Causality
    /\ Published
    /\ Quiet
    /\ HeldCopies
    /\ CountedExactly

-----------------------------------------------------------------------------
(* What the handlers and the two controllers rely on for a job to be       *)
(* completed by its last report and not before.                            *)

\* Nothing more has to happen to job u.
Settled(u) == ~Live(u) \/ u \in disturbed \/ JobFinished(StatusOf(u))

Generated(u, i) == published[Message("generateSBOM", u, i)] > 0

Scanned(u, i) == published[Message("scanSBOM", u, i)] > 0

\* A copy of message m is in the stream.
Stored(m) == \E c \in 1..MaxCopies : InStream(<<m, c>>)

\* What is in the stream or being handled has been published.
Sent ==
    /\ \A e \in Entries : InStream(e) => published[e[1]] > 0
    /\ \A w \in Workers : task[w] # NoTask => published[M(w)] > 0

\* Messages, handlers and labels of a job are about images of its catalogue.
Catalogues ==
    /\ \A u \in UIDs \ created : catalog[u] = {}
    /\ \A u \in UIDs \ disturbed :
          /\ labelled[u] \subseteq catalog[u]
          /\ \A i \in Images : Generated(u, i) \/ Scanned(u, i) => i \in catalog[u]
    /\ \A w \in Workers :
          Handling(w, "createCatalog", "publish") /\ UID(w) \notin disturbed
             => local[w].todo \subseteq catalog[UID(w)]

\* A report, stored or cached, was given its label, and a cached label is the
\* stored one or about to be replaced.
Labels ==
    \A i \in Images :
        /\ reports[i].uid # NoUID => i \in labelled[reports[i].uid]
        /\ reportCache[i] # NoUID => i \in labelled[reportCache[i]]
        /\ reportCache[i] # reports[i].uid => i \in reportEvents

\* The total in the status of a job is the size of its catalogue, and a held
\* copy that is still current does not change it.
CountsAt(n) ==
    jobs[n] # NoJob /\ jobs[n].uid \notin disturbed =>
        /\ jobs[n].status.imagesCount = Cardinality(catalog[jobs[n].uid])
        /\ jobs[n].status.reason = "AllImagesScanned"
              => jobs[n].status.conds = OnlyTrue("Complete")
        /\ Current(n) => /\ rec[n].status.imagesCount = jobs[n].status.imagesCount
                         /\ rec[n].status.reason # "AllImagesScanned"

Counts == \A n \in Names : CountsAt(n)

\* A pending job is on its way to be reconciled, also after the status update
\* of the copy that is held; a job that has left the pending state was
\* published or is finished; and what the cache takes for finished is finished.
OnItsWayAt(n) ==
    jobs[n] # NoJob /\ jobs[n].uid \notin disturbed =>
        /\ IsPending(jobs[n].status)
              => jobCache[n] # jobs[n] \/ n \in jobQueue \/ rec[n] # NoRec
        /\ Current(n) /\ IsPending(rec[n].status)
              => jobCache[n] # jobs[n] \/ n \in jobQueue \/ rec[n].retry
        /\ ~IsPending(jobs[n].status)
              => Catalogued(jobs[n].uid) \/ JobFinished(jobs[n].status)
        /\ Current(n) /\ ~IsPending(rec[n].status) /\ ~IsFailed(rec[n].status)
              => Catalogued(jobs[n].uid)
        /\ Cached(n) /\ jobCache[n].uid = jobs[n].uid /\ JobFinished(jobCache[n].status)
              => JobFinished(jobs[n].status)

OnItsWay == \A n \in Names : OnItsWayAt(n)

\* The whole catalogue of u has been handed over to be scanned.
HandedOver(u) == catalog[u] # {} /\ \A i \in catalog[u] : Generated(u, i)

\* A message that was published is in the stream until its handler is done.
Pursued ==
    \A u \in UIDs :
        /\ Catalogued(u) => \/ Settled(u) \/ HandedOver(u)
                            \/ Stored(Message("createCatalog", u, NoImage))
        /\ \A i \in Images :
              /\ Generated(u, i) => \/ Settled(u) \/ Scanned(u, i)
                                    \/ Stored(Message("generateSBOM", u, i))
              /\ Scanned(u, i) => \/ Settled(u) \/ i \in labelled[u]
                                  \/ Stored(Message("scanSBOM", u, i))

\* What the handler of w has done when it acknowledges, and in the loop that
\* publishes.
HandlerAt(w) ==
    LET u == UID(w)
        i == M(w).img
    IN  /\ Handling(w, "createCatalog", "publish")
              => \/ Settled(u)
                 \/ catalog[u] # {} /\ \A j \in catalog[u] \ local[w].todo : Generated(u, j)
        /\ Handling(w, "createCatalog", "ack") => Settled(u) \/ HandedOver(u)
        /\ Handling(w, "generateSBOM", "ack") => Settled(u) \/ Scanned(u, i)
        /\ Handling(w, "scanSBOM", "ack") => Settled(u) \/ i \in labelled[u]

Handlers == \A w \in Workers : HandlerAt(w)

\* Reports keep the label of a job until it is finished, and while it is not,
\* one of them is still to be counted once all images are labelled.
Awaited ==
    \A u \in UIDs : ~Settled(u) =>
        /\ \A i \in labelled[u] : reports[i].uid = u
        /\ catalog[u] # {} /\ catalog[u] \subseteq labelled[u]
              => \E i \in Images : reports[i].uid = u /\ i \in reportEvents \cup reportQueue

\* The second inductive invariant, relative to Inv.
Progress ==
    /\ Sent /\ Catalogues /\ Labels /\ Counts /\ OnItsWay
    /\ Pursued /\ Handlers /\ Awaited
    /\ NoPrematureCompletion
=============================================================================
