------------------------- MODULE NodeScanInvariant -------------------------
(***************************************************************************)
(* The inductive invariant behind the proofs about NodeScan: what ties the *)
(* controller's cache and held copies, the messages and the handlers to    *)
(* the NodeScanJobs in the API server.                                     *)
(***************************************************************************)
EXTENDS NodeScan

Generated(u) == published[Message("generate", u, u)] > 0

ScanPublished(u) ==
    \E m \in NodeMessages : m.kind = "scan" /\ m.uid = u /\ published[m] > 0

\* A copy c of a job named n, from a cache or a reconciliation: it has the
\* name, and was made of a job that exists or has existed.
CopyOf(n, c) == NameOf[c.uid] = n /\ c.uid \in created /\ c.owner <= configs

\* Copy c is not ahead of job j, if it is of the same object.  The owner is
\* replaced by a later one only, and a pending status is never restored.
NotAhead(c, j) ==
    c.uid = j.uid =>
        /\ c.stamp = j.stamp
        /\ c.owner <= j.owner
        /\ IsPending(j.status) => IsPending(c.status)
        /\ j.status = "Unset" => c.status = "Unset"

\* Every object has the name of its UID, which is not given out again, and
\* every owner has been created.
Identity ==
    /\ config # NoConfig => config.uid = configs
    /\ \A n \in Names :
          /\ jobs[n] # NoJob => CopyOf(n, jobs[n])
          /\ jobCache[n] # NoJob => CopyOf(n, jobCache[n])
          /\ rec[n] # NoRec => CopyOf(n, rec[n].copy)
    /\ \A u \in UIDs \ created : counted[u] = 0 /\ u \notin disturbed

\* What the controller holds is not ahead of the API server.
Behind ==
    \A n \in Names : jobs[n] # NoJob =>
        /\ jobCache[n] # NoJob => NotAhead(jobCache[n], jobs[n])
        /\ rec[n] # NoRec => NotAhead(rec[n].copy, jobs[n])

\* Messages of a job come after the message that starts its scan, and that
\* comes after its creation.
Causality ==
    /\ \A m \in NodeMessages :
          published[m] > 0 => m.uid \in created /\ Generated(m.uid)
    /\ \A e \in Entries : InStream(e) => published[e[1]] > 0
    /\ \A k \in Nodes : task[k] # NoTask => published[M(k)] > 0

\* The controller has seen the owner of every job it has published.
Published ==
    \A u \in UIDs :
        Generated(u) /\ Live(u) => /\ jobCache[NameOf[u]] # NoJob
                                   /\ jobCache[NameOf[u]].uid = u
                                   /\ jobCache[NameOf[u]].owner # 0

Current(n) == rec[n] # NoRec /\ jobs[n] # NoJob /\ jobs[n] = rec[n].copy

\* What is queued is pending as far as the cache knows; a held copy that is
\* not pending is of a disturbed job, and keeps its status.  A reconciliation
\* that will be retried leaves the job pending.
HeldAt(n) ==
    /\ n \in jobQueue => Pending(jobCache[n])
    /\ rec[n] # NoRec =>
          \/ IsPending(rec[n].copy.status)
          \/ rec[n].status = rec[n].copy.status /\ rec[n].copy.uid \in disturbed
    /\ Current(n) =>
          \/ /\ IsPending(rec[n].status)
             /\ jobCache[n] # jobs[n] \/ n \in jobQueue \/ rec[n].retry
          \/ ~IsPending(jobs[n].status)
          \/ /\ rec[n].status \in {"Scheduled", "Failed"}
             /\ jobCache[n] = jobs[n] /\ n \notin jobQueue
             /\ rec[n].status = "Scheduled" => Generated(jobs[n].uid)
    /\ rec[n] # NoRec /\ IsPending(rec[n].status) => rec[n].status = "Pending"
    /\ rec[n] # NoRec /\ rec[n].retry => IsPending(rec[n].status)

Held == \A n \in Names : HeldAt(n)

\* A job that has left the pending state was known to the controller, which
\* is not about to give it an owner; its scan has been started, or it was
\* rejected.
LeftAt(n) ==
    /\ jobs[n] # NoJob /\ ~IsPending(jobs[n].status)
    /\ jobs[n].uid \notin disturbed
    => /\ jobCache[n] # NoJob /\ jobCache[n].uid = jobs[n].uid
       /\ \/ jobCache[n].owner # 0
          \/ ~IsPending(jobCache[n].status)
          \/ n \notin jobQueue /\ rec[n] = NoRec
       /\ Generated(jobs[n].uid) \/ JobFinished(jobs[n].status)

Left == \A n \in Names : LeftAt(n)

\* A pending job is on its way to be reconciled.
ReconciledAt(n) ==
    Pending(jobs[n]) => jobCache[n] # jobs[n] \/ n \in jobQueue \/ rec[n] # NoRec

Reconciled == \A n \in Names : ReconciledAt(n)

\* Nothing more is to happen to job u, or it is about to be collected.
Settled(u) ==
    \/ ~Live(u)
    \/ u \in disturbed
    \/ JobFinished(StatusOf(u))
    \/ OwnerGone(jobs[NameOf[u]].owner)

\* What the handler on k relies on between two of its steps.  A job it has
\* read in place of the one of its message was disturbed by it.
HandlerAt(k) ==
    task[k] # NoTask =>
        /\ Handling(k, "generate", "sbom") \/ Handling(k, "generate", "publish")
              => /\ local[k].uid \in UIDs /\ NameOf[local[k].uid] = NameOf[M(k).uid]
                 /\ local[k].uid # M(k).uid
                       => ~Live(M(k).uid) /\ local[k].uid \in disturbed
        /\ Handling(k, "scan", "complete") => M(k).uid \in scanned
        /\ Handling(k, "scan", "ack") => Settled(M(k).uid)
        /\ Handling(k, "generate", "ack") => Settled(M(k).uid) \/ ScanPublished(M(k).uid)

Handlers == \A k \in Nodes : HandlerAt(k)

\* A scan message with the id of a job has that job as its payload, unless
\* the job was disturbed.
Payload ==
    \A m \in NodeMessages :
        m.kind = "scan" /\ published[m] > 0 => m.id = m.uid \/ m.id \in disturbed

\* A message that was published is in the stream until its handler is done.
Pursued ==
    \A u \in UIDs :
        /\ Generated(u) => \/ Settled(u) \/ ScanPublished(u)
                           \/ \E e \in Entries : InStream(e) /\ e[1].uid = u
        /\ ScanPublished(u) => \/ Settled(u)
                               \/ \E e \in Entries : /\ InStream(e) /\ e[1].uid = u
                                                     /\ e[1].kind = "scan"

Inv ==
    /\ Identity /\ Behind /\ Causality /\ Published /\ Held /\ Left /\ Reconciled
    /\ Handlers /\ Payload /\ Pursued
    /\ NodeJobCountedExactly /\ CompleteMeansReported
=============================================================================
