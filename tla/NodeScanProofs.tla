--------------------------- MODULE NodeScanProofs ---------------------------
(***************************************************************************)
(* The conjuncts of the invariant of NodeScan that are about what the      *)
(* controller holds, pending and finished jobs, and the handlers.  With    *)
(* those of NodeScanSteps the invariant is inductive, and the properties   *)
(* of NodeScan follow, for every value of the constants.                   *)
(***************************************************************************)
EXTENDS NodeScanSteps

\* The step is not about n, or deletes the job.
Apart(n) ==
    /\ rec'[n] = rec[n] /\ jobCache'[n] = jobCache[n]
    /\ jobs'[n] = NoJob \/ jobs'[n] = jobs[n]
    /\ n \in jobQueue' <=> n \in jobQueue

\* A step of the controller for one job is apart from the others.
LEMMA OthersApart ==
    ASSUME NEW m \in Names, NEW n \in Names \ {m},
           Synced(m) \/ Takes(m) \/ Updated(m) \/ Retried(m)
    PROVE  Apart(n)
<1>1. \A j : n \in Requeued(m, j) <=> n \in jobQueue
  BY DEF Requeued
<1>2. CASE Synced(m)
  BY Zenon, <1>1, <1>2 DEF Synced, Apart
<1>3. CASE Takes(m)
  BY Zenon, <1>3 DEF Takes, Apart
<1>4. CASE Updated(m)
  BY <1>1, <1>4 DEF Updated, Released, Apart
<1>5. CASE Retried(m)
  BY Zenon, <1>1, <1>5 DEF Retried, Released, Apart
<1> QED
  BY <1>2, <1>3, <1>4, <1>5

\* So is a deletion.
LEMMA ShrinksApart == ASSUME Shrinks, NEW n \in Names PROVE Apart(n)
BY DEF Shrinks, Apart

\* A worker's step is apart, or writes a status that is not pending.
LEMMA WorkerApart ==
    ASSUME TypeOK, WorkerOnly, NEW n \in Names
    PROVE  /\ rec'[n] = rec[n] /\ jobCache'[n] = jobCache[n] /\ jobQueue' = jobQueue
           /\ \/ Apart(n)
              \/ \E k \in Nodes, s \in {"InProgress", "Complete", "Failed"} :
                    Rewrites(k, s) /\ n = NameOf[M(k).uid]
<1>1. UNCHANGED <<jobCache, jobQueue, rec>>
  BY DEF WorkerOnly
<1>2. ASSUME NEW k \in Nodes, NEW s \in {"InProgress", "Complete", "Failed"}, Rewrites(k, s),
             n # NameOf[M(k).uid]
      PROVE  Apart(n)
  BY Zenon, <1>1, <1>2 DEF Rewrites, Apart
<1>3. CASE Leaves
  BY <1>1, <1>3 DEF Leaves, Apart
<1> QED
  BY Zenon, <1>1, <1>2, <1>3 DEF WorkerOnly, WorkerStep

\* What stays, stays: the facts about n are kept by a step that is apart.
LEMMA ApartKeeps ==
    ASSUME TypeOK, Identity, Held, Handlers, Controlled \/ WorkerOnly, NEW n \in Names, Apart(n)
    PROVE  /\ HeldAt(n) => HeldAt(n)'
           /\ LeftAt(n) => LeftAt(n)'
           /\ ReconciledAt(n) => ReconciledAt(n)'
<1>1. \A u \in UIDs : Generated(u) => Generated(u)'
  BY PublishedGrows
<1>2. disturbed \subseteq disturbed'
  BY Objects
<1>3. jobs[n] # NoJob => jobs[n].uid \in UIDs
  BY ObjectsTyped, JobTyped
<1>4. /\ rec'[n] = rec[n] /\ jobCache'[n] = jobCache[n]
      /\ jobs'[n] = NoJob \/ jobs'[n] = jobs[n]
      /\ n \in jobQueue' <=> n \in jobQueue
  BY DEF Apart
<1>5. HeldAt(n) => HeldAt(n)'
  <2>1. Current(n)' => Current(n) /\ jobs'[n] = jobs[n]
    BY Zenon, <1>4 DEF Current
  <2>2. jobs'[n] = jobs[n] /\ jobs[n] # NoJob /\ Generated(jobs[n].uid) => Generated(jobs[n].uid)'
    <3>1. SUFFICES ASSUME jobs'[n] = jobs[n], jobs[n] # NoJob, Generated(jobs[n].uid)
                   PROVE  Generated(jobs[n].uid)'
      OBVIOUS
    <3>2. PICK v \in UIDs : v = jobs[n].uid
      BY <1>3, <3>1
    <3>3. Generated(v)'
      BY <1>1, <3>1, <3>2
    <3> QED
      BY Zenon, <3>1, <3>2, <3>3
  <2>3. Current(n) => jobs[n] # NoJob
    BY DEF Current
  <2> QED
    BY Zenon, <1>2, <1>4, <2>1, <2>2, <2>3 DEF HeldAt
<1>6. LeftAt(n) => LeftAt(n)'
  <2>1. jobs'[n] = jobs[n] /\ jobs[n] # NoJob /\ Generated(jobs[n].uid) => Generated(jobs[n].uid)'
    <3>1. SUFFICES ASSUME jobs'[n] = jobs[n], jobs[n] # NoJob, Generated(jobs[n].uid)
                   PROVE  Generated(jobs[n].uid)'
      OBVIOUS
    <3>2. PICK v \in UIDs : v = jobs[n].uid
      BY <1>3, <3>1
    <3>3. Generated(v)'
      BY <1>1, <3>1, <3>2
    <3> QED
      BY Zenon, <3>1, <3>2, <3>3
  <2> QED
    BY Zenon, <1>2, <1>4, <2>1 DEF LeftAt
<1>7. ReconciledAt(n) => ReconciledAt(n)'
  BY <1>4 DEF ReconciledAt, Pending
<1> QED
  BY <1>5, <1>6, <1>7

\* A job without owner that is to be given one is pending, or disturbed.
LEMMA AnswerPending ==
    ASSUME Left, Held, NEW n \in Names, Takes(n), TakesAnswer(n)
    PROVE  IsPending(jobs[n].status) \/ jobs[n].uid \in disturbed
<1>1. n \in jobQueue /\ jobCache[n].owner = 0 /\ jobs[n] # NoJob /\ rec[n] = NoRec
  BY DEF Takes, TakesAnswer
<1>2. IsPending(jobCache[n].status)
  BY Zenon, <1>1 DEF Held, HeldAt, Pending
<1> QED
  BY <1>1, <1>2 DEF Left, LeftAt

-----------------------------------------------------------------------------
\* What the cache knows, and what a reconciliation holds.
LEMMA HeldStep ==
    ASSUME TypeOK, Identity, Held, Left, Handlers, Controlled \/ WorkerOnly
    PROVE  Held'
<1> SUFFICES ASSUME NEW n \in Names PROVE HeldAt(n)'
  BY DEF Held
<1>0. HeldAt(n)
  BY DEF Held
<1>1. ASSUME Apart(n) PROVE HeldAt(n)'
  BY <1>0, <1>1, ApartKeeps
<1>2. CASE Shrinks
  BY <1>1, <1>2, ShrinksApart
<1>3. ASSUME NEW u \in UIDs, Born(u) PROVE HeldAt(n)'
  <2>1. UNCHANGED <<jobCache, jobQueue, rec, disturbed>> /\ u \notin created
    BY Zenon, <1>3 DEF Born
  <2>2. CASE n = NameOf[u]
    <3>1. rec[n] # NoRec => rec[n].copy.uid \in created
      BY Zenon DEF Identity, CopyOf
    <3>2. jobs'[n].uid = u
      BY Zenon, <1>3, <2>2 DEF Born
    <3>3. ~Current(n)'
      BY <2>1, <3>1, <3>2 DEF Current
    <3> QED
      BY Zenon, <1>0, <2>1, <3>3 DEF HeldAt
  <2>3. CASE n # NameOf[u]
    <3>1. Apart(n)
      BY Zenon, <1>3, <2>1, <2>3 DEF Born, Apart
    <3> QED
      BY <1>1, <3>1
  <2> QED
    BY <2>2, <2>3
<1>4. CASE Restarted
  BY Zenon, <1>4 DEF Restarted, HeldAt, Current
<1>5. ASSUME Synced(n) PROVE HeldAt(n)'
  <2>1. /\ jobCache[n] # jobs[n] /\ jobCache'[n] = jobs[n] /\ jobQueue' = Requeued(n, jobs[n])
        /\ UNCHANGED <<jobs, rec, published, disturbed>>
    BY Zenon, <1>5 DEF Synced
  <2>2. n \in jobQueue' <=> Pending(jobs[n])
    BY Zenon, <2>1 DEF Requeued
  <2>3. Current(n)' <=> Current(n)
    BY <2>1 DEF Current
  <2> QED
    BY Zenon, <1>0, <2>1, <2>2, <2>3 DEF HeldAt, Pending, Current
<1>6. ASSUME Takes(n) PROVE HeldAt(n)'
  <2>1. /\ n \in jobQueue /\ n \notin jobQueue' /\ rec'[n] \in Reconciliation
        /\ jobCache' = jobCache /\ disturbed' = disturbed
    BY Zenon, <1>6 DEF Takes
  <2>2. Pending(jobCache[n]) /\ jobCache[n] # NoJob
    BY Zenon, <1>0, <2>1 DEF HeldAt, Pending
  <2>3. CASE TakesCopy(n)
    <3>1. /\ rec'[n].copy = jobCache[n] /\ IsPending(rec'[n].copy.status)
          /\ Current(n)' => jobs'[n] = jobCache[n]
      BY Zenon, <2>2, <2>3 DEF TakesCopy, Pending, Current
    <3>2. CASE rec'[n].status = "Failed" /\ rec'[n].retry = FALSE
      BY Zenon, <2>1, <3>1, <3>2 DEF HeldAt, IsPending, Pending
    <3>3. CASE rec'[n].status = "Pending" /\ rec'[n].retry = TRUE
      BY Zenon, <2>1, <3>1, <3>3 DEF HeldAt, IsPending, Pending
    <3>4. CASE /\ rec'[n].status = "Scheduled" /\ rec'[n].retry = FALSE
               /\ PublishNode(Message("generate", jobCache[n].uid, jobCache[n].uid))
      <4>1. PICK v \in UIDs : v = jobCache[n].uid
        BY <2>2, ObjectsTyped, JobTyped
      <4>2. PublishNode(Message("generate", v, v)) /\ Message("generate", v, v) \in NodeMessages
        BY Zenon, <3>4, <4>1, MessageTyped
      <4>3. Generated(v)'
        <5> DEFINE g == Message("generate", v, v)
        <5>1. g.kind = "generate" /\ g.id = v /\ g \in NodeMessages /\ PublishNode(g)
          BY <4>2, MessageTyped
        <5>2. ASSUME NEW k \in NodeMessages, k.kind = "generate", k.id = v PROVE k = g
          BY <5>2, MessageKinds
        <5> HIDE DEF g
        <5>3. published'[g] > 0
          <6>1. \/ published'[g] > 0
                \/ \E k \in NodeMessages : /\ k.kind = g.kind /\ k.id = g.id
                                            /\ published'[k] > 0
            BY Zenon, <5>1, PublishEffect
          <6> QED
            BY Zenon, <5>1, <5>2, <6>1
        <5> QED
          BY <5>3 DEF Generated, g
      <4>4. Current(n)' => Generated(jobs[n].uid)'
        BY <3>1, <4>1, <4>3
      <4> QED
        BY Zenon, <2>1, <3>1, <3>4, <4>4 DEF HeldAt, IsPending, Pending
    <3> QED
      BY Zenon, <2>3, <3>2, <3>3, <3>4 DEF TakesCopy
  <2>4. CASE TakesAnswer(n)
    <3>1. /\ config # NoConfig /\ jobs[n] # NoJob /\ jobCache[n].owner = 0
          /\ jobs'[n] = [jobs[n] EXCEPT !.owner = config.uid] /\ rec'[n].copy = jobs'[n]
          /\ rec'[n].status = (IF jobs[n].status = "Unset" THEN "Pending" ELSE jobs[n].status)
          /\ rec'[n].retry = FALSE
      BY <2>4 DEF TakesAnswer
    <3>2. config.uid # 0 /\ jobs[n] \in NodeScanJob
      BY <3>1, ObjectsTyped
    <3>3. /\ jobs'[n].uid = jobs[n].uid /\ jobs'[n].owner # 0
          /\ jobs'[n].status = jobs[n].status
      BY <3>1, <3>2, OwnerOnly
    <3>4. IsPending(jobs[n].status) \/ jobs[n].uid \in disturbed
      BY <1>6, <2>4, AnswerPending
    <3>5. jobCache'[n] # jobs'[n]
      BY Zenon, <2>1, <3>1, <3>3
    <3> QED
      BY <2>1, <2>2, <3>1, <3>3, <3>4, <3>5 DEF HeldAt, IsPending, Pending
  <2> QED
    BY <1>6, <2>3, <2>4 DEF Takes
<1>7. ASSUME Updated(n) \/ Retried(n) PROVE HeldAt(n)'
  <2>1. /\ rec'[n] = NoRec /\ jobCache' = jobCache
        /\ jobQueue' = Requeued(n, jobCache[n]) \/ jobQueue' = jobQueue
    BY <1>7 DEF Updated, Retried, Released
  <2>2. n \in jobQueue' => Pending(jobCache[n])
    BY Zenon, <1>0, <2>1 DEF Requeued, HeldAt
  <2> QED
    BY Zenon, <2>1, <2>2 DEF HeldAt, Current, Pending
<1>8. CASE WorkerOnly
  <2>1. ASSUME NEW k \in Nodes, NEW s \in {"InProgress", "Complete", "Failed"}, Rewrites(k, s),
               n = NameOf[M(k).uid]
        PROVE  HeldAt(n)'
    <3>1. UNCHANGED <<jobCache, jobQueue, rec>> /\ disturbed \subseteq disturbed'
      BY Zenon, <1>8, WorkerObjects DEF WorkerOnly
    <3>2. jobs'[n] = [jobs[n] EXCEPT !.status = s] /\ jobs[n] # NoJob
      BY Zenon, <2>1 DEF Rewrites
    <3>3. jobs'[n].status = s
      BY <3>2, ObjectsTyped, StatusOnly
    <3>4. ~IsPending(jobs'[n].status)
      BY <3>3 DEF IsPending
    <3> QED
      BY Zenon, <1>0, <3>1, <3>4 DEF HeldAt, IsPending, Pending
  <2> QED
    BY <1>1, <1>8, <2>1, WorkerApart
<1>9. ASSUME NEW m \in Names, Synced(m) \/ Takes(m) \/ Updated(m) \/ Retried(m) PROVE HeldAt(n)'
  BY <1>1, <1>5, <1>6, <1>7, <1>9, OthersApart
<1> QED
  BY <1>2, <1>3, <1>4, <1>8, <1>9, Zenon DEF Controlled

\* Jobs that have left the pending state.
LEMMA LeftStep ==
    ASSUME TypeOK, Identity, Causality, Published, Held, Left, Handlers, Controlled \/ WorkerOnly
    PROVE  Left'
<1> SUFFICES ASSUME NEW n \in Names PROVE LeftAt(n)'
  BY DEF Left
<1>0. LeftAt(n) /\ HeldAt(n)
  BY DEF Left, Held
<1>1. ASSUME Apart(n) PROVE LeftAt(n)'
  BY <1>0, <1>1, ApartKeeps
<1>2. CASE Shrinks
  BY <1>1, <1>2, ShrinksApart
<1>3. ASSUME NEW u \in UIDs, Born(u) PROVE LeftAt(n)'
  <2>2. CASE n = NameOf[u]
    BY <1>3, <2>2 DEF Born, LeftAt, IsPending
  <2>3. CASE n # NameOf[u]
    <3>1. Apart(n)
      BY Zenon, <1>3, <2>3 DEF Born, Apart
    <3> QED
      BY <1>1, <3>1
  <2> QED
    BY <2>2, <2>3
<1>4. ASSUME jobCache'[n] = jobs[n], UNCHANGED <<jobs, disturbed, published>> PROVE LeftAt(n)'
  <2>1. jobs'[n] = jobs[n] /\ \A u : Generated(u)' <=> Generated(u)
    BY Zenon, <1>4 DEF Generated
  <2> QED
    BY Zenon, <1>0, <1>4, <2>1 DEF LeftAt
<1>5. CASE Restarted
  BY Zenon, <1>4, <1>5 DEF Restarted
<1>6. ASSUME Synced(n) PROVE LeftAt(n)'
  BY Zenon, <1>4, <1>6 DEF Synced
<1>7. ASSUME Takes(n) PROVE LeftAt(n)'
  <2>1. /\ n \in jobQueue /\ jobCache' = jobCache /\ disturbed' = disturbed
    BY <1>7 DEF Takes
  <2>2. CASE TakesCopy(n)
    <3>1. SUFFICES ASSUME jobs'[n] = jobs[n], jobs[n] # NoJob PROVE LeftAt(n)'
      BY Zenon, <2>2 DEF TakesCopy, LeftAt
    <3>2. PICK v \in UIDs : v = jobs[n].uid
      BY <3>1, ObjectsTyped, JobTyped
    <3>3. Generated(v) => Generated(v)'
      BY Zenon, PublishedGrows
    <3>4. Generated(jobs[n].uid) => Generated(jobs[n].uid)'
      BY Zenon, <3>1, <3>2, <3>3
    <3> QED
      BY Zenon, <1>0, <2>1, <3>1, <3>4 DEF LeftAt
  <2>3. CASE TakesAnswer(n)
    <3>1. jobs[n] # NoJob /\ jobs'[n] = [jobs[n] EXCEPT !.owner = config.uid]
      BY <2>3 DEF TakesAnswer
    <3>2. jobs'[n].uid = jobs[n].uid /\ jobs'[n].status = jobs[n].status
      BY <3>1, ObjectsTyped, OwnerOnly
    <3>3. IsPending(jobs[n].status) \/ jobs[n].uid \in disturbed
      BY <1>7, <2>3, AnswerPending
    <3> QED
      BY <2>1, <3>2, <3>3 DEF LeftAt
  <2> QED
    BY Zenon, <1>7, <2>2, <2>3 DEF Takes
<1>8. ASSUME Updated(n) PROVE LeftAt(n)'
  <2>1. /\ jobs[n] # NoJob /\ jobs'[n] = [jobs[n] EXCEPT !.status = rec[n].status]
        /\ rec[n] # NoRec /\ jobs[n] = rec[n].copy /\ rec'[n] = NoRec
        /\ UNCHANGED <<jobCache, disturbed, published>>
        /\ jobQueue' = IF rec[n].retry THEN Requeued(n, jobCache[n]) ELSE jobQueue
    BY <1>8 DEF Updated, Released
  <2>2. jobs'[n].uid = jobs[n].uid /\ jobs'[n].status = rec[n].status
    BY <2>1, ObjectsTyped, StatusOnly
  <2>3. SUFFICES ASSUME ~IsPending(rec[n].status), jobs[n].uid \notin disturbed PROVE LeftAt(n)'
    BY <2>1, <2>2 DEF LeftAt
  <2>4. /\ IsPending(jobs[n].status) /\ Current(n) /\ ~rec[n].retry
    BY <1>0, <2>1, <2>3 DEF HeldAt, Current
  <2>5. /\ rec[n].status \in {"Scheduled", "Failed"}
        /\ jobCache[n] = jobs[n] /\ n \notin jobQueue
        /\ rec[n].status = "Scheduled" => Generated(jobs[n].uid)
    BY Zenon, <1>0, <2>3, <2>4 DEF HeldAt
  <2>6. jobQueue' = jobQueue
    BY <2>1, <2>4
  <2>7. Generated(jobs[n].uid) => Generated(jobs[n].uid)'
    BY <2>1, <2>2 DEF Generated
  <2> QED
    BY <2>1, <2>2, <2>5, <2>6, <2>7 DEF LeftAt, JobFinished
<1>9. ASSUME Retried(n) PROVE LeftAt(n)'
  <2>1. /\ rec[n] # NoRec /\ jobs'[n] = jobs[n]
        /\ UNCHANGED <<jobCache, disturbed, published>>
    BY Zenon, <1>9 DEF Retried, Released
  <2>2. Generated(jobs[n].uid) => Generated(jobs[n].uid)'
    BY Zenon, <2>1 DEF Generated
  <2> QED
    BY Zenon, <1>0, <2>1, <2>2 DEF LeftAt
<1>10. CASE WorkerOnly
  <2>1. ASSUME NEW k \in Nodes, NEW s \in {"InProgress", "Complete", "Failed"}, Rewrites(k, s),
               n = NameOf[M(k).uid]
        PROVE  LeftAt(n)'
    <3>1. UNCHANGED <<jobCache, jobQueue, rec>>
      BY <1>10 DEF WorkerOnly
    <3>2. /\ jobs'[n] = [jobs[n] EXCEPT !.status = s] /\ jobs[n] # NoJob /\ task[k] # NoTask
          /\ jobs[n].uid # M(k).uid => jobs[n].uid \in disturbed'
          /\ published' = published
      BY Zenon, <2>1 DEF Rewrites
    <3>3. jobs'[n].status = s /\ jobs'[n].uid = jobs[n].uid
      BY <3>2, ObjectsTyped, StatusOnly
    <3>4. SUFFICES ASSUME jobs[n].uid = M(k).uid PROVE LeftAt(n)'
      BY <3>2, <3>3 DEF LeftAt
    <3>5. PICK v \in UIDs : v = M(k).uid
      BY <3>2, TaskTyped
    <3>6. Generated(v) /\ Live(v)
      <4>1. M(k) \in NodeMessages /\ published[M(k)] > 0
        BY <3>2, TaskTyped DEF Causality
      <4> QED
        BY <2>1, <3>2, <3>4, <3>5, <4>1 DEF Causality, Live
    <3>7. jobCache[n] # NoJob /\ jobCache[n].uid = v /\ jobCache[n].owner # 0
      BY <2>1, <3>5, <3>6 DEF Published
    <3>8. Generated(v)'
      BY <3>2, <3>6 DEF Generated
    <3>9. Generated(jobs[n].uid)'
      BY <3>3, <3>4, <3>5, <3>8
    <3> QED
      BY Zenon, <3>1, <3>3, <3>4, <3>5, <3>7, <3>9 DEF LeftAt
  <2> QED
    BY <1>1, <1>10, <2>1, WorkerApart
<1>11. ASSUME NEW m \in Names, Synced(m) \/ Takes(m) \/ Updated(m) \/ Retried(m) PROVE LeftAt(n)'
  BY <1>1, <1>6, <1>7, <1>8, <1>9, <1>11, OthersApart
<1> QED
  BY <1>2, <1>3, <1>5, <1>10, <1>11, Zenon DEF Controlled

-----------------------------------------------------------------------------
\* Pending jobs.
LEMMA ReconciledStep ==
    ASSUME TypeOK, Identity, Behind, Held, Reconciled, Handlers, Controlled \/ WorkerOnly
    PROVE  Reconciled'
<1> SUFFICES ASSUME NEW n \in Names PROVE ReconciledAt(n)'
  BY DEF Reconciled
<1>0. ReconciledAt(n) /\ HeldAt(n)
  BY DEF Reconciled, Held
<1>1. ASSUME Apart(n) PROVE ReconciledAt(n)'
  BY <1>0, <1>1, ApartKeeps
<1>2. CASE Shrinks
  BY <1>1, <1>2, ShrinksApart
<1>3. ASSUME NEW u \in UIDs, Born(u) PROVE ReconciledAt(n)'
  <2>1. CASE n = NameOf[u]
    <3>1. jobCache[n] # NoJob => jobCache[n].uid \in created
      BY DEF Identity, CopyOf
    <3> QED
      BY <1>3, <2>1, <3>1, JobTyped DEF Born, ReconciledAt, Pending
  <2>2. CASE n # NameOf[u]
    <3>1. Apart(n)
      BY <1>3, <2>2 DEF Born, Apart
    <3> QED
      BY <1>1, <3>1
  <2> QED
    BY <2>1, <2>2
<1>4. CASE Restarted
  BY <1>4 DEF Restarted, ReconciledAt, Pending
<1>5. ASSUME Synced(n) PROVE ReconciledAt(n)'
  BY <1>5 DEF Synced, ReconciledAt, Pending, Requeued
<1>6. ASSUME Takes(n) PROVE ReconciledAt(n)'
  BY <1>6, ControllersAssumption DEF Takes, ReconciledAt
<1>7. ASSUME Updated(n) PROVE ReconciledAt(n)'
  <2>1. /\ jobs[n] # NoJob /\ jobs'[n] = [jobs[n] EXCEPT !.status = rec[n].status]
        /\ rec[n] # NoRec /\ jobs[n] = rec[n].copy
        /\ jobCache' = jobCache /\ Current(n)
        /\ jobQueue' = IF rec[n].retry THEN Requeued(n, jobCache[n]) ELSE jobQueue
    BY <1>7 DEF Updated, Released, Current
  <2>2. /\ jobs'[n].uid = jobs[n].uid /\ jobs'[n].status = rec[n].status
        /\ jobs[n] \in NodeScanJob
    BY <2>1, ObjectsTyped, StatusOnly
  <2>3. SUFFICES ASSUME IsPending(rec[n].status) PROVE ReconciledAt(n)'
    BY <2>2 DEF ReconciledAt, Pending
  <2>4. rec[n].status = "Pending" /\ IsPending(jobs[n].status)
    BY <1>0, <2>1, <2>3 DEF HeldAt
  <2>5. jobCache[n] # jobs[n] \/ n \in jobQueue \/ rec[n].retry
    BY <1>0, <2>1, <2>3, <2>4 DEF HeldAt, IsPending
  <2>6. CASE n \in jobQueue
    <3>1. n \in jobQueue'
      BY <1>0, <2>1, <2>6 DEF HeldAt, Requeued
    <3> QED
      BY <3>1 DEF ReconciledAt
  <2>7. CASE rec[n].retry
    <3>1. n \in jobQueue' \/ ~Pending(jobCache[n])
      BY <2>1, <2>7 DEF Requeued
    <3>2. Pending(jobs[n])' /\ jobCache'[n] = jobs'[n] => Pending(jobCache[n])
      BY <2>1 DEF Pending
    <3> QED
      BY <3>1, <3>2 DEF ReconciledAt
  <2>8. CASE jobCache[n] # jobs[n]
    <3>1. CASE jobs[n].status = "Pending"
      <4>1. [jobs[n] EXCEPT !.status = "Pending"] = jobs[n]
        BY <2>2, <3>1 DEF NodeScanJob
      <4> QED
        BY <2>1, <2>4, <2>8, <4>1 DEF ReconciledAt
    <3>2. CASE jobs[n].status = "Unset"
      <4>1. jobCache[n] # NoJob /\ jobCache[n].uid = jobs[n].uid => jobCache[n].status = "Unset"
        BY <2>1, <3>2 DEF Behind, NotAhead
      <4>2. jobCache'[n] # jobs'[n] \/ jobs'[n] = NoJob
        BY Zenon, <2>1, <2>2, <2>4, <4>1
      <4> QED
        BY <4>2 DEF ReconciledAt, Pending
    <3> QED
      BY <2>4, <3>1, <3>2 DEF IsPending
  <2> QED
    BY <2>5, <2>6, <2>7, <2>8
<1>8. ASSUME Retried(n) PROVE ReconciledAt(n)'
  <2>1. jobs'[n] = jobs[n] /\ jobCache' = jobCache /\ jobQueue' = Requeued(n, jobCache[n])
    BY <1>8 DEF Retried, Released
  <2>2. n \in jobQueue' <=> Pending(jobCache[n])
    BY <2>1 DEF Requeued
  <2> QED
    BY <2>1, <2>2 DEF ReconciledAt, Pending
<1>9. CASE WorkerOnly
  <2>1. ASSUME NEW k \in Nodes, NEW s \in {"InProgress", "Complete", "Failed"}, Rewrites(k, s),
               n = NameOf[M(k).uid]
        PROVE  ReconciledAt(n)'
    <3>1. jobs'[n] = [jobs[n] EXCEPT !.status = s] /\ jobs[n] # NoJob
      BY Zenon, <2>1 DEF Rewrites
    <3>2. jobs'[n].status = s
      BY <3>1, ObjectsTyped, StatusOnly
    <3> QED
      BY <3>2 DEF ReconciledAt, Pending, IsPending
  <2> QED
    BY <1>1, <1>9, <2>1, WorkerApart
<1>10. ASSUME NEW m \in Names, Synced(m) \/ Takes(m) \/ Updated(m) \/ Retried(m)
       PROVE  ReconciledAt(n)'
  BY <1>1, <1>5, <1>6, <1>7, <1>8, <1>10, OthersApart
<1> QED
  BY <1>2, <1>3, <1>4, <1>9, <1>10, Zenon DEF Controlled

-----------------------------------------------------------------------------
\* What can happen to an undisturbed job u in a step: it keeps its status and
\* its count, or the reconciler writes the status of a pending job, or its own
\* handler does.
Untouched(u) ==
    LET n == NameOf[u]
    IN  /\ jobs[n] # NoJob /\ jobs[n].uid = u
        /\ jobs'[n].status = jobs[n].status /\ counted'[u] = counted[u]

Touched(u, s) ==
    LET n == NameOf[u]
    IN  /\ jobs[n] # NoJob /\ jobs[n].uid = u /\ jobs'[n].status = s
        /\ counted'[u] = IF JobFinished(s) /\ ~JobFinished(jobs[n].status)
                         THEN counted[u] + 1 ELSE counted[u]
        /\ JobFinished(jobs[n].status) => JobFinished(s)
        /\ s = "Complete" => u \in scanned

New(u) == u \notin created /\ jobs'[NameOf[u]].status = "Unset" /\ counted'[u] = counted[u]

\* There is no other way a job comes out of a step that was not disturbed.
LEMMA JobCourse ==
    ASSUME TypeOK, Identity, Held, Handlers, Controlled \/ WorkerOnly,
           NEW u \in UIDs, Live(u)', u \notin disturbed'
    PROVE  /\ Untouched(u) \/ New(u) \/ \E s \in Status : Touched(u, s)
           /\ u \notin disturbed /\ scanned \subseteq scanned'
<1> DEFINE n == NameOf[u]
<1>0. n \in Names /\ jobs'[n] # NoJob /\ jobs'[n].uid = u /\ u \notin disturbed
  BY NodeAssumption, Objects DEF Live
<1>00. counted \in [UIDs -> Nat] /\ \A m \in Names : jobs[m] # NoJob => jobs[m] \in NodeScanJob
  BY ObjectsTyped
<1> HIDE DEF n
<1>1. CASE Shrinks
  BY <1>0, <1>1 DEF Shrinks, Untouched, n
<1>2. ASSUME NEW w \in UIDs, Born(w)
      PROVE  (Untouched(u) \/ New(u)) /\ scanned' = scanned
  <2>1. CASE n = NameOf[w]
    <3>1. u = w
      BY <1>0, <1>2, <2>1 DEF Born
    <3> QED
      BY <1>2, <2>1, <3>1 DEF Born, New, n
  <2>2. CASE n # NameOf[w]
    BY <1>0, <1>2, <2>2 DEF Born, Untouched, n
  <2> QED
    BY <2>1, <2>2
<1>3. CASE Restarted
  BY Zenon, <1>0, <1>3 DEF Restarted, Untouched, n
<1>4. ASSUME NEW m \in Names, Synced(m) \/ Retried(m) PROVE Untouched(u) /\ scanned' = scanned
  <2>1. jobs'[n] = jobs[n] /\ counted' = counted /\ scanned' = scanned
    BY Zenon, <1>0, <1>4 DEF Synced, Retried, Released
  <2> QED
    BY Zenon, <1>0, <2>1 DEF Untouched, n
<1>5. ASSUME NEW m \in Names, Takes(m) PROVE Untouched(u) /\ scanned' = scanned
  <2>1. /\ counted' = counted /\ scanned' = scanned
        /\ \/ jobs'[n] = jobs[n]
           \/ jobs[n] # NoJob /\ jobs'[n] = [jobs[n] EXCEPT !.owner = config.uid]
    BY <1>0, <1>5 DEF Takes, TakesCopy, TakesAnswer
  <2>2. jobs[n] # NoJob /\ jobs[n].uid = u /\ jobs'[n].status = jobs[n].status
    <3>1. CASE jobs'[n] = jobs[n]
      BY <1>0, <3>1
    <3>2. CASE jobs[n] # NoJob /\ jobs'[n] = [jobs[n] EXCEPT !.owner = config.uid]
      BY <1>0, <1>00, <3>2, OwnerOnly
    <3> QED
      BY <2>1, <3>1, <3>2
  <2> QED
    BY <2>1, <2>2 DEF Untouched, n
<1>6. ASSUME NEW m \in Names, Updated(m)
      PROVE  (Untouched(u) \/ \E s \in Status : Touched(u, s)) /\ scanned' = scanned
  <2>0. /\ jobs[m] # NoJob /\ jobs'[m] = [jobs[m] EXCEPT !.status = rec[m].status]
        /\ rec[m] # NoRec /\ jobs[m] = rec[m].copy /\ disturbed' = disturbed
        /\ \A v \in UIDs \ {jobs[m].uid} : counted'[v] = counted[v]
        /\ counted'[jobs[m].uid] =
              counted[jobs[m].uid] + (IF JobFinished(rec[m].status) THEN 1 ELSE 0)
        /\ scanned' = scanned /\ \A i \in Names \ {m} : jobs'[i] = jobs[i]
    BY <1>6 DEF Updated, Released
  <2>1. jobs'[m].uid = jobs[m].uid /\ jobs'[m].status = rec[m].status
    BY <1>00, <2>0, StatusOnly
  <2>2. CASE m = n
    <3>1. jobs[n].uid = u /\ HeldAt(n) /\ Current(n)
      BY Zenon, <1>0, <2>0, <2>1, <2>2 DEF Held, Current
    <3>2. IsPending(jobs[n].status)
      BY Zenon, <1>0, <2>0, <2>2, <3>1 DEF HeldAt
    <3>3. rec[n].status # "Complete" /\ ~JobFinished(jobs[n].status)
      BY Zenon, <3>1, <3>2 DEF HeldAt, IsPending, JobFinished
    <3>4. rec[n].status \in Status
      BY <2>0, <2>2, ObjectsTyped
    <3>5. counted'[u] = IF JobFinished(rec[n].status) THEN counted[u] + 1 ELSE counted[u]
      BY <1>00, <2>0, <2>2, <3>1
    <3>6. Touched(u, rec[n].status)
      BY Zenon, <2>0, <2>1, <2>2, <3>1, <3>3, <3>5 DEF Touched, n
    <3> QED
      BY <2>0, <3>4, <3>6
  <2>3. CASE m # n
    <3>1. jobs'[n] = jobs[n]
      BY <1>0, <2>0, <2>3
    <3>2. u # jobs[m].uid
      BY <1>0, <2>0, <2>3, <3>1 DEF Identity, CopyOf
    <3> QED
      BY <1>0, <2>0, <3>1, <3>2 DEF Untouched, n
  <2> QED
    BY <2>2, <2>3
<1>7. CASE WorkerOnly
  <2>0. scanned \subseteq scanned'
    BY <1>7 DEF WorkerOnly, WorkerStep
  <2>1. CASE Leaves
    <3>1. jobs' = jobs /\ counted' = counted
      BY <2>1 DEF Leaves
    <3> QED
      BY Zenon, <1>0, <2>0, <3>1 DEF Untouched, n
  <2>2. ASSUME NEW k \in Nodes, NEW s \in {"InProgress", "Complete", "Failed"}, Rewrites(k, s)
        PROVE  Untouched(u) \/ \E t \in Status : Touched(u, t)
    <3> DEFINE m == NameOf[M(k).uid]
    <3>0. /\ task[k] # NoTask /\ jobs[m] # NoJob /\ jobs'[m] = [jobs[m] EXCEPT !.status = s]
          /\ \A i \in Names \ {m} : jobs'[i] = jobs[i]
          /\ jobs[m].uid # M(k).uid => jobs[m].uid \in disturbed'
          /\ s = "InProgress" /\ JobFinished(jobs[m].status) => jobs[m].uid \in disturbed'
          /\ \A v \in UIDs \ {jobs[m].uid} : counted'[v] = counted[v]
          /\ counted'[jobs[m].uid] = IF s # "InProgress" /\ ~JobFinished(jobs[m].status)
                                     THEN counted[jobs[m].uid] + 1 ELSE counted[jobs[m].uid]
          /\ s = "Complete" => Handling(k, "scan", "complete")
      BY Zenon, <2>2 DEF Rewrites
    <3>1. m \in Names
      BY Zenon, <3>0, TaskTyped
    <3> HIDE DEF m
    <3>2. jobs'[m].uid = jobs[m].uid /\ jobs'[m].status = s
      BY <1>00, <3>0, <3>1, StatusOnly
    <3>3. CASE m = n
      <4>1. jobs[n].uid = u /\ M(k).uid = u
        BY Zenon, <1>0, <3>0, <3>2, <3>3
      <4>2. s \in Status /\ (JobFinished(s) <=> s # "InProgress")
        BY DEF Status, JobFinished
      <4>3. s = "Complete" => u \in scanned
        BY <3>0, <4>1 DEF Handlers, HandlerAt
      <4>4. JobFinished(jobs[n].status) => JobFinished(s)
        BY <1>0, <3>0, <3>3, <4>1, <4>2
      <4>5. counted'[u] = IF JobFinished(s) /\ ~JobFinished(jobs[n].status)
                          THEN counted[u] + 1 ELSE counted[u]
        BY <3>0, <3>3, <4>1, <4>2
      <4>6. Touched(u, s)
        BY Zenon, <3>0, <3>2, <3>3, <4>1, <4>3, <4>4, <4>5 DEF Touched, n
      <4> QED
        BY <4>2, <4>6
    <3>4. CASE m # n
      <4>1. jobs'[n] = jobs[n]
        BY <1>0, <3>0, <3>4
      <4>2. u # jobs[m].uid
        BY <1>0, <3>0, <3>1, <3>4, <4>1 DEF Identity, CopyOf
      <4> QED
        BY <1>0, <3>0, <4>1, <4>2 DEF Untouched, n
    <3> QED
      BY <3>3, <3>4
  <2> QED
    BY <1>0, <1>7, <2>0, <2>1, <2>2, Zenon DEF WorkerOnly, WorkerStep
<1>8. CASE Shrinks \/ Restarted
  <2>1. scanned' = scanned
    BY <1>8 DEF Shrinks, Restarted
  <2> QED
    BY <1>0, <1>1, <1>3, <1>8, <2>1
<1> QED
  BY <1>0, <1>2, <1>4, <1>5, <1>6, <1>7, <1>8, Zenon DEF Controlled

\* The count and the report.
LEMMA FinishedStep ==
    ASSUME TypeOK, Identity, Held, Handlers, NodeJobCountedExactly, CompleteMeansReported,
           Controlled \/ WorkerOnly
    PROVE  NodeJobCountedExactly' /\ CompleteMeansReported'
<1> SUFFICES ASSUME NEW u \in UIDs, Live(u)', u \notin disturbed'
             PROVE  /\ counted'[u] = IF JobFinished(StatusOf(u)') THEN 1 ELSE 0
                    /\ StatusOf(u)' = "Complete" => u \in scanned'
  BY DEF NodeJobCountedExactly, CompleteMeansReported, Regular
<1>0. /\ Untouched(u) \/ New(u) \/ \E s \in Status : Touched(u, s)
      /\ u \notin disturbed /\ scanned \subseteq scanned'
  BY JobCourse
<1>1. jobs[NameOf[u]] # NoJob /\ jobs[NameOf[u]].uid = u =>
        /\ counted[u] = IF JobFinished(jobs[NameOf[u]].status) THEN 1 ELSE 0
        /\ jobs[NameOf[u]].status = "Complete" => u \in scanned
  BY Zenon, <1>0 DEF NodeJobCountedExactly, CompleteMeansReported, Regular, Live, StatusOf
<1>2. StatusOf(u)' = jobs'[NameOf[u]].status
  BY DEF StatusOf
<1>3. CASE Untouched(u)
  BY Zenon, <1>0, <1>1, <1>2, <1>3 DEF Untouched
<1>4. CASE New(u)
  BY Zenon, <1>2, <1>4 DEF New, Identity, JobFinished
<1>5. ASSUME NEW s \in Status, Touched(u, s)
      PROVE  /\ counted'[u] = IF JobFinished(StatusOf(u)') THEN 1 ELSE 0
             /\ StatusOf(u)' = "Complete" => u \in scanned'
  <2>1. counted[u] = IF JobFinished(jobs[NameOf[u]].status) THEN 1 ELSE 0
    BY Zenon, <1>1, <1>5 DEF Touched
  <2>2. /\ counted'[u] = IF JobFinished(s) /\ ~JobFinished(jobs[NameOf[u]].status)
                         THEN counted[u] + 1 ELSE counted[u]
        /\ JobFinished(jobs[NameOf[u]].status) => JobFinished(s)
        /\ StatusOf(u)' = s
        /\ s = "Complete" => u \in scanned'
    BY Zenon, <1>0, <1>2, <1>5 DEF Touched
  <2>3. counted'[u] = IF JobFinished(s) THEN 1 ELSE 0
    <3>1. 0 + 1 = 1
      OBVIOUS
    <3> QED
      BY Zenon, <2>1, <2>2, <3>1
  <2> QED
    BY Zenon, <2>2, <2>3
<1> QED
  BY <1>0, <1>3, <1>4, <1>5

-----------------------------------------------------------------------------
\* The owner of a job whose scan was started is not replaced, and one that is
\* gone does not come back.
LEMMA OwnerStays ==
    ASSUME TypeOK, Identity, Published, Controlled \/ WorkerOnly,
           NEW u \in UIDs, Generated(u), Live(u), Live(u)', OwnerGone(jobs[NameOf[u]].owner)
    PROVE  OwnerGone(jobs[NameOf[u]].owner)'
<1>1. PICK n \in Names : n = NameOf[u]
  BY NodeAssumption
<1>2. PICK o \in Nat : o = jobs[n].owner
  BY <1>1, ObjectsTyped, JobTyped, NodeAssumption DEF Live
<1>3. o # 0 /\ o <= configs /\ configs \in Nat
  BY Zenon, <1>1, <1>2, ObjectsTyped DEF OwnerGone, Live, Identity, CopyOf
<1>4. jobs[n] # NoJob /\ jobs[n] \in NodeScanJob /\ jobs'[n] # NoJob
  BY Zenon, <1>1, ObjectsTyped DEF Live
<1>5. jobs'[n].owner = o
  <2>1. ASSUME NEW m \in Names, Synced(m) \/ Updated(m) \/ Retried(m) PROVE jobs'[n].owner = o
    <3>1. jobs'[n] = jobs[n] \/ jobs'[n] = [jobs[n] EXCEPT !.status = rec[n].status]
      BY <2>1 DEF Synced, Updated, Retried, Released
    <3>2. CASE jobs'[n] = [jobs[n] EXCEPT !.status = rec[n].status]
      BY <1>2, <1>4, <3>2, StatusOnly
    <3> QED
      BY <1>2, <3>1, <3>2
  <2>2. ASSUME NEW m \in Names, Takes(m) PROVE jobs'[n].owner = o
    <3>1. jobCache[n].owner # 0
      BY <1>1 DEF Published
    <3>2. jobs'[n] = jobs[n]
      BY <1>4, <2>2, <3>1 DEF Takes, TakesCopy, TakesAnswer
    <3> QED
      BY <1>2, <3>2
  <2>3. ASSUME Shrinks \/ Restarted \/ \E w \in UIDs : Born(w) PROVE jobs'[n].owner = o
    <3>1. jobs'[n] = jobs[n]
      BY Zenon, <1>4, <2>3 DEF Shrinks, Restarted, Born
    <3> QED
      BY <1>2, <3>1
  <2>4. CASE WorkerOnly
    BY Zenon, <1>2, <1>4, <2>4, WorkerObjects
  <2> QED
    BY <2>1, <2>2, <2>3, <2>4, Zenon DEF Controlled
<1>6. ~(config' # NoConfig /\ config'.uid = o)
  <2>1. ~(config # NoConfig /\ config.uid = o)
    BY <1>1, <1>2 DEF OwnerGone
  <2>2. config' = config \/ ConfigMoves
    BY Zenon DEF Controlled, WorkerOnly, Shrinks, Born, Restarted, Synced, Takes, Updated, Retried,
           Released
  <2> QED
    BY <1>3, <2>1, <2>2 DEF ConfigMoves
<1> QED
  BY <1>1, <1>3, <1>5, <1>6 DEF OwnerGone

\* A job whose scan was started and that is settled stays settled.
LEMMA SettledStays ==
    ASSUME TypeOK, Identity, Causality, Published, Held, Handlers, Controlled \/ WorkerOnly,
           NEW u \in UIDs, Generated(u), Settled(u)
    PROVE  Settled(u)'
<1>1. SUFFICES ASSUME Live(u)', u \notin disturbed' PROVE Settled(u)'
  BY Zenon DEF Settled
<1>2. u \in created
  BY MessageTyped DEF Causality, Generated
<1>3. Live(u)
  BY Zenon, <1>1, <1>2, Objects, NodeAssumption DEF Live
<1>4. /\ Untouched(u) \/ New(u) \/ \E s \in Status : Touched(u, s)
      /\ u \notin disturbed
  BY <1>1, JobCourse
<1>5. CASE JobFinished(StatusOf(u))
  <2>1. JobFinished(jobs'[NameOf[u]].status)
    BY <1>2, <1>4, <1>5 DEF Untouched, New, Touched, StatusOf
  <2> QED
    BY <2>1 DEF Settled, StatusOf
<1>6. CASE OwnerGone(jobs[NameOf[u]].owner)
  BY Zenon, <1>1, <1>3, <1>6, OwnerStays DEF Settled
<1> QED
  BY Zenon, <1>3, <1>4, <1>5, <1>6 DEF Settled

\* A handler that does not move.
LEMMA HandlerKept ==
    ASSUME TypeOK, Identity, Causality, Published, Held, Handlers, Controlled \/ WorkerOnly,
           scanned \subseteq scanned',
           NEW k \in Nodes, task'[k] = task[k], local'[k] = local[k]
    PROVE  HandlerAt(k)'
<1>1. SUFFICES ASSUME task[k] # NoTask PROVE HandlerAt(k)'
  BY Zenon DEF HandlerAt
<1>2. PICK m \in NodeMessages : m = M(k)
  BY <1>1, TaskTyped
<1>3. M(k)' = m
  BY <1>2 DEF M
<1>4. PICK u \in UIDs : u = m.uid
  BY MessageKinds
<1>5. u \in created /\ Generated(u)
  BY <1>1, <1>2, <1>4 DEF Causality
<1>6. Settled(u) => Settled(u)'
  BY <1>5, SettledStays
<1>7. ScanPublished(u) => ScanPublished(u)'
  BY PublishedGrows
<1>8. ~Live(u) => ~Live(u)'
  BY <1>5, Objects, NodeAssumption DEF Live
<1>9. disturbed \subseteq disturbed'
  BY Objects
<1>10. HandlerAt(k)
  BY DEF Handlers
<1>11. \A kind, pc : Handling(k, kind, pc)' <=> Handling(k, kind, pc)
  BY <1>2, <1>3 DEF Handling, At
<1>12. /\ Handling(k, "generate", "sbom") \/ Handling(k, "generate", "publish")
            => /\ local[k].uid \in UIDs /\ NameOf[local[k].uid] = NameOf[u]
               /\ local[k].uid # u => ~Live(u) /\ local[k].uid \in disturbed
       /\ Handling(k, "scan", "complete") => u \in scanned
       /\ Handling(k, "scan", "ack") => Settled(u)
       /\ Handling(k, "generate", "ack") => Settled(u) \/ ScanPublished(u)
  BY Zenon, <1>1, <1>2, <1>4, <1>10 DEF HandlerAt
<1>13. /\ Handling(k, "generate", "sbom")' \/ Handling(k, "generate", "publish")'
            => /\ local'[k].uid \in UIDs /\ NameOf[local'[k].uid] = NameOf[u]
               /\ local'[k].uid # u => ~Live(u)' /\ local'[k].uid \in disturbed'
       /\ Handling(k, "scan", "complete")' => u \in scanned'
       /\ Handling(k, "scan", "ack")' => Settled(u)'
       /\ Handling(k, "generate", "ack")' => Settled(u)' \/ ScanPublished(u)'
  BY Zenon, <1>6, <1>7, <1>8, <1>9, <1>11, <1>12
<1>14. M(k).uid' = u
  BY <1>3, <1>4
<1> QED
  BY Zenon, <1>13, <1>14 DEF HandlerAt

\* A number at or above one that is not 0 is not 0.
LEMMA AboveZero ==
    ASSUME NEW a \in Nat, NEW b \in Nat, a # 0, a <= b
    PROVE  b # 0
OBVIOUS

\* A handler that has moved: what is to be shown of it.
LEMMA HandlerMoved ==
    ASSUME NEW k \in Nodes, NEW u \in UIDs, task'[k] = task[k], M(k).uid = u,
           M(k).kind = "generate" /\ local'[k].pc \in {"sbom", "publish"}
              => /\ local'[k].uid \in UIDs /\ NameOf[local'[k].uid] = NameOf[u]
                 /\ local'[k].uid # u => ~Live(u)' /\ local'[k].uid \in disturbed',
           M(k).kind = "scan" /\ local'[k].pc = "complete" => u \in scanned',
           M(k).kind = "scan" /\ local'[k].pc = "ack" => Settled(u)',
           M(k).kind = "generate" /\ local'[k].pc = "ack" => Settled(u)' \/ ScanPublished(u)'
    PROVE  HandlerAt(k)'
<1>1. M(k)' = M(k)
  BY Zenon DEF M
<1>2. \A kind, pc : Handling(k, kind, pc)' <=> task'[k] # NoTask /\ local'[k].pc = pc
                                               /\ M(k).kind = kind
  BY Zenon, <1>1 DEF Handling, At
<1>3. M(k).uid' = u
  BY Zenon, <1>1
<1>4. /\ Handling(k, "generate", "sbom")' \/ Handling(k, "generate", "publish")'
            => /\ local'[k].uid \in UIDs /\ NameOf[local'[k].uid] = NameOf[u]
               /\ local'[k].uid # u => ~Live(u)' /\ local'[k].uid \in disturbed'
      /\ Handling(k, "scan", "complete")' => u \in scanned'
      /\ Handling(k, "scan", "ack")' => Settled(u)'
      /\ Handling(k, "generate", "ack")' => Settled(u)' \/ ScanPublished(u)'
  <2>1. Handling(k, "generate", "sbom")' \/ Handling(k, "generate", "publish")'
            => M(k).kind = "generate" /\ local'[k].pc \in {"sbom", "publish"}
    BY Zenon, <1>2
  <2>2. /\ Handling(k, "scan", "complete")' => u \in scanned'
        /\ Handling(k, "scan", "ack")' => Settled(u)'
        /\ Handling(k, "generate", "ack")' => Settled(u)' \/ ScanPublished(u)'
    BY Zenon, <1>2
  <2> QED
    BY Zenon, <2>1, <2>2
<1> QED
  BY Zenon, <1>3, <1>4 DEF HandlerAt

-----------------------------------------------------------------------------
\* Nothing happens any more to a job that is gone, or that was disturbed.
LEMMA SettledSo ==
    ASSUME NEW u \in UIDs,
           \/ jobs'[NameOf[u]] = NoJob \/ jobs'[NameOf[u]].uid # u \/ u \in disturbed'
           \/ JobFinished(jobs'[NameOf[u]].status)
    PROVE  Settled(u)'
BY Zenon DEF Settled, Live, StatusOf

\* A final status settles the job of the message, or there is none.
LEMMA FinishSettles ==
    ASSUME TypeOK, NEW k \in Nodes, task[k] # NoTask, NEW u \in UIDs, M(k).uid = u,
           NEW s \in {"Complete", "Failed"}, Finish(k, s),
           UNCHANGED <<scanned, published, stream, task>>,
           s = "Complete" => Handling(k, "scan", "complete")
    PROVE  Settled(u)'
<1>1. PICK n \in Names : n = NameOf[u]
  BY NodeAssumption
<1>2. \/ jobs[n] = NoJob /\ jobs' = jobs
      \/ jobs[n] # NoJob /\ Rewrites(k, s)
  BY <1>1, FinishRewrites DEF Job
<1>3. CASE jobs[n] # NoJob /\ Rewrites(k, s)
  <2>1. jobs'[n] = [jobs[n] EXCEPT !.status = s]
    BY <1>1, <1>3 DEF Rewrites
  <2>2. jobs'[n].status = s
    BY <1>3, <2>1, ObjectsTyped, StatusOnly
  <2> QED
    BY Zenon, <1>1, <2>2, SettledSo DEF JobFinished
<1> QED
  BY <1>1, <1>2, <1>3, SettledSo

\* The steps of GenerateNodeSBOMHandler.
LEMMA GenerateHandles ==
    ASSUME TypeOK, Identity, Behind, Causality, Published, Payload, Handlers, NEW k \in Nodes,
           GenerateStart(k) \/ GenerateMark(k) \/ GenerateSBOM(k) \/ GeneratePublish(k),
           config' = config
    PROVE  HandlerAt(k)' /\ \A l \in Nodes \ {k} : task'[l] = task[l] /\ local'[l] = local[l]
<1> USE DEF queueVars, historyVars
<1>1. task[k] # NoTask /\ task' = task /\ M(k).kind = "generate"
  BY Zenon DEF GenerateStart, GenerateMark, GenerateSBOM, GeneratePublish, Handling, At
<1>2. PICK u \in UIDs : u = M(k).uid
  BY Zenon, <1>1, TaskTyped
<1>3. PICK n \in Names : n = NameOf[u]
  BY NodeAssumption
<1>4. Job(k) = jobs[n]
  BY <1>2, <1>3 DEF Job
<1>5. {"ack", "mark", "sbom", "publish", "fail"} \subseteq PCs
  BY DEF PCs
<1>6. jobs[n] # NoJob => jobs[n] \in NodeScanJob /\ NameOf[jobs[n].uid] = n
  BY Zenon, ObjectsTyped DEF Identity, CopyOf
<1>7. HandlerAt(k)
  BY DEF Handlers
<1>8. ASSUME local'[k].pc \in {"mark", "fail"} PROVE HandlerAt(k)'
  BY Zenon, <1>1, <1>2, <1>8, HandlerMoved
<1>9. ASSUME local'[k].pc = "ack", Settled(u)' \/ ScanPublished(u)' PROVE HandlerAt(k)'
  BY Zenon, <1>1, <1>2, <1>9, HandlerMoved
<1>10. CASE GenerateStart(k)
  <2>1. ASSUME NEW pc \in PCs, Goto(k, pc)
        PROVE  /\ local'[k].pc = pc
               /\ \A l \in Nodes \ {k} : task'[l] = task[l] /\ local'[l] = local[l]
    BY Zenon, <1>1, <2>1, GotoTyped
  <2>2. CASE Goto(k, "mark")
    BY Zenon, <1>5, <1>8, <2>1, <2>2
  <2>3. CASE /\ Goto(k, "ack") /\ jobs' = jobs
             /\ \/ jobs[n] = NoJob \/ JobFinished(jobs[n].status)
                \/ jobs[n] # NoJob /\ jobs[n].uid \in disturbed'
    <3>1. Settled(u)'
      BY Zenon, <1>3, <2>3, SettledSo
    <3> QED
      BY Zenon, <1>5, <1>9, <2>1, <2>3, <3>1
  <2> QED
    BY Zenon, <1>4, <1>10, <2>2, <2>3 DEF GenerateStart, Stop, Drop, IsFailed, JobFinished
<1>11. CASE GenerateMark(k)
  <2>1. CASE jobs[n] = NoJob
    <3>1. Goto(k, "ack") /\ jobs' = jobs
      BY Zenon, <1>4, <1>11, <2>1 DEF GenerateMark, Stop
    <3>2. Settled(u)'
      BY Zenon, <1>3, <2>1, <3>1, SettledSo
    <3> QED
      BY Zenon, <1>1, <1>5, <1>9, <3>1, <3>2, GotoTyped
  <2>2. CASE jobs[n] # NoJob
    <3> DEFINE pc == IF config = NoConfig THEN "ack"
                     ELSE IF jobs[n].owner = 0 THEN "fail" ELSE "sbom"
               l0 == [pc |-> pc, uid |-> jobs[n].uid, owner |-> jobs[n].owner]
    <3>1. /\ WriteInProgress(k) /\ local' = [local EXCEPT ![k] = l0]
          /\ UNCHANGED <<counted, scanned, published, stream>>
      BY Zenon, <1>4, <1>11, <2>2 DEF GenerateMark
    <3>2. l0.pc = pc /\ l0.uid = jobs[n].uid
      BY Zenon
    <3>3. local \in [Nodes -> Local]
      BY DEF TypeOK, NodeWorkerTypeOK
    <3> HIDE DEF l0
    <3>4. /\ local'[k].pc = pc /\ local'[k].uid = jobs[n].uid
          /\ \A l \in Nodes \ {k} : local'[l] = local[l]
      BY Zenon, <3>1, <3>2, <3>3
    <3>5. Rewrites(k, "InProgress")
      BY <1>1, <1>4, <2>2, <3>1, MarkRewrites
    <3>6. /\ jobs'[n] = [jobs[n] EXCEPT !.status = "InProgress"]
          /\ jobs[n].uid # u => jobs[n].uid \in disturbed'
      BY Zenon, <1>2, <1>3, <3>5 DEF Rewrites
    <3>7. jobs'[n].uid = jobs[n].uid /\ jobs'[n].owner = jobs[n].owner
      BY <1>6, <2>2, <3>6, StatusOnly
    <3>8. CASE pc = "fail"
      BY Zenon, <1>1, <1>8, <3>4, <3>8
    <3>9. CASE pc = "sbom"
      <4>1. jobs[n].uid # u => ~Live(u)'
        BY Zenon, <1>3, <3>7 DEF Live
      <4>2. jobs[n].uid \in UIDs /\ NameOf[jobs[n].uid] = NameOf[u]
        BY <1>3, <1>6, <2>2, JobTyped
      <4>3. HandlerAt(k)'
        BY <1>1, <1>2, <3>4, <3>6, <3>9, <4>1, <4>2, HandlerMoved
      <4> QED
        BY Zenon, <1>1, <3>4, <4>3
    <3>10. CASE pc = "ack"
      <4>1. config = NoConfig
        BY <3>10
      <4>2. Settled(u)'
        <5>1. CASE jobs[n].uid # u
          BY <1>3, <3>7, <5>1, SettledSo
        <5>2. CASE jobs[n].uid = u
          <6>1. Generated(u) /\ Live(u)
            <7>1. M(k) \in NodeMessages /\ published[M(k)] > 0
              BY Zenon, <1>1, TaskTyped DEF Causality
            <7> QED
              BY Zenon, <1>2, <1>3, <2>2, <5>2, <7>1 DEF Causality, Live
          <6>2. jobCache[n] # NoJob /\ jobCache[n].uid = u /\ jobCache[n].owner # 0
            BY Zenon, <1>3, <6>1 DEF Published
          <6>3. jobCache[n].owner <= jobs[n].owner
            BY Zenon, <2>2, <5>2, <6>2 DEF Behind, NotAhead
          <6>4. jobCache[n].owner \in Nat /\ jobs[n].owner \in Nat
            BY <1>6, <2>2, <6>2, ObjectsTyped, JobTyped, NodeAssumption
          <6>5. jobs'[n].owner # 0
            BY Zenon, <3>7, <6>2, <6>3, <6>4, AboveZero
          <6>6. OwnerGone(jobs[NameOf[u]].owner)'
            BY <1>3, <4>1, <6>5 DEF OwnerGone
          <6> QED
            BY Zenon, <6>6 DEF Settled
        <5> QED
          BY <5>1, <5>2
      <4> QED
        BY Zenon, <1>1, <1>9, <3>4, <3>10, <4>2
    <3> QED
      BY Zenon, <3>8, <3>9, <3>10
  <2> QED
    BY Zenon, <2>1, <2>2
<1>12. CASE GenerateSBOM(k)
  <2>0. jobs' = jobs /\ disturbed' = disturbed /\ local[k].pc = "sbom"
    BY Zenon, <1>12 DEF GenerateSBOM, Handling, At
  <2>1. CASE Goto(k, "fail")
    BY Zenon, <1>1, <1>5, <1>8, <2>1, GotoTyped
  <2>2. CASE Goto(k, "publish")
    <3>1. /\ local'[k].pc = "publish" /\ local'[k].uid = local[k].uid
          /\ \A l \in Nodes \ {k} : local'[l] = local[l]
      BY Zenon, <1>5, <2>2, GotoTyped
    <3>2. /\ local[k].uid \in UIDs /\ NameOf[local[k].uid] = NameOf[u]
          /\ local[k].uid # u => ~Live(u) /\ local[k].uid \in disturbed
      BY Zenon, <1>1, <1>2, <1>7, <2>0 DEF HandlerAt, Handling, At
    <3>3. ~Live(u) => ~Live(u)'
      BY Zenon, <2>0 DEF Live
    <3>4. HandlerAt(k)'
      BY Zenon, <1>1, <1>2, <2>0, <3>1, <3>2, <3>3, HandlerMoved
    <3> QED
      BY <1>1, <3>1, <3>4
  <2> QED
    BY Zenon, <1>12, <2>1, <2>2 DEF GenerateSBOM, Answer
<1>13. CASE GeneratePublish(k)
  <2>0. jobs' = jobs /\ disturbed' = disturbed /\ local[k].pc = "publish"
    BY Zenon, <1>13 DEF GeneratePublish, Handling, At
  <2>1. CASE Goto(k, "fail")
    BY Zenon, <1>1, <1>5, <1>8, <2>1, GotoTyped
  <2>2. CASE Goto(k, "ack") /\ jobs[n] = NoJob
    <3>1. Settled(u)'
      BY Zenon, <1>3, <2>0, <2>2, SettledSo
    <3> QED
      BY Zenon, <1>1, <1>5, <1>9, <2>2, <3>1, GotoTyped
  <2>3. CASE Goto(k, "ack") /\ PublishNode(Message("scan", local[k].uid, M(k).uid))
    <3>1. /\ local[k].uid \in UIDs /\ NameOf[local[k].uid] = NameOf[u]
          /\ local[k].uid # u => ~Live(u) /\ local[k].uid \in disturbed
      BY Zenon, <1>1, <1>2, <1>7, <2>0 DEF HandlerAt, Handling, At
    <3>2. CASE local[k].uid # u
      <4>1. ~Live(u)'
        BY Zenon, <2>0, <3>1, <3>2 DEF Live
      <4>2. Settled(u)'
        BY <4>1 DEF Settled
      <4> QED
        BY Zenon, <1>1, <1>5, <1>9, <2>3, <4>2, GotoTyped
    <3>3. CASE local[k].uid = u
      <4> DEFINE s == Message("scan", u, u)
      <4>1. s \in NodeMessages /\ PublishNode(s) /\ s.kind = "scan" /\ s.id = u /\ s.uid = u
        BY Zenon, <1>2, <2>3, <3>3, MessageTyped
      <4> HIDE DEF s
      <4>2. \/ /\ UNCHANGED <<published, stream>>
               /\ \E m \in NodeMessages : m.kind = "scan" /\ m.id = u /\ published[m] > 0
            \/ published'[s] > 0
        BY Zenon, <4>1, PublishEffect
      <4>3. Settled(u)' \/ ScanPublished(u)'
        <5>1. CASE published'[s] > 0
          BY Zenon, <4>1, <5>1 DEF ScanPublished
        <5>2. CASE /\ UNCHANGED <<published, stream>>
                   /\ \E m \in NodeMessages : m.kind = "scan" /\ m.id = u /\ published[m] > 0
          <6>1. PICK m \in NodeMessages : m.kind = "scan" /\ m.id = u /\ published[m] > 0
            BY Zenon, <5>2
          <6>2. m.uid = u \/ u \in disturbed'
            BY <2>0, <6>1 DEF Payload
          <6>3. CASE m.uid = u
            BY <5>2, <6>1, <6>3 DEF ScanPublished
          <6>4. CASE u \in disturbed'
            BY Zenon, <6>4, SettledSo
          <6> QED
            BY <6>2, <6>3, <6>4
        <5> QED
          BY Zenon, <4>2, <5>1, <5>2
      <4> QED
        BY Zenon, <1>1, <1>5, <1>9, <2>3, <4>3, GotoTyped
    <3> QED
      BY Zenon, <3>2, <3>3
  <2> QED
    BY Zenon, <1>4, <1>13, <2>1, <2>2, <2>3 DEF GeneratePublish, Answer
<1> QED
  BY Zenon, <1>10, <1>11, <1>12, <1>13

\* The steps of NodeScanSBOMHandler.
LEMMA ScanHandles ==
    ASSUME TypeOK, Handlers, NEW k \in Nodes,
           ScanStart(k) \/ ScanMark(k) \/ ScanSBOM(k) \/ ScanComplete(k)
    PROVE  HandlerAt(k)' /\ \A l \in Nodes \ {k} : task'[l] = task[l] /\ local'[l] = local[l]
<1> USE DEF queueVars, historyVars
<1>1. task[k] # NoTask /\ task' = task /\ M(k).kind = "scan"
  BY Zenon DEF ScanStart, ScanMark, ScanSBOM, ScanComplete, Handling, At
<1>2. PICK u \in UIDs : u = M(k).uid
  BY Zenon, <1>1, TaskTyped
<1>3. PICK n \in Names : n = NameOf[u]
  BY NodeAssumption
<1>4. Job(k) = jobs[n]
  BY Zenon, <1>2, <1>3 DEF Job
<1>5. {"ack", "mark", "sbom", "complete", "fail"} \subseteq PCs
  BY DEF PCs
<1>6. ASSUME NEW pc \in PCs, Goto(k, pc)
      PROVE  /\ local'[k].pc = pc
             /\ \A l \in Nodes \ {k} : task'[l] = task[l] /\ local'[l] = local[l]
  BY Zenon, <1>1, <1>6, GotoTyped
<1> DEFINE Goal == /\ HandlerAt(k)'
                   /\ \A l \in Nodes \ {k} : task'[l] = task[l] /\ local'[l] = local[l]
<1>7. ASSUME NEW pc \in {"mark", "sbom", "fail"}, Goto(k, pc) PROVE Goal
  BY Zenon, <1>1, <1>2, <1>5, <1>6, <1>7, HandlerMoved
<1>8. ASSUME Goto(k, "ack"), Settled(u)' PROVE Goal
  BY Zenon, <1>1, <1>2, <1>5, <1>6, <1>8, HandlerMoved
<1>9. ASSUME Goto(k, "complete"), u \in scanned' PROVE Goal
  BY Zenon, <1>1, <1>2, <1>5, <1>6, <1>9, HandlerMoved
<1> SUFFICES Goal
  BY Zenon
<1> HIDE DEF Goal
<1>10. CASE ScanStart(k)
  <2>1. /\ jobs' = jobs
        /\ \/ Goto(k, "mark")
           \/ /\ Goto(k, "ack")
              /\ jobs[n] = NoJob \/ jobs[n].uid # u \/ JobFinished(jobs[n].status)
    BY Zenon, <1>2, <1>4, <1>10 DEF ScanStart
  <2>2. CASE Goto(k, "mark")
    BY <1>7, <2>2
  <2>3. CASE jobs[n] = NoJob \/ jobs[n].uid # u \/ JobFinished(jobs[n].status)
    <3>1. Settled(u)'
      BY Zenon, <1>3, <2>1, <2>3, SettledSo
    <3> QED
      BY <1>7, <1>8, <2>1, <3>1
  <2> QED
    BY <2>1, <2>2, <2>3
<1>11. CASE ScanMark(k)
  <2>1. (Goto(k, "ack") /\ jobs' = jobs /\ jobs[n] = NoJob) \/ Goto(k, "sbom")
    BY <1>4, <1>11 DEF ScanMark, Stop
  <2>2. (Goto(k, "ack") /\ Settled(u)') \/ Goto(k, "sbom")
    BY Zenon, <1>3, <2>1, SettledSo
  <2> QED
    BY <1>7, <1>8, <2>2
<1>12. CASE ScanSBOM(k)
  <2>1. \/ Goto(k, "complete") /\ u \in scanned'
        \/ Goto(k, "fail")
        \/ /\ Goto(k, "ack") /\ jobs' = jobs
           /\ jobs[n] = NoJob \/ jobs[n].uid \in disturbed'
    BY Zenon, <1>2, <1>4, <1>12 DEF ScanSBOM, Answer, Stop, Drop
  <2>2. \/ Goto(k, "complete") /\ u \in scanned'
        \/ Goto(k, "fail")
        \/ Goto(k, "ack") /\ Settled(u)'
    BY Zenon, <1>3, <2>1, SettledSo
  <2> QED
    BY <1>7, <1>8, <1>9, <2>2
<1>13. CASE ScanComplete(k)
  <2>1. /\ Goto(k, "ack") \/ Goto(k, "fail")
        /\ Finish(k, "Complete") /\ Handling(k, "scan", "complete")
        /\ UNCHANGED <<scanned, published, stream>>
    BY <1>13 DEF ScanComplete, Answer, MarkComplete
  <2>2. Settled(u)'
    BY <1>1, <1>2, <2>1, FinishSettles
  <2> QED
    BY <1>7, <1>8, <2>1, <2>2
<1> QED
  BY <1>10, <1>11, <1>12, <1>13

\* NatsSubscriber.Run around the handlers.
LEMMA SubscriberHandles ==
    ASSUME TypeOK, NEW k \in Nodes,
           \/ \E e \in Entries : Receive(k, e)
           \/ Acknowledge(k) \/ Crash(k) \/ HandlerError(k) \/ RetryLater(k)
           \/ GiveUp(k) \/ GiveUpSilently(k)
    PROVE  HandlerAt(k)' /\ \A l \in Nodes \ {k} : task'[l] = task[l] /\ local'[l] = local[l]
<1> USE DEF queueVars, historyVars
<1>1. task \in [Nodes -> Task \cup {NoTask}] /\ local \in [Nodes -> Local]
  BY Zenon DEF TypeOK, NodeClusterTypeOK, QueueTypeOK, NodeWorkerTypeOK
<1>2. {"ack", "fail"} \subseteq PCs
  BY DEF PCs
<1>3. ASSUME NEW e \in Entries, Receive(k, e)
      PROVE  HandlerAt(k)' /\ \A l \in Nodes \ {k} : task'[l] = task[l] /\ local'[l] = local[l]
  <2>1. \E t : task' = [task EXCEPT ![k] = t]
    BY Zenon, <1>3 DEF Receive, Deliver
  <2>2. /\ local'[k].pc = "start"
        /\ \A l \in Nodes \ {k} : task'[l] = task[l] /\ local'[l] = local[l]
    BY <1>1, <1>3, <2>1 DEF Receive, Idle
  <2> QED
    BY Zenon, <2>2 DEF HandlerAt, Handling, At
<1>4. CASE Acknowledge(k) \/ RetryLater(k) \/ Crash(k)
  <2>1. task' = [task EXCEPT ![k] = NoTask] /\ local' = [local EXCEPT ![k] = Idle]
    <3>1. CASE Acknowledge(k)
      BY <3>1 DEF Acknowledge, Ack
    <3>2. CASE RetryLater(k)
      BY <3>2 DEF RetryLater, Nak
    <3>3. CASE Crash(k)
      BY <3>3 DEF Crash, Abandon
    <3> QED
      BY <1>4, <3>1, <3>2, <3>3
  <2>2. task'[k] = NoTask /\ \A l \in Nodes \ {k} : task'[l] = task[l] /\ local'[l] = local[l]
    BY Zenon, <1>1, <2>1
  <2> QED
    BY Zenon, <2>2 DEF HandlerAt
<1>5. CASE HandlerError(k) \/ GiveUp(k) \/ GiveUpSilently(k)
  <2>1. task[k] # NoTask /\ task' = task
    BY Zenon, <1>5 DEF HandlerError, GiveUp, GiveUpSilently, At
  <2>2. PICK u \in UIDs : u = M(k).uid
    BY Zenon, <2>1, TaskTyped
  <2>3. Goto(k, "fail") \/ (Goto(k, "ack") /\ Settled(u)')
    <3>1. CASE HandlerError(k)
      BY <3>1, Zenon DEF HandlerError
    <3>2. CASE GiveUpSilently(k)
      <4>1. Goto(k, "ack") /\ u \in disturbed'
        BY Zenon, <2>2, <3>2 DEF GiveUpSilently
      <4> QED
        BY Zenon, <4>1, SettledSo
    <3>3. CASE GiveUp(k)
      <4>1. Goto(k, "ack") /\ Finish(k, "Failed") /\ UNCHANGED <<scanned, published, stream>>
        BY Zenon, <3>3 DEF GiveUp, MarkFailed
      <4> QED
        BY <2>1, <2>2, <4>1, FinishSettles
    <3> QED
      BY <1>5, <3>1, <3>2, <3>3
  <2>4. /\ local'[k].pc = "fail" \/ (local'[k].pc = "ack" /\ Settled(u)')
        /\ \A l \in Nodes \ {k} : task'[l] = task[l] /\ local'[l] = local[l]
    BY Zenon, <1>2, <2>1, <2>3, GotoTyped
  <2>5. HandlerAt(k)'
    BY Zenon, <2>1, <2>2, <2>4, HandlerMoved
  <2> QED
    BY Zenon, <2>4, <2>5
<1> QED
  BY Zenon, <1>3, <1>4, <1>5

\* A step of the workers moves a handler that goes on as it may, or none.
LEMMA HandlersMove ==
    ASSUME TypeOK, Identity, Behind, Causality, Published, Payload, Handlers, Worker,
           NEW l \in Nodes
    PROVE  HandlerAt(l)' \/ (task'[l] = task[l] /\ local'[l] = local[l])
<1>1. config' = config
  BY DEF Worker, configVars
<1>2. ASSUME NEW k \in Nodes, Subscribe(k) \/ Mishap(k)
      PROVE  HandlerAt(l)' \/ (task'[l] = task[l] /\ local'[l] = local[l])
  <2>1. HandlerAt(k)' /\ \A i \in Nodes \ {k} : task'[i] = task[i] /\ local'[i] = local[i]
    <3>1. CASE \/ GenerateStart(k) \/ GenerateMark(k) \/ GenerateSBOM(k) \/ GeneratePublish(k)
      BY Zenon, <1>1, <3>1, GenerateHandles
    <3>2. CASE ScanStart(k) \/ ScanMark(k) \/ ScanSBOM(k) \/ ScanComplete(k)
      BY Zenon, <3>2, ScanHandles
    <3>3. CASE \/ \E e \in Entries : Receive(k, e)
               \/ Acknowledge(k) \/ Crash(k) \/ HandlerError(k) \/ RetryLater(k)
               \/ GiveUp(k) \/ GiveUpSilently(k)
      BY Zenon, <3>3, SubscriberHandles
    <3> QED
      BY <1>2, <3>1, <3>2, <3>3, Zenon DEF Subscribe, Handle, Mishap
  <2>2. CASE l = k
    BY <2>1, <2>2
  <2>3. CASE l # k
    BY <2>1, <2>3
  <2> QED
    BY Zenon, <2>2, <2>3
<1>3. ASSUME NEW e \in Entries, AckWaitElapsed(e)
      PROVE  task'[l] = task[l] /\ local'[l] = local[l]
  BY <1>3 DEF AckWaitElapsed, Redeliver, queueVars
<1> QED
  BY <1>2, <1>3, Zenon DEF Worker

\* What the handlers rely on is kept.
LEMMA HandlersStep ==
    ASSUME TypeOK, Identity, Behind, Causality, Published, Held, Payload, Handlers,
           \/ Controlled /\ UNCHANGED <<task, local, scanned>>
           \/ WorkerOnly /\ Worker
    PROVE  Handlers'
<1>1. ASSUME NEW l \in Nodes PROVE HandlerAt(l)'
  <2>1. CASE Controlled /\ UNCHANGED <<task, local, scanned>>
    BY <2>1, HandlerKept
  <2>2. CASE WorkerOnly /\ Worker
    <3>1. scanned \subseteq scanned'
      BY Zenon, <2>2 DEF WorkerOnly, WorkerStep
    <3> QED
      BY <2>2, <3>1, HandlersMove, HandlerKept
  <2> QED
    BY <2>1, <2>2
<1> QED
  BY <1>1 DEF Handlers

-----------------------------------------------------------------------------
\* The payload of a scan message is kept, and a new one is right.
LEMMA PayloadStep ==
    ASSUME TypeOK, Identity, Held, Handlers, Payload, Controlled \/ WorkerOnly
    PROVE  Payload'
<1>1. disturbed \subseteq disturbed'
  BY Objects
<1>2. SUFFICES ASSUME NEW m \in NodeMessages, m.kind = "scan", published'[m] > 0
               PROVE  m.id = m.uid \/ m.id \in disturbed'
  BY DEF Payload
<1>3. ASSUME published[m] > 0 PROVE m.id = m.uid \/ m.id \in disturbed'
  BY <1>1, <1>2, <1>3 DEF Payload
<1>4. CASE Silent
  BY <1>2, <1>3, <1>4 DEF Silent
<1>5. ASSUME NEW n \in Names, Starts(n) PROVE published[m] > 0
  <2> DEFINE g == Message("generate", jobCache[n].uid, jobCache[n].uid)
  <2>1. PublishNode(g) /\ g \in NodeMessages /\ g.kind = "generate"
    BY Zenon, <1>5, MessageTyped DEF Starts
  <2> HIDE DEF g
  <2>2. \A k \in NodeMessages \ {g} : published'[k] = published[k]
    BY Zenon, <2>1, PublishEffect
  <2> QED
    BY <1>2, <2>1, <2>2
<1>6. ASSUME NEW k \in Nodes, Passes(k) PROVE m.id = m.uid \/ m.id \in disturbed'
  <2> DEFINE s == Message("scan", local[k].uid, M(k).uid)
  <2>1. /\ PublishNode(s) /\ s \in NodeMessages /\ local[k].uid \in UIDs /\ M(k).uid \in UIDs
        /\ task[k] # NoTask
    BY Zenon, <1>6, ScanMessage DEF Passes
  <2>2. s.id = local[k].uid /\ s.uid = M(k).uid
    BY DEF Message
  <2> HIDE DEF s
  <2>3. local[k].uid = M(k).uid \/ local[k].uid \in disturbed
    BY Zenon, <1>6, <2>1 DEF Passes, Handlers, HandlerAt
  <2>4. \A j \in NodeMessages \ {s} : published'[j] = published[j]
    BY Zenon, <2>1, PublishEffect
  <2>5. CASE m = s
    BY Zenon, <1>1, <2>2, <2>3, <2>5
  <2>6. CASE m # s
    BY <1>2, <1>3, <2>4, <2>6
  <2> QED
    BY <2>5, <2>6
<1> QED
  BY <1>3, <1>4, <1>5, <1>6, Publishes

\* What the controllers do takes nothing out of the stream.
LEMMA StreamKept ==
    ASSUME TypeOK, Held, Controlled, NEW e \in Entries, InStream(e)
    PROVE  InStream(e)'
<1>1. ASSUME Shrinks \/ (\E u \in UIDs : Born(u)) \/ Restarted PROVE stream' = stream
  BY Zenon, <1>1 DEF Shrinks, Born, Restarted
<1>2. ASSUME NEW n \in Names, Synced(n) \/ Updated(n) \/ Retried(n) PROVE stream' = stream
  BY <1>2 DEF Synced, Updated, Retried, Released
<1>3. ASSUME NEW n \in Names, Takes(n) PROVE InStream(e)'
  <2>1. jobCache[n] # NoJob
    BY Zenon, <1>3 DEF Takes, Held, HeldAt, Pending
  <2>2. jobCache[n].uid \in UIDs
    BY <2>1, ObjectsTyped, JobTyped
  <2> DEFINE g == Message("generate", jobCache[n].uid, jobCache[n].uid)
  <2>3. g \in NodeMessages
    BY Zenon, <2>2, MessageTyped
  <2>4. UNCHANGED queueVars \/ PublishNode(g)
    BY <1>3 DEF Takes, TakesCopy, TakesAnswer
  <2> HIDE DEF g
  <2>5. CASE UNCHANGED queueVars
    BY <2>5 DEF queueVars, InStream
  <2>6. CASE PublishNode(g)
    BY Zenon, <2>3, <2>6, PublishEffect
  <2> QED
    BY <2>4, <2>5, <2>6
<1>4. stream' = stream => InStream(e)'
  BY DEF InStream
<1> QED
  BY <1>1, <1>2, <1>3, <1>4, Zenon DEF Controlled

\* What the stream has of a job that was started and is not settled stays, or
\* its handler has published what comes next.
LEMMA EntryKept ==
    ASSUME TypeOK, Identity, Causality, Published, Held, Handlers, Controlled \/ WorkerOnly,
           NEW e \in Entries, InStream(e), NEW u \in UIDs, e[1].uid = u
    PROVE  InStream(e)' \/ Settled(u)' \/ (e[1].kind = "generate" /\ ScanPublished(u)')
<1>1. CASE Controlled
  BY <1>1, StreamKept
<1>2. CASE WorkerOnly
  <2>1. InStream(e)' \/ \E k \in Nodes : Acknowledge(k) /\ task[k].entry = e
    BY Zenon, <1>2, StreamStep DEF WorkerOnly
  <2>2. ASSUME NEW k \in Nodes, Acknowledge(k), task[k].entry = e
        PROVE  Settled(u)' \/ (e[1].kind = "generate" /\ ScanPublished(u)')
    <3>1. task[k] # NoTask /\ M(k) = e[1] /\ local[k].pc = "ack"
      BY Zenon, <2>2 DEF Acknowledge, At, M
    <3>2. e[1] \in NodeMessages
      BY DEF Entries
    <3>3. e[1].kind \in {"generate", "scan"}
      BY <3>2, MessageKinds
    <3>4. Settled(u) \/ (e[1].kind = "generate" /\ ScanPublished(u))
      BY Zenon, <3>1, <3>3 DEF Handlers, HandlerAt, Handling, At
    <3>5. Generated(u)
      BY Zenon, <3>2 DEF Causality
    <3> QED
      BY Zenon, <3>4, <3>5, SettledStays, PublishedGrows
  <2> QED
    BY Zenon, <2>1, <2>2
<1> QED
  BY Zenon, <1>1, <1>2

\* What was started goes on.
LEMMA PursuedStep ==
    ASSUME TypeOK, Identity, Causality, Published, Held, Handlers, Pursued,
           Controlled \/ WorkerOnly
    PROVE  Pursued'
<1> DEFINE Some(u) == \E e \in Entries : InStream(e) /\ e[1].uid = u
           Scan(u) == \E e \in Entries : InStream(e) /\ e[1].uid = u /\ e[1].kind = "scan"
<1>1. ASSUME NEW u \in UIDs, ScanPublished(u) PROVE Settled(u)' \/ Scan(u)'
  <2>1. Generated(u)
    BY <1>1 DEF Causality, ScanPublished
  <2>2. Settled(u) \/ Scan(u)
    BY Zenon, <1>1 DEF Pursued
  <2>3. CASE Settled(u)
    BY Zenon, <2>1, <2>3, SettledStays
  <2>4. CASE Scan(u)
    <3>1. PICK e \in Entries : InStream(e) /\ e[1].uid = u /\ e[1].kind = "scan"
      BY <2>4
    <3>2. InStream(e)' \/ Settled(u)'
      BY Zenon, <3>1, EntryKept
    <3> QED
      BY <3>1, <3>2
  <2> QED
    BY <2>2, <2>3, <2>4
<1>2. ASSUME NEW u \in UIDs, Generated(u) PROVE Settled(u)' \/ ScanPublished(u)' \/ Some(u)'
  <2>1. CASE Settled(u)
    BY <1>2, <2>1, SettledStays
  <2>2. CASE ScanPublished(u)
    BY Zenon, <2>2, PublishedGrows
  <2>3. CASE Some(u)
    <3>1. PICK e \in Entries : InStream(e) /\ e[1].uid = u
      BY <2>3
    <3>2. InStream(e)' \/ Settled(u)' \/ ScanPublished(u)'
      BY Zenon, <3>1, EntryKept
    <3> QED
      BY <3>1, <3>2
  <2> QED
    BY Zenon, <1>2, <2>1, <2>2, <2>3 DEF Pursued
<1>3. ASSUME NEW u \in UIDs, ~Generated(u), Generated(u)' PROVE Some(u)'
  <2>1. PICK n \in Names : Starts(n) /\ jobCache[n].uid = u
    BY Zenon, <1>3, PublishedGrows
  <2> DEFINE g == Message("generate", u, u)
  <2>2. PublishNode(g) /\ g \in NodeMessages /\ g.uid = u /\ g.kind = "generate" /\ g.id = u
    BY Zenon, <2>1, MessageTyped DEF Starts
  <2>3. published[g] = 0 \/ ~(published[g] > 0)
    BY <1>3 DEF Generated
  <2>4. published'[g] > 0
    BY <1>3 DEF Generated
  <2> HIDE DEF g
  <2>5. \E e \in Entries : e[1] = g /\ InStream(e)'
    <3>1. \/ UNCHANGED <<published, stream>>
          \/ \E e \in Entries : e[1] = g /\ InStream(e)'
      BY Zenon, <2>2, PublishEffect
    <3> QED
      BY <2>3, <2>4, <3>1
  <2> QED
    BY Zenon, <2>2, <2>5
<1>4. ASSUME NEW u \in UIDs, ~ScanPublished(u), ScanPublished(u)' PROVE Scan(u)'
  <2>1. PICK m \in NodeMessages : m.kind = "scan" /\ m.uid = u /\ published'[m] > 0
    BY <1>4 DEF ScanPublished
  <2>2. ~(published[m] > 0)
    BY <1>4, <2>1 DEF ScanPublished
  <2>3. ~Silent
    BY <2>1, <2>2 DEF Silent
  <2>4. ASSUME NEW n \in Names, Starts(n) PROVE FALSE
    <3> DEFINE g == Message("generate", jobCache[n].uid, jobCache[n].uid)
    <3>1. PublishNode(g) /\ g \in NodeMessages /\ g.kind = "generate"
      BY Zenon, <2>4, MessageTyped DEF Starts
    <3> HIDE DEF g
    <3>2. \A k \in NodeMessages \ {g} : published'[k] = published[k]
      BY Zenon, <3>1, PublishEffect
    <3> QED
      BY Zenon, <2>1, <2>2, <3>1, <3>2
  <2>5. PICK k \in Nodes : Passes(k)
    BY <2>3, <2>4, Publishes
  <2> DEFINE s == Message("scan", local[k].uid, M(k).uid)
  <2>6. PublishNode(s) /\ s \in NodeMessages
    BY Zenon, <2>5, ScanMessage DEF Passes
  <2> HIDE DEF s
  <2>7. /\ \A j \in NodeMessages \ {s} : published'[j] = published[j]
        /\ UNCHANGED published \/ \E e \in Entries : e[1] = s /\ InStream(e)'
    BY Zenon, <2>6, PublishEffect
  <2>8. m = s
    BY Zenon, <2>1, <2>2, <2>7
  <2>9. \E e \in Entries : e[1] = m /\ InStream(e)'
    BY Zenon, <2>1, <2>2, <2>7, <2>8
  <2> QED
    BY <2>1, <2>9
<1>5. ASSUME NEW u \in UIDs
      PROVE  /\ Generated(u)' => Settled(u)' \/ ScanPublished(u)' \/ Some(u)'
             /\ ScanPublished(u)' => Settled(u)' \/ Scan(u)'
  <2> HIDE DEF Some, Scan
  <2> QED
    BY <1>1, <1>2, <1>3, <1>4, Zenon
<1> QED
  BY Zenon, <1>5 DEF Pursued

-----------------------------------------------------------------------------
\* At the start there is no job, no message and no handler.
LEMMA InvInitially == ASSUME Init PROVE Inv
<1>1. /\ \A n \in Names : jobs[n] = NoJob /\ jobCache[n] = NoJob /\ rec[n] = NoRec
      /\ jobQueue = {} /\ disturbed = {} /\ \A u \in UIDs : counted[u] = 0
      /\ \A m \in NodeMessages : published[m] = 0
      /\ \A e \in Entries : stream[e].st = "absent"
      /\ \A k \in Nodes : task[k] = NoTask
  BY Zenon DEF Init, NodeClusterInit, NodeControllersInit, QueueInit
<1>2. config.uid = configs
  BY Zenon DEF Init, NodeClusterInit
<1>3. /\ \A u \in UIDs : ~Generated(u) /\ ~ScanPublished(u) /\ ~Live(u)
      /\ \A e \in Entries : ~InStream(e)
  <2>1. ASSUME NEW u \in UIDs PROVE ~Generated(u) /\ ~Live(u)
    <3>1. PICK g \in NodeMessages : g = Message("generate", u, u)
      BY Zenon, MessageTyped
    <3>2. ~(0 > 0)
      OBVIOUS
    <3>3. ~(published[g] > 0) /\ NameOf[u] \in Names
      BY Zenon, <1>1, <3>2, NodeAssumption
    <3> QED
      BY Zenon, <1>1, <3>1, <3>3 DEF Generated, Live
  <2>2. ASSUME NEW m \in NodeMessages PROVE ~(published[m] > 0)
    <3>1. published[m] = 0
      BY <1>1
    <3> QED
      BY <3>1
  <2> QED
    BY Zenon, <1>1, <2>1, <2>2 DEF ScanPublished, InStream
<1>4. Identity /\ Behind /\ Published /\ Reconciled
  BY Zenon, <1>1, <1>2, <1>3 DEF Identity, Behind, Published, Reconciled, ReconciledAt, Pending
<1>5. Held /\ Left
  BY Zenon, <1>1 DEF Held, HeldAt, Current, Left, LeftAt
<1>6. Causality /\ Handlers /\ Payload
  <2>1. ASSUME NEW m \in NodeMessages PROVE ~(published[m] > 0)
    <3>1. published[m] = 0
      BY <1>1
    <3> QED
      BY <3>1
  <2> QED
    BY Zenon, <1>1, <1>3, <2>1 DEF Causality, Handlers, HandlerAt, Payload
<1>7. Pursued /\ NodeJobCountedExactly /\ CompleteMeansReported
  BY Zenon, <1>3 DEF Pursued, NodeJobCountedExactly, CompleteMeansReported, Regular
<1> QED
  BY <1>4, <1>5, <1>6, <1>7 DEF Inv

\* Every step keeps the invariant.
LEMMA InvStep ==
    ASSUME TypeOK, Inv, [Next]_vars
    PROVE  TypeOK' /\ Inv'
<1> USE DEF Inv
<1>1. \A m \in jobQueue : jobCache[m] # NoJob
  <2>1. jobQueue \subseteq Names
    BY DEF TypeOK, NodeControllersTypeOK
  <2> QED
    BY Zenon, <2>1 DEF Held, HeldAt, Pending
<1>2. TypeOK' /\ (Controlled \/ WorkerOnly)
  BY <1>1, Steps
<1>3. Identity' /\ Behind'
  BY <1>2, IdentityStep, BehindStep
<1>4. Causality' /\ Published' /\ Held' /\ Left' /\ Reconciled'
  BY <1>2, CausalityStep, PublishedStep, HeldStep, LeftStep, ReconciledStep
<1>5. NodeJobCountedExactly' /\ CompleteMeansReported'
  BY <1>2, FinishedStep
<1>6. Payload' /\ Pursued'
  BY <1>2, PayloadStep, PursuedStep
<1>7. Handlers'
  <2>1. CASE Controlled
    <3>1. UNCHANGED <<task, local, scanned>>
      BY Zenon, <2>1 DEF Controlled, Shrinks, Born, Restarted, Synced, Takes, Updated, Retried,
                         Released
    <3> QED
      BY <2>1, <3>1, HandlersStep
  <2>2. CASE WorkerOnly
    <3>1. Worker
      BY <2>2 DEF WorkerOnly
    <3> QED
      BY <2>2, <3>1, HandlersStep
  <2> QED
    BY <1>2, <2>1, <2>2
<1> QED
  BY <1>2, <1>3, <1>4, <1>5, <1>6, <1>7

\* The invariant holds in every state of every execution, for any nodes, jobs,
\* configurations, faults and limits.
THEOREM NodeInvariance == Spec => [](TypeOK /\ Inv)
<1>1. Init => TypeOK /\ Inv
  BY TypeInit, InvInitially
<1>2. TypeOK /\ Inv /\ [Next]_vars => (TypeOK /\ Inv)'
  BY InvStep
<1> QED
  BY <1>1, <1>2, PTL DEF Spec

\* Every variable of the node scan keeps its type.
THEOREM NodeTypeCorrect == Spec => []TypeOK
BY NodeInvariance, PTL

\* A regular job is counted as finished once when it is, and not before.
THEOREM NodeCountedExactlyOnce == Spec => []NodeJobCountedExactly
<1>1. Inv => NodeJobCountedExactly
  BY DEF Inv
<1> QED
  BY <1>1, NodeInvariance, PTL

\* A regular job is complete only when its own UID labels a report.
THEOREM NodeCompleteIsReported == Spec => []CompleteMeansReported
<1>1. Inv => CompleteMeansReported
  BY DEF Inv
<1> QED
  BY <1>1, NodeInvariance, PTL

\* A job a message was published of carries the snapshot, and has an owner.
THEOREM NodeSnapshotFirst == Spec => []OwnedBeforeMessage
<1>1. ASSUME TypeOK, Inv PROVE OwnedBeforeMessage
  <2>1. SUFFICES ASSUME NEW m \in NodeMessages, published[m] > 0, Live(m.uid)
                 PROVE  jobs[NameOf[m.uid]].owner # 0
    BY DEF OwnedBeforeMessage
  <2>2. PICK u \in UIDs : u = m.uid
    BY MessageKinds
  <2>3. PICK n \in Names : n = NameOf[u]
    BY NodeAssumption
  <2>4. Generated(u)
    BY Zenon, <1>1, <2>1, <2>2 DEF Inv, Causality
  <2>5. jobCache[n] # NoJob /\ jobCache[n].uid = u /\ jobCache[n].owner # 0
    BY Zenon, <1>1, <2>1, <2>2, <2>3, <2>4 DEF Inv, Published
  <2>6. jobs[n] # NoJob /\ jobs[n].uid = u
    BY Zenon, <2>1, <2>2, <2>3 DEF Live
  <2>7. jobCache[n].owner <= jobs[n].owner
    BY Zenon, <1>1, <2>5, <2>6 DEF Inv, Behind, NotAhead
  <2>8. jobCache[n].owner \in Nat /\ jobs[n].owner \in Nat
    BY <1>1, <2>5, <2>6, ObjectsTyped, JobTyped, NodeAssumption
  <2> QED
    BY Zenon, <2>2, <2>3, <2>5, <2>7, <2>8, AboveZero
<1> QED
  BY <1>1, NodeInvariance, PTL

\* A regular job that is not finished has work left.
THEOREM NodeScansGoOn == Spec => []NoNodeJobLeftBehind
<1>1. ASSUME TypeOK, Inv PROVE NoNodeJobLeftBehind
  <2>1. SUFFICES ASSUME NEW u \in UIDs, Live(u), u \notin disturbed, ~JobFinished(StatusOf(u)),
                        ~OwnerGone(jobs[NameOf[u]].owner)
                 PROVE  WorkLeft(u)
    BY Zenon DEF NoNodeJobLeftBehind, Regular, WorkLeft
  <2>2. NameOf[u] \in Names /\ jobs[NameOf[u]] # NoJob /\ jobs[NameOf[u]].uid = u
    BY Zenon, <2>1, NodeAssumption DEF Live
  <2>3. CASE IsPending(StatusOf(u))
    <3>1. ReconciledAt(NameOf[u])
      BY Zenon, <1>1, <2>2 DEF Inv, Reconciled
    <3> QED
      BY Zenon, <2>2, <2>3, <3>1 DEF WorkLeft, ReconciledAt, Pending, StatusOf
  <2>4. CASE ~IsPending(StatusOf(u))
    <3>1. LeftAt(NameOf[u])
      BY Zenon, <1>1, <2>2 DEF Inv, Left
    <3>2. Generated(u)
      BY Zenon, <2>1, <2>2, <2>4, <3>1 DEF LeftAt, StatusOf
    <3>3. ~Settled(u)
      BY Zenon, <2>1 DEF Settled
    <3>4. \E e \in Entries : InStream(e) /\ e[1].uid = u
      BY Zenon, <1>1, <3>2, <3>3 DEF Inv, Pursued
    <3> QED
      BY Zenon, <2>4, <3>4 DEF WorkLeft
  <2> QED
    BY <2>3, <2>4
<1> QED
  BY <1>1, NodeInvariance, PTL
=============================================================================
