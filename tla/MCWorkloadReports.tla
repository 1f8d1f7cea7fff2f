------------------------- MODULE MCWorkloadReports -------------------------
EXTENDS WorkloadReports, TLC

CONSTANTS p1, p2, d, s, i1

\* Both pods belong to Deployment d; the ReplicaSet s of the second may be
\* missing from the cache.
Rollout == p1 :> {d} @@ p2 :> {d, s}
=============================================================================
