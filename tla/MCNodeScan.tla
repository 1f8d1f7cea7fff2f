----------------------------- MODULE MCNodeScan -----------------------------
(* Instances of NodeScan for TLC.                                          *)
EXTENDS NodeScanInvariant

\* Users give one name twice; the runner creates the job with UID 3.
TwiceGiven == [u \in UIDs |-> IF u <= 2 THEN 0 ELSE u]

OneNode == [u \in UIDs |-> CHOOSE k \in Nodes : TRUE]

\* The name is given twice, the runner and users create a job each while
\* something fails, or a job of the runner meets two acts of users.
ThreeCourses ==
    {[uids |-> {1, 2}, acts |-> 3, faults |-> 0],
     [uids |-> {1, 3}, acts |-> 1, faults |-> 1],
     [uids |-> {3}, acts |-> 2, faults |-> 0]}
=============================================================================
