----------------------------- MODULE MCStorage -----------------------------
(* Instances of StorageServer for TLC. *)
EXTENDS StorageServer, TLC

CONSTANTS r1, k1, c1, c2, p1, i1

\* Nothing is stored yet; or a report and a workload that names its image are.
Empty == [k \in Keys |-> 0]
Populated == [k \in Keys |-> IF k \in Reports THEN 1 ELSE 2]

ClientSymmetry == Permutations(Clients)
=============================================================================
