--------------------------- MODULE MCRegistryScan ---------------------------
(* Instances of RegistryScan for TLC. *)
EXTENDS RegistryScanInvariant, TLC

CONSTANTS n1, n2, u1, u2, u3, i1, i2, w1, w2

\* One name, created once or created, deleted and created again.
OneName == [u \in UIDs |-> n1]

\* One name for two objects, and another name.
Reused == u1 :> n1 @@ u2 :> n1 @@ u3 :> n2

\* Either a name is used again or there are two names.
Separately ==
    u3 \in created => u2 \notin created /\ changes >= MaxChanges - 2

\* Workers are interchangeable, and so are images when no job targets some.
FullSymmetry == Permutations(Workers) \cup Permutations(Images)
=============================================================================
