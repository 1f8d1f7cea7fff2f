--------------------------- MODULE VersionedStore ---------------------------
(***************************************************************************)
(* What the object store promises of its contents: under every key at most *)
(* one object, created where there is none, replaced or deleted in one     *)
(* step; never two contents of the store under one version; and no object  *)
(* that was not created.                                                   *)
(***************************************************************************)
CONSTANTS
    Keys,       \* the keys
    Versions,   \* the versions
    Data,       \* what an object holds besides its identity and its version
    NoObject    \* nothing under a key

VARIABLES
    table,  \* table[k]: [uid, rv, val] or NoObject
    taken   \* the versions ever installed

\* An object is known by the version it was created with.
Objects == [uid : Versions, rv : Versions, val : Data]

Present == {k \in Keys : table[k] # NoObject}

\* The store starts with new objects that have different versions.
Init ==
    /\ table \in [Keys -> Objects \cup {NoObject}]
    /\ \A k \in Present : table[k].uid = table[k].rv
    /\ \A k, l \in Present : table[k].rv = table[l].rv => k = l
    /\ taken = {table[k].rv : k \in Present}

Install(k, o) ==
    /\ o.rv \notin taken
    /\ table' = [table EXCEPT ![k] = o]
    /\ taken' = taken \cup {o.rv}

Create(k, o) == table[k] = NoObject /\ o.uid = o.rv /\ Install(k, o)

Replace(k, o) == table[k] # NoObject /\ o.uid \in taken /\ Install(k, o)

Delete(k) ==
    /\ table[k] # NoObject
    /\ table' = [table EXCEPT ![k] = NoObject]
    /\ UNCHANGED taken

Next ==
    \E k \in Keys :
        \/ \E o \in Objects : Create(k, o) \/ Replace(k, o)
        \/ Delete(k)

Spec == Init /\ [][Next]_<<table, taken>>
=============================================================================
