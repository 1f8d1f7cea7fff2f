--------------------------- MODULE StorageProofs ---------------------------
(***************************************************************************)
(* Proofs about the object store of the storage API server, for any number *)
(* of clients, replicas, watches and keys: a version names one object, the *)
(* store implements the abstract table of versioned objects, and informers *)
(* end up with what is stored.                                             *)
(*                                                                         *)
(* Every step either leaves the rows alone and moves one request on        *)
(* (Keeps), leaves the rows and the requests alone (Idles), or commits one *)
(* write (Commits).  That is shown once, action by action; the invariant   *)
(* and the refinement follow from the three forms.                         *)
(***************************************************************************)
EXTENDS StorageServer, Integers, TLAPS

\* Object x is stored under k.
RowHas(k, x) == row[k] # NoObject /\ x = row[k]

\* What the request of c may have become without a commit: a writer has just
\* drawn its version, and an object held is a row.
Moved(c) ==
    /\ req'[c] \in Requests
    /\ req'[c].step # "publish"
    /\ req'[c].step # "idle" => req'[c].obj \in Objects
    /\ req'[c].step \in {"insert", "write"} => seq' = seq + 1 /\ req'[c].obj.rv = seq'
    /\ req'[c].step = "insert" => req'[c].obj.uid = req'[c].obj.rv
    /\ req'[c].step \in {"held", "version", "write"} => req'[c].obj.uid \in taken
    /\ req'[c].step = "held" => RowHas(req'[c].key, req'[c].obj)

\* The request of d is the same but for its history.
Same(d) ==
    /\ req'[d] \in Requests
    /\ req'[d].step = req[d].step /\ req'[d].key = req[d].key
    /\ req'[d].obj = req[d].obj /\ req'[d].type = req[d].type

Draws == seq' \in 0..MaxVersion /\ (seq' = seq \/ seq' = seq + 1)

Keeps(c) ==
    /\ row' = row /\ taken' = taken /\ Draws
    /\ DOMAIN req' = Clients /\ req' = [d \in Clients |-> req'[d]]
    /\ \A d \in Clients \ {c} : Same(d)
    /\ Moved(c)

Idles == row' = row /\ taken' = taken /\ req' = req /\ Draws

Commits(c, k, type, o) ==
    /\ k \in Keys /\ o \in Objects /\ seq' = seq
    /\ Commit(c, k, type, o)
    /\ \/ type = "Deleted" /\ row[k] # NoObject /\ o = row[k]
       \/ type = "Added" /\ row[k] = NoObject /\ At(c, "insert") /\ o = req[c].obj
       \/ type = "Modified" /\ row[k] # NoObject /\ At(c, "write") /\ o = req[c].obj

-----------------------------------------------------------------------------
LEMMA IdleIs == Idle \in Requests /\ Idle.step = "idle" /\ Idle.obj = NoObject
<1>1. (CHOOSE k \in Keys : TRUE) \in Keys
  BY StoreAssumption, Zenon
<1>2. QED
  BY <1>1, StoreAssumption DEF Idle, Requests, Steps, Types

\* A step that leaves rows and requests alone keeps the invariant.
LEMMA IdlesKeepsInv == ASSUME VersionInv, Idles PROVE VersionInv'
<1>1. seq \in Int /\ seq' \in Int /\ seq <= seq'
  BY StoreAssumption DEF VersionInv, StoreTypeOK, Idles, Draws
<1>2. StoreTypeOK'
  BY DEF VersionInv, StoreTypeOK, Idles, Draws
<1>3. \A n \in taken' : n <= seq'
  BY <1>1 DEF VersionInv, StoreTypeOK, Idles
<1>4. RowsOK' /\ AnnouncedOK'
  BY DEF VersionInv, RowsOK, AnnouncedOK, Announces, At, Idles
<1>5. WritersOK'
  <2>1. \A c \in Clients : Writes(c) => req[c].obj.rv \in Int
    BY DEF VersionInv, WritersOK, Writes, At, Objects
  <2>2. \A c \in Clients : Writes(c) => req[c].obj.rv <= seq'
    BY <1>1, <2>1 DEF VersionInv, WritersOK
  <2>3. QED
    BY <2>2 DEF VersionInv, WritersOK, Writes, At, Idles
<1>6. QED
  BY <1>2, <1>3, <1>4, <1>5 DEF VersionInv

\* A request that moves on without a commit keeps the invariant.
LEMMA KeepsKeepsInv ==
    ASSUME VersionInv, NEW c \in Clients, Keeps(c) PROVE VersionInv'
<1>1. seq \in Int /\ seq' \in Int /\ seq <= seq'
  BY StoreAssumption DEF VersionInv, StoreTypeOK, Keeps, Draws
<1>2. \A d \in Clients : d # c => Same(d)
  BY DEF Keeps
<1>3. Moved(c) /\ row' = row /\ taken' = taken
  BY DEF Keeps
<1>4. StoreTypeOK'
  <2>1. \A d \in Clients : req'[d] \in Requests
    BY <1>2, <1>3 DEF Same, Moved
  <2>2. req' \in [Clients -> Requests]
    BY <2>1 DEF Keeps
  <2>3. QED
    BY <2>2, <1>3 DEF VersionInv, StoreTypeOK, Keeps, Draws
<1>5. \A n \in taken' : n <= seq'
  BY <1>1, <1>3 DEF VersionInv, StoreTypeOK
<1>6. RowsOK'
  BY <1>3 DEF VersionInv, RowsOK
<1>7. WritersOK'
  <2>1. \A d \in Clients : ~At(d, "idle")' => req'[d].obj \in Objects
    BY <1>2, <1>3 DEF VersionInv, WritersOK, At, Same, Moved
  <2>2. \A d \in Clients : Writes(d) => req[d].obj.rv \in Int /\ req[d].obj.rv <= seq
    BY DEF VersionInv, WritersOK, Writes, At, Objects
  <2>3. \A d \in Clients : Writes(d)' => req'[d].obj.rv <= seq' /\ req'[d].obj.rv \notin taken'
    <3>1. Writes(c)' => req'[c].obj.rv = seq' /\ seq' = seq + 1
      BY <1>3 DEF Moved, Writes, At
    <3>2. seq + 1 \notin taken
      BY <1>1 DEF VersionInv, StoreTypeOK
    <3>3. \A d \in Clients : d # c /\ Writes(d)' => Writes(d) /\ req'[d].obj.rv = req[d].obj.rv
      BY <1>2 DEF Same, Writes, At
    <3>4. \A d \in Clients : Writes(d) => req[d].obj.rv \notin taken
      BY DEF VersionInv, WritersOK
    <3>5. QED
      BY <1>1, <1>3, <2>2, <3>1, <3>2, <3>3, <3>4
  <2>4. \A d, e \in Clients : Writes(d)' /\ Writes(e)' /\ req'[d].obj.rv = req'[e].obj.rv => d = e
    <3>1. Writes(c)' => req'[c].obj.rv = seq + 1
      BY <1>3 DEF Moved, Writes, At
    <3>2. \A d \in Clients : d # c /\ Writes(d)' => Writes(d) /\ req'[d].obj.rv = req[d].obj.rv
      BY <1>2 DEF Same, Writes, At
    <3>3. \A d \in Clients : d # c /\ Writes(d)' => req'[d].obj.rv # seq + 1
      BY <2>2, <3>2, <1>1
    <3>4. \A d, e \in Clients : Writes(d) /\ Writes(e) /\ req[d].obj.rv = req[e].obj.rv => d = e
      BY DEF VersionInv, WritersOK
    <3>5. QED
      BY <3>1, <3>2, <3>3, <3>4, ZenonT(60)
  <2>5. \A d \in Clients : At(d, "insert")' => req'[d].obj.uid = req'[d].obj.rv
    BY <1>2, <1>3 DEF VersionInv, WritersOK, At, Same, Moved
  <2>6. \A d \in Clients : req'[d].step \in {"held", "version", "write"} => req'[d].obj.uid \in taken'
    BY <1>2, <1>3 DEF VersionInv, WritersOK, Same, Moved
  <2>7. QED
    BY <2>1, <2>3, <2>4, <2>5, <2>6 DEF WritersOK
<1>8. AnnouncedOK'
  <2>1. \A d \in Clients : Announces(d)' => Announces(d) /\ req'[d].obj = req[d].obj /\ req'[d].key = req[d].key
    BY <1>2, <1>3 DEF Announces, At, Same, Moved
  <2>2. AnnouncedOK
    BY DEF VersionInv
  <2>3. QED
    BY <2>1, <2>2, <1>3 DEF AnnouncedOK
<1>9. QED
  BY <1>4, <1>5, <1>6, <1>7, <1>8 DEF VersionInv

\* What a commit does to the request that commits.
LEMMA CommitEffect ==
    ASSUME VersionInv, NEW c \in Clients, NEW k, NEW type, NEW o,
           Commits(c, k, type, o)
    PROVE  /\ type \in Types /\ k \in Keys /\ o \in Objects
           /\ req' \in [Clients -> Requests]
           /\ \A d \in Clients : d # c => req'[d] = req[d]
           /\ req'[c].step = "publish" /\ req'[c].key = k
           /\ req'[c].obj = o /\ req'[c].type = type
<1>1. type \in Types /\ k \in Keys /\ o \in Objects
  BY DEF Commits, Types
<1>2. req \in [Clients -> Requests]
  BY DEF VersionInv, StoreTypeOK
<1> DEFINE r == [step |-> "publish", key |-> k, obj |-> o, base |-> 0,
                 type |-> type, late |-> FALSE,
                 before |-> {d \in Clients \ {c} : At(d, "publish")}]
<1>3. req' = [req EXCEPT ![c] = r]
  BY DEF Commits, Commit
<1>4. r \in Requests
  BY <1>1, StoreAssumption DEF Requests, Steps
<1>5. r.step = "publish" /\ r.key = k /\ r.obj = o /\ r.type = type
  OBVIOUS
<1> HIDE DEF r
<1>6. QED
  BY <1>1, <1>2, <1>3, <1>4, <1>5

\* A commit keeps the invariant: the version it installs was drawn for it.
LEMMA CommitsKeepsInv ==
    ASSUME VersionInv, NEW c \in Clients, NEW k, NEW type, NEW o,
           Commits(c, k, type, o)
    PROVE  VersionInv'
<1>1. /\ type \in Types /\ k \in Keys /\ o \in Objects
      /\ req' \in [Clients -> Requests]
      /\ \A d \in Clients : d # c => req'[d] = req[d]
      /\ req'[c].step = "publish" /\ req'[c].key = k
      /\ req'[c].obj = o /\ req'[c].type = type
  BY CommitEffect
<1>2. /\ row \in [Keys -> Objects \cup {NoObject}]
      /\ taken \in SUBSET (1..MaxVersion) /\ seq \in 0..MaxVersion /\ seq' = seq
      /\ NoObject \notin Objects
  BY StoreAssumption DEF VersionInv, StoreTypeOK, Commits
<1>3. o.rv \in 1..MaxVersion /\ o.uid \in 1..MaxVersion
  BY <1>1 DEF Objects
<1>4. /\ row' = [row EXCEPT ![k] = IF type = "Deleted" THEN NoObject ELSE o]
      /\ taken' = IF type = "Deleted" THEN taken ELSE taken \cup {o.rv}
  BY DEF Commits, Commit
<1>5. StoreTypeOK'
  BY <1>1, <1>2, <1>3, <1>4 DEF StoreTypeOK
<1>6. type # "Deleted" => /\ Writes(c) /\ o = req[c].obj
                          /\ o.rv <= seq /\ o.rv \notin taken
                          /\ o.uid \in taken \cup {o.rv}
  BY DEF Commits, VersionInv, WritersOK, Writes, At
<1>7. \A n \in taken' : n <= seq'
  BY Zenon, <1>2, <1>4, <1>6 DEF VersionInv
<1>8. \A l \in Keys : row'[l] # NoObject =>
         (l # k /\ row'[l] = row[l]) \/ (l = k /\ row'[l] = o /\ type # "Deleted")
  BY <1>1, <1>2, <1>4
<1>9. RowsOK'
  BY <1>1, <1>2, <1>4, <1>6, <1>8 DEF VersionInv, RowsOK
<1>10. WritersOK'
  <2>1. \A d \in Clients : Writes(d)' => d # c /\ Writes(d) /\ req'[d].obj.rv = req[d].obj.rv
    BY <1>1 DEF Writes, At
  <2>2. \A d, e \in Clients : Writes(d) /\ Writes(e) /\ req[d].obj.rv = req[e].obj.rv => d = e
    BY DEF VersionInv, WritersOK
  <2>3. \A d \in Clients : Writes(d) => req[d].obj.rv <= seq /\ req[d].obj.rv \notin taken
    BY DEF VersionInv, WritersOK
  <2>4. \A d \in Clients : Writes(d)' => req'[d].obj.rv <= seq' /\ req'[d].obj.rv \notin taken'
    BY <1>2, <1>4, <1>6, <2>1, <2>2, <2>3
  <2>5. \A d, e \in Clients : Writes(d)' /\ Writes(e)' /\ req'[d].obj.rv = req'[e].obj.rv => d = e
    BY <2>1, <2>2, ZenonT(60)
  <2>6. \A d \in Clients : ~At(d, "idle")' => req'[d].obj \in Objects
    BY <1>1 DEF VersionInv, WritersOK, At
  <2>7. \A d \in Clients : At(d, "insert")' => req'[d].obj.uid = req'[d].obj.rv
    BY <1>1 DEF VersionInv, WritersOK, At
  <2>8. \A d \in Clients : req'[d].step \in {"held", "version", "write"} => req'[d].obj.uid \in taken'
    BY <1>1, <1>4 DEF VersionInv, WritersOK
  <2>9. QED
    BY <2>4, <2>5, <2>6, <2>7, <2>8 DEF WritersOK
<1>11. AnnouncedOK'
  <2>1. \A d \in Clients : Announces(d)' => \/ d # c /\ Announces(d) /\ req'[d] = req[d]
                                            \/ d = c /\ type # "Deleted"
    BY <1>1 DEF Announces, At
  <2>2. AnnouncedOK
    BY DEF VersionInv
  <2>3. \A d \in Clients : Announces(d)' => req'[d].obj.rv \in taken'
    BY <1>1, <1>4, <2>1, <2>2 DEF AnnouncedOK
  <2>4. ASSUME NEW d \in Clients, NEW l \in Keys, Announces(d)', row'[l] # NoObject,
               row'[l].rv = req'[d].obj.rv
        PROVE  l = req'[d].key /\ row'[l] = req'[d].obj
    <3>1. CASE d = c
      BY <1>1, <1>6, <1>8, <2>1, <2>4, <3>1 DEF VersionInv, RowsOK
    <3>2. CASE d # c
      BY <1>1, <1>6, <1>8, <2>1, <2>2, <2>4, <3>2 DEF AnnouncedOK
    <3>3. QED
      BY <3>1, <3>2
  <2>5. ASSUME NEW d \in Clients, NEW e \in Clients, Announces(d)', Announces(e)',
               req'[d].obj.rv = req'[e].obj.rv
        PROVE  d = e
    <3>1. \A f \in Clients : Announces(f)' /\ f # c => req'[f].obj.rv \in taken
      BY <2>1, <2>2 DEF AnnouncedOK
    <3>2. Announces(c)' => req'[c].obj.rv \notin taken
      BY <1>1, <1>6, <2>1
    <3>3. d # c /\ e # c => d = e
      BY <2>1, <2>2, <2>5 DEF AnnouncedOK
    <3>4. QED
      BY <2>5, <3>1, <3>2, <3>3
  <2>6. QED
    BY <2>3, <2>4, <2>5 DEF AnnouncedOK
<1>12. QED
  BY <1>5, <1>7, <1>9, <1>10, <1>11 DEF VersionInv

-----------------------------------------------------------------------------
\* A request that is given the record r, the others being left alone.
LEMMA KeepsBy ==
    ASSUME VersionInv, NEW c \in Clients, NEW r \in Requests,
           req' = [req EXCEPT ![c] = r], row' = row, taken' = taken, Draws,
           r.step # "publish",
           r.step # "idle" => r.obj \in Objects,
           r.step \in {"insert", "write"} => seq' = seq + 1 /\ r.obj.rv = seq',
           r.step = "insert" => r.obj.uid = r.obj.rv,
           r.step \in {"held", "version", "write"} => r.obj.uid \in taken,
           r.step = "held" => RowHas(r.key, r.obj)
    PROVE  Keeps(c)
<1>1. req \in [Clients -> Requests]
  BY DEF VersionInv, StoreTypeOK
<1>2. req'[c] = r /\ \A d \in Clients \ {c} : req'[d] = req[d]
  BY <1>1
<1>3. DOMAIN req' = Clients /\ req' = [d \in Clients |-> req'[d]]
  BY Zenon, <1>1
<1>4. \A d \in Clients \ {c} : Same(d)
  BY <1>1, <1>2 DEF Same
<1>5. Moved(c)
  BY <1>2 DEF Moved
<1>6. QED
  BY <1>3, <1>4, <1>5 DEF Keeps

\* A request that ends without a commit.
LEMMA EndsKeeps ==
    ASSUME VersionInv, NEW c \in Clients, Ends(c), UNCHANGED <<seq, row, taken>>
    PROVE  Keeps(c)
<1>1. Draws
  BY DEF Draws, VersionInv, StoreTypeOK
<1>2. QED
  BY Zenon, <1>1, IdleIs, KeepsBy DEF Ends

\* Every step of a client's request has one of the forms.
LEMMA StoreForms ==
    ASSUME VersionInv, NEW c \in Clients, StoreNext(c)
    PROVE  Keeps(c) \/ \E k, type, o : Commits(c, k, type, o)
<1> USE StoreAssumption
<1>1. /\ req \in [Clients -> Requests] /\ req[c] \in Requests /\ req[c].key \in Keys
      /\ row \in [Keys -> Objects \cup {NoObject}]
      /\ seq \in 0..MaxVersion
  BY DEF VersionInv, StoreTypeOK, Requests
<1>2. \A k \in Keys : row[k] # NoObject => /\ row[k] \in Objects
                                           /\ row[k].uid \in taken /\ row[k].rv \in 0..MaxVersion
  BY <1>1 DEF VersionInv, RowsOK, Objects
<1>3. req[c].step # "idle" => req[c].obj \in Objects
  BY DEF VersionInv, WritersOK, At
<1>4. req[c].step \in {"held", "version", "write"} => req[c].obj.uid \in taken
  BY DEF VersionInv, WritersOK
<1>5. \A k : Contents(k) \subseteq SUBSET Reports
  BY DEF Contents
<1>6. nextResourceVersion => Draws /\ seq' = seq + 1 /\ seq + 1 \in 1..MaxVersion
  BY <1>1 DEF nextResourceVersion, Draws
<1>7. UNCHANGED seq => Draws
  BY <1>1 DEF Draws
<1>10. ASSUME NEW k \in Keys, Get(c, k) PROVE Keeps(c)
  <2> DEFINE r == [Idle EXCEPT !.step = "held", !.key = k, !.obj = row[k]]
  <2>1. r \in Requests /\ r.step = "held" /\ r.key = k /\ r.obj = row[k]
    BY Zenon, <1>1, <1>2, <1>10, IdleIs DEF Requests, Steps
  <2>2. req' = [req EXCEPT ![c] = r] /\ UNCHANGED <<seq, row, taken>> /\ row[k] # NoObject
    BY <1>10 DEF Get
  <2> HIDE DEF r
  <2>3. RowHas(r.key, r.obj)
    BY Zenon, <2>1, <2>2 DEF RowHas
  <2>4. QED
    BY Zenon, <1>2, <1>7, <2>1, <2>2, <2>3, KeepsBy
<1>11. ASSUME NEW k \in Keys, Delete(c, k) PROVE Commits(c, k, "Deleted", row[k])
  BY <1>2, <1>11 DEF Delete, Commits, At
<1>12. ASSUME NEW k \in Keys, NEW v \in Contents(k), CreateVersion(c, k, v) PROVE Keeps(c)
  <2> DEFINE o == [uid |-> seq + 1, rv |-> seq + 1, val |-> v]
  <2> DEFINE r == [Idle EXCEPT !.step = "insert", !.key = k, !.obj = o]
  <2>1. o \in Objects /\ o.uid = seq + 1 /\ o.rv = seq + 1
    BY <1>5, <1>6, <1>12 DEF CreateVersion, Objects
  <2>2. r \in Requests /\ r.step = "insert" /\ r.obj = o
    <3> HIDE DEF o
    <3>1. QED
      BY Zenon, <2>1, IdleIs DEF Requests, Steps
  <2>3. req' = [req EXCEPT ![c] = r] /\ UNCHANGED <<row, taken>> /\ nextResourceVersion
    BY <1>12 DEF CreateVersion
  <2> HIDE DEF o, r
  <2>4. QED
    BY Zenon, <1>6, <2>1, <2>2, <2>3, KeepsBy
<1>13. ASSUME NEW k \in Keys, NEW o \in Objects, ReadForUpdate(c, k, o), o.uid \in taken,
              row[k] # NoObject, UNCHANGED <<seq, row, taken>>
       PROVE  Keeps(c)
  <2> DEFINE r == [Idle EXCEPT !.step = "version", !.key = k, !.obj = o, !.base = row[k].rv]
  <2>1. r \in Requests /\ r.step = "version" /\ r.obj = o
    BY Zenon, <1>2, <1>13, IdleIs DEF Requests, Steps
  <2>2. req' = [req EXCEPT ![c] = r]
    BY <1>13 DEF ReadForUpdate
  <2> HIDE DEF r
  <2>3. QED
    BY Zenon, <1>7, <1>13, <2>1, <2>2, KeepsBy
<1>14. ASSUME NEW o \in Objects, NEW k, NEW v \in Contents(k)
       PROVE  [o EXCEPT !.val = v] \in Objects /\ [o EXCEPT !.val = v].uid = o.uid
  BY <1>5 DEF Objects
<1>15. ASSUME NEW k \in Keys, NEW v \in Contents(k), PatchRead(c, k, v) PROVE Keeps(c)
  BY Zenon, <1>2, <1>13, <1>14, <1>15 DEF PatchRead
<1>16. ASSUME NEW v \in Contents(req[c].key), PutRead(c, v) PROVE Keeps(c)
  <2>1. req[c].obj \in Objects /\ req[c].obj.uid \in taken
    BY <1>3, <1>4, <1>16 DEF PutRead, At
  <2>2. [req[c].obj EXCEPT !.val = v] \in Objects /\ [req[c].obj EXCEPT !.val = v].uid \in taken
    BY <1>14, <2>1
  <2>3. UNCHANGED <<seq, row, taken>>
    BY <1>16 DEF PutRead
  <2>4. CASE Ends(c)
    BY <2>3, <2>4, EndsKeeps
  <2>5. CASE row[req[c].key] # NoObject
             /\ ReadForUpdate(c, req[c].key, [req[c].obj EXCEPT !.val = v])
    BY Zenon, <1>1, <1>13, <2>2, <2>3, <2>5
  <2>6. QED
    BY <1>16, <2>4, <2>5 DEF PutRead
<1>17. ASSUME Insert(c)
       PROVE  Keeps(c) \/ Commits(c, req[c].key, "Added", req[c].obj)
  BY <1>1, <1>3, <1>17, EndsKeeps DEF Insert, Commits, At
<1>18. ASSUME UpdateVersion(c) PROVE Keeps(c)
  <2> DEFINE o == [req[c].obj EXCEPT !.rv = seq + 1]
  <2> DEFINE r == [req[c] EXCEPT !.step = "write", !.obj = o]
  <2>1. req[c].obj \in Objects /\ req[c].obj.uid \in taken
    BY <1>3, <1>4, <1>18 DEF UpdateVersion, At
  <2>2. o \in Objects /\ o.uid \in taken /\ o.rv = seq + 1
    BY <1>6, <1>18, <2>1 DEF UpdateVersion, Objects
  <2>3. r \in Requests /\ r.step = "write" /\ r.obj = o
    <3> HIDE DEF o
    <3>1. QED
      BY Zenon, <1>1, <2>2 DEF Requests, Steps
  <2>4. req' = [req EXCEPT ![c] = r] /\ UNCHANGED <<row, taken>> /\ nextResourceVersion
    BY Zenon, <1>1, <1>18 DEF UpdateVersion, Requests
  <2> HIDE DEF o, r
  <2>5. QED
    BY Zenon, <1>6, <2>2, <2>3, <2>4, KeepsBy
<1>19. ASSUME Update(c)
       PROVE  Keeps(c) \/ Commits(c, req[c].key, "Modified", req[c].obj)
  BY <1>1, <1>3, <1>19, EndsKeeps DEF Update, Commits, At
<1>20. ASSUME DeleteHeld(c)
       PROVE  Keeps(c) \/ Commits(c, req[c].key, "Deleted", row[req[c].key])
  BY <1>1, <1>2, <1>20, EndsKeeps DEF DeleteHeld, Commits
<1>21. ASSUME Abort(c) PROVE Keeps(c)
  BY <1>21, EndsKeeps DEF Abort
<1>22. QED
  BY <1>10, <1>11, <1>12, <1>15, <1>16, <1>17, <1>18, <1>19, <1>20, <1>21 DEF StoreNext

\* Publishing ends the request and rewrites only the history of the others.
LEMMA DoneKeeps ==
    ASSUME VersionInv, NEW c \in Clients, At(c, "publish"), Done(c),
           UNCHANGED <<seq, row, taken>>
    PROVE  Keeps(c)
<1>1. req \in [Clients -> Requests] /\ Draws
  BY DEF VersionInv, StoreTypeOK, Draws
<1>2. PICK late \in [Clients -> BOOLEAN] :
         req' = [d \in Clients |-> IF d = c THEN Idle
                    ELSE [req[d] EXCEPT !.late = late[d], !.before = @ \ {c}]]
  <2> DEFINE Parts(o, type) == "Deleted" \in {type, req[c].type} \/ o.uid # req[c].obj.uid
  <2> DEFINE Late(d) == /\ At(d, "publish") /\ req[d].key = req[c].key
                        /\ d \in req[c].before /\ Parts(req[d].obj, req[d].type)
  <2> DEFINE l == [d \in Clients |-> req[d].late \/ Late(d)]
  <2>1. l \in [Clients -> BOOLEAN]
    <3>1. \A d \in Clients : (req[d].late \/ Late(d)) \in BOOLEAN
      BY Zenon
    <3>2. QED
      BY <3>1, Zenon
  <2>2. req' = [d \in Clients |-> IF d = c THEN Idle
                  ELSE [req[d] EXCEPT !.late = req[d].late \/ Late(d), !.before = @ \ {c}]]
    BY <1>1, Zenon DEF Done
  <2>3. \A d \in Clients : l[d] = (req[d].late \/ Late(d))
    BY Zenon
  <2> HIDE DEF l, Late
  <2>4. req' = [d \in Clients |-> IF d = c THEN Idle
                  ELSE [req[d] EXCEPT !.late = l[d], !.before = @ \ {c}]]
    BY <2>2, <2>3, Zenon
  <2>5. QED
    BY Zenon, <2>1, <2>4
<1>3. DOMAIN req' = Clients /\ req' = [d \in Clients |-> req'[d]]
  BY Zenon, <1>2
<1>4. \A d \in Clients \ {c} : req'[d] = [req[d] EXCEPT !.late = late[d], !.before = @ \ {c}]
  BY Zenon, <1>2
<1>5. ASSUME NEW d \in Clients \ {c} PROVE Same(d)
  <2>1. req[d] \in Requests /\ late[d] \in BOOLEAN
    BY Zenon, <1>1, <1>2
  <2> DEFINE r == [req[d] EXCEPT !.before = @ \ {c}]
  <2>2. /\ r \in Requests
        /\ r.step = req[d].step /\ r.key = req[d].key
        /\ r.obj = req[d].obj /\ r.type = req[d].type
    BY <2>1 DEF Requests
  <2>3. req'[d] = [r EXCEPT !.late = late[d]]
    BY Zenon, <1>4, <2>1 DEF Requests
  <2> HIDE DEF r
  <2>4. /\ req'[d] \in Requests
        /\ req'[d].step = r.step /\ req'[d].key = r.key
        /\ req'[d].obj = r.obj /\ req'[d].type = r.type
    BY <2>1, <2>2, <2>3 DEF Requests
  <2>5. QED
    BY <2>2, <2>4 DEF Same
<1>6. Moved(c)
  BY Zenon, <1>2, IdleIs DEF Moved
<1>7. QED
  BY <1>1, <1>3, <1>5, <1>6 DEF Keeps

\* Every step of the server has one of the forms.
LEMMA StepForms ==
    ASSUME VersionInv, [Next]_vars
    PROVE  \/ Idles
           \/ \E c \in Clients : Keeps(c)
           \/ \E c \in Clients : \E k, type, o : Commits(c, k, type, o)
<1>1. UNCHANGED <<seq, row, taken, req>> => Idles
  BY DEF Idles, Draws, VersionInv, StoreTypeOK
<1>2. CASE UNCHANGED vars
  BY <1>1, <1>2 DEF vars, storeVars
<1>3. ASSUME NEW c \in Clients, StoreNext(c)
      PROVE  Keeps(c) \/ \E k, type, o : Commits(c, k, type, o)
  BY <1>3, StoreForms
<1>4. ASSUME NEW c \in Clients, Publish(c) \/ PublishLost(c) PROVE Keeps(c)
  <2>1. At(c, "publish") /\ Done(c) /\ UNCHANGED <<seq, row, taken>>
    BY <1>4 DEF Publish, PublishLost
  <2>2. QED
    BY <2>1, DoneKeeps
<1>5. ASSUME NEW p \in Replicas,
             \/ ProcessMessage(p) \/ Broadcast(p) \/ MessageLost(p)
             \/ FindAffected(p) \/ PublishAffected(p) \/ ReportMessageLost(p)
      PROVE  Idles
  BY Zenon, <1>1, <1>5 DEF ProcessMessage, Broadcast, MessageLost, FindAffected,
                    PublishAffected, ReportMessageLost
<1>6. ASSUME NEW i \in Informers,
             \/ List(i) \/ WatchFrom(i) \/ WatchList(i) \/ WatchWithPrefix(i)
             \/ Rewatch(i) \/ StopWatch(i)
      PROVE  Idles
  BY Zenon, <1>1, <1>6 DEF List, WatchFrom, WatchList, WatchWithPrefix, Rewatch, StopWatch
<1>7. ASSUME NEW i \in Informers, ListVersion(i) PROVE Idles
  BY <1>7, StoreAssumption DEF ListVersion, nextResourceVersion, Idles, Draws,
                               VersionInv, StoreTypeOK
<1>8. QED
  BY <1>2, <1>3, <1>4, <1>5, <1>6, <1>7 DEF Next, WatchNext

-----------------------------------------------------------------------------
\* The store starts with distinct versions and no request.
LEMMA InitInv == Init => VersionInv
<1> SUFFICES ASSUME Init PROVE VersionInv
  OBVIOUS
<1> USE StoreAssumption
<1>1. /\ seq \in 0..MaxVersion /\ \A k \in Keys : Existing[k] <= seq
      /\ taken = {Existing[k] : k \in Keys} \ {0}
  BY DEF Init, StoreInit
<1>2. req \in [Clients -> Requests] /\ \A c \in Clients : req[c].step = "idle"
  BY IdleIs DEF Init, StoreInit
<1>3. \A k \in Keys : row[k] # NoObject =>
         /\ row[k] \in Objects /\ row[k].rv = Existing[k] /\ row[k].uid = Existing[k]
         /\ Existing[k] # 0
  BY DEF Init, StoreInit, Objects
<1>4. row \in [Keys -> Objects \cup {NoObject}]
  BY Zenon, <1>3 DEF Init, StoreInit
<1>5. StoreTypeOK
  BY <1>1, <1>2, <1>4 DEF StoreTypeOK
<1>6. \A n \in taken : n <= seq
  BY <1>1
<1>7. RowsOK
  BY <1>1, <1>3 DEF RowsOK
<1>8. WritersOK /\ AnnouncedOK
  BY <1>2 DEF WritersOK, AnnouncedOK, Writes, Announces, At
<1>9. QED
  BY <1>5, <1>6, <1>7, <1>8 DEF VersionInv

\* The invariant behind the versions holds of every behaviour of the server,
\* with any number of clients, replicas and watches.
THEOREM StoreInvariant == Spec => []VersionInv
<1>1. VersionInv /\ [Next]_vars => VersionInv'
  BY StepForms, IdlesKeepsInv, KeepsKeepsInv, CommitsKeepsInv
<1>2. QED
  BY InitInv, <1>1, PTL DEF Spec

-----------------------------------------------------------------------------
\* The rows at the start are an initial table.
LEMMA InitImplements == Init => Abstract!Init
<1> SUFFICES ASSUME Init PROVE Abstract!Init
  OBVIOUS
<1> USE StoreAssumption
<1>1. \A k \in Keys : row[k] # NoObject =>
         row[k].rv = Existing[k] /\ row[k].uid = Existing[k] /\ Existing[k] # 0
  BY DEF Init, StoreInit, Objects
<1>2. \A k \in Keys : row[k] = NoObject => Existing[k] = 0
  BY DEF Init, StoreInit, Objects
<1>3. row \in [Keys -> Abstract!Objects \cup {NoObject}]
  BY InitInv DEF VersionInv, StoreTypeOK, Objects, Abstract!Objects
<1>4. taken = {row[k].rv : k \in Abstract!Present}
  <2>1. taken = {Existing[k] : k \in Keys} \ {0}
    BY DEF Init, StoreInit
  <2>2. QED
    BY <1>1, <1>2, <2>1 DEF Abstract!Present
<1>5. QED
  BY <1>1, <1>3, <1>4 DEF Abstract!Init, Abstract!Present

\* A commit is a step of the abstract table, any other step changes nothing.
LEMMA StepImplements ==
    ASSUME VersionInv, [Next]_vars PROVE [Abstract!Next]_<<row, taken>>
<1>1. ASSUME NEW c \in Clients, NEW k, NEW type, NEW o, Commits(c, k, type, o)
      PROVE  Abstract!Next
  <2>1. k \in Keys /\ o \in Abstract!Objects
    BY <1>1 DEF Commits, Objects, Abstract!Objects
  <2>2. CASE type = "Deleted"
    <3>1. Abstract!Delete(k)
      BY <1>1, <2>2 DEF Commits, Commit, Abstract!Delete
    <3>2. QED
      BY <2>1, <3>1 DEF Abstract!Next
  <2>3. CASE type # "Deleted"
    <3>1. o.rv \notin taken /\ Abstract!Install(k, o)
      BY Zenon, <1>1, <2>3 DEF Commits, Commit, Abstract!Install, VersionInv, WritersOK, Writes, At
    <3>2. Abstract!Create(k, o) \/ Abstract!Replace(k, o)
      BY Zenon, <1>1, <2>3, <3>1 DEF Commits, Abstract!Create, Abstract!Replace,
                              VersionInv, WritersOK, At
    <3>3. QED
      BY <2>1, <3>2 DEF Abstract!Next
  <2>4. QED
    BY <2>2, <2>3
<1>2. QED
  BY <1>1, StepForms DEF Idles, Keeps

\* The object store implements the abstract table: Insert never replaces an
\* object, Update never brings a new one in, and no commit installs a version
\* that was installed before.
THEOREM StoreImplements == Spec => Implements
<1>1. VersionInv /\ [Next]_vars => [Abstract!Next]_<<row, taken>>
  BY StepImplements
<1>2. QED
  BY InitImplements, StoreInvariant, <1>1, PTL DEF Spec, Implements, Abstract!Spec

-----------------------------------------------------------------------------
(* The watches.                                                            *)

\* The members of a sequence with one more at its end, and without its first.
LEMMA Appended ==
    ASSUME NEW S, NEW s \in Seq(S), NEW e \in S
    PROVE  /\ Append(s, e) \in Seq(S) /\ Len(s) \in Nat /\ Len(Append(s, e)) = Len(s) + 1
           /\ \A n \in 1..Len(s) : Append(s, e)[n] = s[n]
           /\ Append(s, e)[Len(s) + 1] = e
  OBVIOUS

LEMMA AppendedTo ==
    ASSUME NEW S, NEW s \in Seq(S), NEW e \in S, NEW t, t = Append(s, e)
    PROVE  /\ Len(s) \in Nat /\ Len(t) = Len(s) + 1
           /\ \A n \in 1..Len(s) : t[n] = s[n]
           /\ t[Len(s) + 1] = e
  OBVIOUS

LEMMA Shifted ==
    ASSUME NEW S, NEW s \in Seq(S), s # <<>>
    PROVE  /\ Tail(s) \in Seq(S) /\ Head(s) \in S /\ Head(s) = s[1]
           /\ Len(s) \in Nat /\ Len(s) >= 1 /\ Len(Tail(s)) = Len(s) - 1
           /\ \A n \in 1..Len(Tail(s)) : Tail(s)[n] = s[n + 1]
  OBVIOUS

\* Places in a sequence of b elements that had a elements before.
LEMMA OneMore ==
    ASSUME NEW a \in Nat, NEW b, b = a + 1
    PROVE  /\ \A n \in 1..a : n \in 1..b
           /\ a + 1 \in 1..b
           /\ \A n \in 1..b : n = a + 1 \/ n \in 1..a
           /\ \A n \in 1..b : n = a + 1 \/ a + 1 \in (n + 1)..b
           /\ \A n \in 1..b : \A m \in (n + 1)..a : m \in 1..a /\ m \in (n + 1)..b
  OBVIOUS

\* A place after the first is the place after some place of the tail.
LEMMA PlaceBefore ==
    ASSUME NEW a \in Nat, NEW b, b = a - 1, NEW n \in 1..a, n # 1
    PROVE  n - 1 \in 1..b /\ (n - 1) + 1 = n
  OBVIOUS

LEMMA EventFields ==
    ASSUME NEW e \in Events
    PROVE  e.type \in Types /\ e.key \in Keys /\ e.obj \in Objects
  BY DEF Events

LEMMA AffectedFields ==
    ASSUME NEW S, NEW a \in [event : S, late : BOOLEAN]
    PROVE  a.event \in S
  OBVIOUS

\* Messages to be published have keys.
LEMMA AffectedKey ==
    ASSUME WatchTypeOK, NEW p \in Replicas, NEW a \in affected[p]
    PROVE  a.event \in Events /\ a.event.key \in Keys
<1>1. a \in [event : Events, late : BOOLEAN]
  BY Zenon DEF WatchTypeOK
<1>2. a.event \in Events
  BY Zenon, <1>1, AffectedFields
<1> QED
  BY Zenon, <1>2, EventFields

\* What clients see of a row is an object and the rows of reports.
LEMMA ReadTyped ==
    ASSUME StoreTypeOK, NEW k \in Keys
    PROVE  /\ Read(k) \in Seen \cup {NoObject}
           /\ row[k] # NoObject => Read(k) \in Seen
<1>1. row[k] \in Objects \cup {NoObject} /\ \A r \in Reports : row[r] \in Objects \cup {NoObject}
  BY Zenon DEF StoreTypeOK, Keys
<1>2. ASSUME row[k] # NoObject PROVE Read(k) \in Seen
  <2>1. row[k] \in Objects /\ row[k].val \subseteq Reports
    BY <1>1, <1>2 DEF Objects
  <2>2. populateContainerResults(row[k]) \subseteq Objects
    BY <1>1, <2>1 DEF populateContainerResults
  <2>3. Read(k) = [obj |-> row[k], found |-> populateContainerResults(row[k])]
    BY Zenon, <1>2 DEF Read
  <2> QED
    BY <2>1, <2>2, <2>3 DEF Seen
<1>3. ASSUME row[k] = NoObject PROVE Read(k) = NoObject
  BY Zenon, <1>3 DEF Read
<1> QED
  BY Zenon, <1>2, <1>3

\* A request of the store is not publishing and leaves the others alone.
LEMMA StoreStepOf ==
    ASSUME StoreTypeOK, NEW c \in Clients, StoreNext(c)
    PROVE  ~At(c, "publish") /\ \A d \in Clients \ {c} : req'[d] = req[d]
<1>1. PICK r : req' = [req EXCEPT ![c] = r]
  BY Zenon DEF StoreNext, Get, Delete, CreateVersion, PatchRead, Insert, PutRead, UpdateVersion,
     Update, DeleteHeld, Abort, ReadForUpdate, Ends, Commit
<1>2. ~At(c, "publish")
  BY Zenon DEF StoreNext, Get, Delete, CreateVersion, PatchRead, Insert, PutRead, UpdateVersion,
     Update, DeleteHeld, Abort, At
<1> QED
  BY Zenon, <1>1, <1>2 DEF StoreTypeOK

\* What is written under a plain key holds nothing that other rows are shown for.
LEMMA StoreContents ==
    ASSUME VersionInv, ContentsOK, NEW c \in Clients, StoreNext(c)
    PROVE  ContentsOK'
<1> DEFINE Writing == {"insert", "version", "write"}
           W == req'[c].step \in Writing => req'[c].obj.val \in Contents(req'[c].key)
           R == \A k \in Keys : row'[k] # NoObject => row'[k].val \in Contents(k)
<1>1. /\ req \in [Clients -> Requests] /\ req[c] \in Requests /\ req[c].key \in Keys
      /\ row \in [Keys -> Objects \cup {NoObject}]
  BY DEF VersionInv, StoreTypeOK, Requests
<1>2. /\ \A k \in Keys : row[k] # NoObject => row[k].val \in Contents(k)
      /\ req[c].step \in Writing => req[c].obj.val \in Contents(req[c].key)
  BY DEF ContentsOK
<1>3. ASSUME row' = row PROVE R
  BY <1>2, <1>3
<1>4. ASSUME NEW r, req' = [req EXCEPT ![c] = r], r.step \notin Writing PROVE W
  BY <1>1, <1>4
<1>5. Ends(c) => W
  BY Zenon, <1>4, IdleIs DEF Ends
<1>6. ASSUME NEW k \in Keys, NEW type, NEW o, Commit(c, k, type, o),
             type # "Deleted" => o.val \in Contents(k)
      PROVE  W /\ R
  BY <1>1, <1>2, <1>6 DEF Commit
<1>7. ASSUME NEW k \in Keys, NEW o \in Objects, NEW v \in Contents(k),
             ReadForUpdate(c, k, [o EXCEPT !.val = v])
      PROVE  W
  <2> DEFINE x == [o EXCEPT !.val = v]
             r == [Idle EXCEPT !.step = "version", !.key = k, !.obj = x, !.base = row[k].rv]
  <2>1. x.val = v
    BY DEF Objects
  <2> HIDE DEF x
  <2>2. r.key = k /\ r.obj = x
    BY Zenon, IdleIs DEF Requests
  <2>3. req' = [req EXCEPT ![c] = r]
    BY <1>7 DEF ReadForUpdate, x
  <2> HIDE DEF r
  <2> QED
    BY <1>1, <2>1, <2>2, <2>3
<1>10. ASSUME NEW k \in Keys, Get(c, k) PROVE W /\ R
  BY <1>1, <1>3, <1>10 DEF Get, Idle
<1>11. ASSUME NEW k \in Keys, Delete(c, k) PROVE W /\ R
  BY <1>6, <1>11 DEF Delete
<1>12. ASSUME NEW k \in Keys, NEW v \in Contents(k), CreateVersion(c, k, v) PROVE W /\ R
  BY <1>1, <1>3, <1>12 DEF CreateVersion, Idle
<1>13. ASSUME NEW k \in Keys, NEW v \in Contents(k), PatchRead(c, k, v) PROVE W /\ R
  BY Zenon, <1>1, <1>3, <1>7, <1>13 DEF PatchRead
<1>14. ASSUME NEW v \in Contents(req[c].key), PutRead(c, v) PROVE W /\ R
  <2>1. req[c].obj \in Objects
    BY <1>14 DEF PutRead, At, VersionInv, WritersOK
  <2> QED
    BY Zenon, <1>1, <1>3, <1>5, <1>7, <1>14, <2>1 DEF PutRead
<1>15. ASSUME Insert(c) PROVE W /\ R
  BY Zenon, <1>1, <1>2, <1>3, <1>5, <1>6, <1>15 DEF Insert, At
<1>16. ASSUME UpdateVersion(c) PROVE W /\ R
  <2>1. req[c].obj \in Objects /\ req[c].obj.val \in Contents(req[c].key)
    BY <1>2, <1>16 DEF UpdateVersion, At, VersionInv, WritersOK
  <2>2. req'[c].obj.val = req[c].obj.val /\ req'[c].key = req[c].key
    BY <1>1, <1>16, <2>1 DEF UpdateVersion, Requests, Objects
  <2> QED
    BY <1>3, <1>16, <2>1, <2>2 DEF UpdateVersion
<1>17. ASSUME Update(c) PROVE W /\ R
  BY Zenon, <1>1, <1>2, <1>3, <1>5, <1>6, <1>17 DEF Update, At
<1>18. ASSUME DeleteHeld(c) PROVE W /\ R
  BY Zenon, <1>1, <1>3, <1>5, <1>6, <1>18 DEF DeleteHeld
<1>19. ASSUME Abort(c) PROVE W /\ R
  BY <1>3, <1>5, <1>19 DEF Abort
<1>20. W /\ R
  BY Zenon, <1>10, <1>11, <1>12, <1>13, <1>14, <1>15, <1>16, <1>17, <1>18, <1>19 DEF StoreNext
<1>21. \A d \in Clients : d # c => req'[d] = req[d]
  BY StoreStepOf DEF VersionInv
<1> QED
  BY <1>20, <1>21 DEF ContentsOK, Contents

\* Publishing ends the request of c, and marks what became late by it.
LEMMA DoneEffect ==
    ASSUME VersionInv, WatchTypeOK, NEW c \in Clients, At(c, "publish"), Done(c),
           UNCHANGED <<seq, row, taken>>
    PROVE  /\ ~At(c, "publish")' /\ \A d \in Clients \ {c} : Same(d)
           /\ \A d \in Clients \ {c} : req'[d].before = req[d].before \ {c}
           /\ \A d \in Clients \ {c} :
                 \/ req[d].late
                 \/ /\ At(d, "publish") /\ req[d].key = req[c].key /\ d \in req[c].before
                    /\ \/ "Deleted" \in {req[d].type, req[c].type}
                       \/ req[d].obj.uid # req[c].obj.uid
                 => req'[d].late
<1>1. Keeps(c)
  BY DoneKeeps
<1>2. ~At(c, "publish")' /\ \A d \in Clients \ {c} : Same(d)
  BY <1>1 DEF Keeps, Moved, At
<1> DEFINE L(d) == \/ req[d].late
                   \/ /\ At(d, "publish") /\ req[d].key = req[c].key /\ d \in req[c].before
                      /\ "Deleted" \in {req[d].type, req[c].type} \/ req[d].obj.uid # req[c].obj.uid
<1>3. ASSUME NEW d \in Clients \ {c}
      PROVE  req'[d].before = req[d].before \ {c} /\ (L(d) => req'[d].late)
  <2>1. req[d] \in Requests
    BY DEF VersionInv, StoreTypeOK
  <2>2. req'[d] = [req[d] EXCEPT !.late = L(d), !.before = @ \ {c}]
    BY Zenon, <2>1 DEF Done, Requests
  <2> HIDE DEF L
  <2> QED
    BY Zenon, <2>1, <2>2 DEF Requests
<1> QED
  BY Zenon, <1>2, <1>3

\* What is still to be published for reports stays, and is marked late where
\* the request of c publishes something that parts from it.
LEMMA DoneAffected ==
    ASSUME WatchTypeOK, NEW c \in Clients, Done(c), NEW p \in Replicas
    PROVE  /\ affected'[p] \subseteq [event : Events, late : BOOLEAN]
           /\ \A a \in affected[p] : \E b \in affected'[p] : b.event = a.event
           /\ \A b \in affected'[p] : \E a \in affected[p] :
                 /\ b.event = a.event
                 /\ \/ a.late
                    \/ /\ a.event.key = req[c].key
                       /\ \/ "Deleted" \in {"Modified", req[c].type}
                          \/ a.event.obj.uid # req[c].obj.uid
                    => b.late
<1> DEFINE P(a) == /\ a.event.key = req[c].key
                   /\ \/ "Deleted" \in {"Modified", req[c].type}
                      \/ a.event.obj.uid # req[c].obj.uid
           A == [event : Events, late : BOOLEAN]
           Marked(a) == IF P(a) THEN [a EXCEPT !.late = TRUE] ELSE a
<1>1. affected[p] \subseteq A
  BY Zenon DEF WatchTypeOK
<1>2. affected'[p] = {Marked(a) : a \in affected[p]}
  BY Zenon DEF Done
<1>3. ASSUME NEW a \in affected[p]
      PROVE  /\ Marked(a) \in A /\ Marked(a).event = a.event
             /\ a.late \/ P(a) => Marked(a).late
  <2>1. a \in A
    BY Zenon, <1>1
  <2> HIDE DEF P
  <2>2. CASE P(a)
    <3>1. [a EXCEPT !.late = TRUE] \in A /\ [a EXCEPT !.late = TRUE].event = a.event
          /\ [a EXCEPT !.late = TRUE].late
      BY Zenon, <2>1
    <3> QED
      BY Zenon, <2>2, <3>1
  <2>3. CASE ~P(a)
    BY Zenon, <2>1, <2>3
  <2> QED
    BY Zenon, <2>2, <2>3
<1> HIDE DEF P, Marked
<1>4. \A a \in affected[p] : Marked(a) \in affected'[p] /\ Marked(a).event = a.event
  BY Zenon, <1>2, <1>3
<1>5. ASSUME NEW b \in affected'[p]
      PROVE  \E a \in affected[p] : b \in A /\ b.event = a.event /\ (a.late \/ P(a) => b.late)
  <2>1. PICK a \in affected[p] : b = Marked(a)
    BY Zenon, <1>2
  <2>2. b \in A /\ b.event = a.event /\ (a.late \/ P(a) => b.late)
    BY Zenon, <1>3, <2>1
  <2> QED
    BY Zenon, <2>2
<1>6. QED
  BY Zenon, <1>4, <1>5 DEF P

\* What a watch that moves on becomes.
LEMMA WatchMoved ==
    ASSUME NEW w \in [step : WatchSteps, replica : Replicas, since : 0..MaxVersion,
                      prefix : Views],
           NEW step \in WatchSteps, NEW since \in 0..MaxVersion, NEW prefix \in Views
    PROVE  LET x == [w EXCEPT !.step = step, !.since = since, !.prefix = prefix]
           IN  /\ x \in [step : WatchSteps, replica : Replicas, since : 0..MaxVersion,
                         prefix : Views]
               /\ x.step = step /\ x.replica = w.replica /\ x.prefix = prefix
<1> DEFINE y == [w EXCEPT !.step = step]
           z == [y EXCEPT !.since = since]
           x == [z EXCEPT !.prefix = prefix]
           T == [step : WatchSteps, replica : Replicas, since : 0..MaxVersion, prefix : Views]
<1>1. y \in T /\ y.step = step /\ y.replica = w.replica
  OBVIOUS
<1> HIDE DEF y
<1>2. z \in T /\ z.step = step /\ z.replica = w.replica
  BY <1>1
<1> HIDE DEF z
<1>3. x \in T /\ x.step = step /\ x.replica = w.replica /\ x.prefix = prefix
  BY <1>2
<1> QED
  BY Zenon, <1>3 DEF x, y, z

-----------------------------------------------------------------------------
\* Every step keeps the types of what replicas and informers hold.
LEMMA WatchTypes ==
    ASSUME VersionInv, WatchTypeOK, [Next]_vars
    PROVE  WatchTypeOK'
<1> USE StoreAssumption, WatchAssumption
<1>1. /\ StoreTypeOK /\ row \in [Keys -> Objects \cup {NoObject}]
      /\ \A k \in Keys : row[k] # NoObject => row[k] \in Objects
      /\ \A k \in Keys : Read(k) \in Seen \cup {NoObject}
      /\ seq \in 0..MaxVersion
  BY ReadTyped DEF VersionInv, StoreTypeOK
<1>2. /\ bus \in [Replicas -> Seq(Events)] /\ fan \in [Replicas -> Seq(Reports)]
      /\ fetched \in [Replicas -> Fetched \cup {NoEvent}]
      /\ affected \in [Replicas -> SUBSET [event : Events, late : BOOLEAN]]
      /\ watch \in [Informers -> [step : WatchSteps, replica : Replicas,
                                  since : 0..MaxVersion, prefix : Views]]
      /\ view \in [Informers -> Views]
      /\ astray \subseteq Keys /\ missed \in [Informers -> SUBSET Keys]
      /\ faults \in 0..MaxFaults
  BY DEF WatchTypeOK
<1>3. CASE UNCHANGED watchVars
  BY Zenon, <1>2, <1>3 DEF watchVars, WatchTypeOK
<1>4. Fault => faults' \in 0..MaxFaults
  BY <1>2 DEF Fault
<1>5. \A k \in Keys : FindByImageRef(k) \subseteq Keys /\ Shown(k) \subseteq Keys
  BY DEF FindByImageRef, Shown, Keys
<1>6. ASSUME NEW e \in Events, NEW late, Deliver(e, late)
      PROVE  bus' \in [Replicas -> Seq(Events)] /\ astray' \subseteq Keys
  <2>1. bus' = [p \in Replicas |-> Append(bus[p], e)]
    BY <1>6 DEF Deliver
  <2>2. ASSUME NEW p \in Replicas PROVE Append(bus[p], e) \in Seq(Events)
    BY SMTT(30), <1>2, Appended
  <2>3. e.key \in Keys
    BY DEF Events
  <2>4. bus' \in [Replicas -> Seq(Events)]
    BY Zenon, <2>1, <2>2
  <2>5. astray' \subseteq Keys
    <3>1. astray' \subseteq astray \cup {e.key}
      BY Zenon, <1>6 DEF Deliver
    <3> QED
      BY Zenon, <1>2, <2>3, <3>1
  <2> QED
    BY Zenon, <2>4, <2>5
<1>7. ASSUME NEW c \in Clients, At(c, "publish"), Done(c)
      PROVE  /\ affected' \in [Replicas -> SUBSET [event : Events, late : BOOLEAN]]
             /\ [type |-> req[c].type, key |-> req[c].key, obj |-> req[c].obj] \in Events
             /\ req[c].key \in Keys
  <2>1. req[c] \in Requests /\ req[c].obj \in Objects
    BY <1>7 DEF VersionInv, StoreTypeOK, WritersOK, At
  <2>2. \A p \in Replicas : affected'[p] \subseteq [event : Events, late : BOOLEAN]
    BY Zenon, <1>7, DoneAffected
  <2>3. \E f : affected' = [p \in Replicas |-> f[p]]
    <3> DEFINE f == [p \in Replicas |-> affected'[p]]
    <3>1. affected' = [p \in Replicas |-> f[p]]
      BY Zenon, <1>7 DEF Done
    <3> QED
      BY Zenon, <3>1
  <2>4. [type |-> req[c].type, key |-> req[c].key, obj |-> req[c].obj] \in Events
    BY Zenon, <2>1 DEF Requests, Events
  <2> QED
    <3>1. affected' \in [Replicas -> SUBSET [event : Events, late : BOOLEAN]]
      <4>1. PICK f : affected' = [p \in Replicas |-> f[p]]
        BY Zenon, <2>3
      <4>2. \A p \in Replicas : f[p] = affected'[p]
        BY Zenon, <4>1
      <4> QED
        BY Zenon, <2>2, <4>1, <4>2
    <3> QED
      BY Zenon, <2>1, <2>4, <3>1 DEF Requests
<1>8. ASSUME NEW c \in Clients, Publish(c) PROVE WatchTypeOK'
  <2>1. fan' \in [Replicas -> Seq(Reports)]
    <3>1. ASSUME NEW p \in Replicas, req[c].key \in Reports
          PROVE  Append(fan[p], req[c].key) \in Seq(Reports)
      BY SMTT(30), <1>2, <3>1, Appended
    <3> QED
      BY Zenon, <1>2, <1>8, <3>1 DEF Publish
  <2> QED
    BY Zenon, <1>2, <1>6, <1>7, <1>8, <2>1 DEF Publish, viewVars, WatchTypeOK
<1>9. ASSUME NEW c \in Clients, PublishLost(c) PROVE WatchTypeOK'
  <2>1. astray' \subseteq Keys
    BY Zenon, <1>2, <1>5, <1>7, <1>9 DEF PublishLost
  <2> QED
    BY Zenon, <1>2, <1>4, <1>7, <1>9, <2>1 DEF PublishLost, viewVars, WatchTypeOK
<1>10. ASSUME NEW p \in Replicas, bus[p] # <<>>
       PROVE  /\ [bus EXCEPT ![p] = Tail(@)] \in [Replicas -> Seq(Events)]
              /\ Head(bus[p]) \in Events
  <2>1. Tail(bus[p]) \in Seq(Events) /\ Head(bus[p]) \in Events
    BY <1>2, <1>10, Shifted
  <2> QED
    BY Zenon, <1>2, <2>1
<1>11. ASSUME NEW p \in Replicas, fan[p] # <<>>
       PROVE  /\ [fan EXCEPT ![p] = Tail(@)] \in [Replicas -> Seq(Reports)]
              /\ Head(fan[p]) \in Reports
  <2>1. Tail(fan[p]) \in Seq(Reports) /\ Head(fan[p]) \in Reports
    BY <1>2, <1>11, Shifted
  <2> QED
    BY Zenon, <1>2, <2>1
<1>12. ASSUME NEW I, NEW k \in Keys, NotTold(I, k) PROVE missed' \in [Informers -> SUBSET Keys]
  BY <1>2, <1>12 DEF NotTold
<1>13. ASSUME NEW p \in Replicas, ProcessMessage(p) PROVE WatchTypeOK'
  <2> DEFINE e == Head(bus[p])
             seen == IF e.type = "Deleted" THEN NoObject ELSE Rehydrate(e)
             x == [type |-> e.type, key |-> e.key, seen |-> seen]
  <2>1. e \in Events
    BY Zenon, <1>10, <1>13 DEF ProcessMessage
  <2>2. seen \in Seen \cup {NoObject}
    BY Zenon, <1>1, <2>1 DEF Rehydrate, Events, Stripped, Seen
  <2>3. fetched' = [fetched EXCEPT ![p] = x]
    BY Zenon, <1>13 DEF ProcessMessage
  <2>4. missed' \in [Informers -> SUBSET Keys]
    <3>1. \A i \in Informers : missed'[i] = missed[i] \/ missed'[i] = missed[i] \ {e.key}
      BY Zenon, <1>13 DEF ProcessMessage
    <3>2. \E f : missed' = [i \in Informers |-> f[i]]
      <4> DEFINE f == [i \in Informers |-> missed'[i]]
      <4>1. missed' = [i \in Informers |-> f[i]]
        BY Zenon, <1>13 DEF ProcessMessage
      <4> QED
        BY Zenon, <4>1
    <3> QED
      BY Zenon, <1>2, <3>1, <3>2
  <2> HIDE DEF seen
  <2>5. x \in Fetched
    BY <2>1, <2>2 DEF Fetched, Events
  <2> HIDE DEF x, e
  <2>6. fetched' \in [Replicas -> Fetched \cup {NoEvent}]
    BY Zenon, <1>2, <2>3, <2>5
  <2> QED
    BY Zenon, <1>2, <1>10, <1>13, <2>4, <2>6
       DEF ProcessMessage, fanVars, viewVars, WatchTypeOK
<1>14. ASSUME NEW p \in Replicas, Broadcast(p) PROVE WatchTypeOK'
  <2>1. fetched[p].key \in Keys /\ fetched[p].seen \in Seen \cup {NoObject}
    BY Zenon, <1>2, <1>14 DEF Broadcast, Fetched
  <2>2. view' \in [Informers -> Views]
    <3>1. ASSUME NEW i \in Informers
          PROVE  [view[i] EXCEPT ![fetched[p].key] = fetched[p].seen] \in Views
      BY Zenon, <1>2, <2>1 DEF Views
    <3> QED
      BY Zenon, <1>2, <1>14, <3>1 DEF Broadcast
  <2>3. fetched' \in [Replicas -> Fetched \cup {NoEvent}]
    BY Zenon, <1>2, <1>14 DEF Broadcast
  <2>4. missed' \in [Informers -> SUBSET Keys]
    BY Zenon, <1>12, <1>14, <2>1 DEF Broadcast
  <2> QED
    BY Zenon, <1>2, <1>14, <2>2, <2>3, <2>4 DEF Broadcast, fanVars, WatchTypeOK
<1>15. ASSUME NEW p \in Replicas, MessageLost(p) PROVE WatchTypeOK'
  <2>1. Head(bus[p]).key \in Keys
    BY Zenon, <1>10, <1>15 DEF MessageLost, Events
  <2>2. missed' \in [Informers -> SUBSET Keys]
    BY Zenon, <1>12, <1>15, <2>1 DEF MessageLost
  <2> QED
    BY Zenon, <1>2, <1>4, <1>10, <1>15, <2>2 DEF MessageLost, fanVars, viewVars, WatchTypeOK
<1>16. ASSUME NEW p \in Replicas, FindAffected(p) PROVE WatchTypeOK'
  <2> DEFINE A == {[event |-> [type |-> "Modified", key |-> k, obj |-> row[k]], late |-> FALSE] :
                      k \in FindByImageRef(Head(fan[p]))}
  <2>1. A \subseteq [event : Events, late : BOOLEAN]
    <3>1. \A k \in FindByImageRef(Head(fan[p])) : k \in Keys /\ row[k] \in Objects
      BY <1>1 DEF FindByImageRef, Keys
    <3>2. ASSUME NEW k \in FindByImageRef(Head(fan[p]))
          PROVE  [event |-> [type |-> "Modified", key |-> k, obj |-> row[k]], late |-> FALSE]
                    \in [event : Events, late : BOOLEAN]
      BY <3>1 DEF Events, Types
    <3> QED
      BY Zenon, <3>2
  <2>2. affected' = [affected EXCEPT ![p] = A]
    BY Zenon, <1>16 DEF FindAffected
  <2> HIDE DEF A
  <2>3. affected' \in [Replicas -> SUBSET [event : Events, late : BOOLEAN]]
    BY Zenon, <1>2, <2>1, <2>2
  <2> QED
    BY Zenon, <1>2, <1>11, <1>16, <2>3 DEF FindAffected, viewVars, WatchTypeOK
<1>17. ASSUME NEW p \in Replicas, PublishAffected(p) PROVE WatchTypeOK'
  <2>1. PICK a \in affected[p] :
           Deliver(a.event, a.late) /\ affected' = [affected EXCEPT ![p] = @ \ {a}]
    BY Zenon, <1>17 DEF PublishAffected
  <2>2. a.event \in Events
    BY <1>2
  <2>3. affected' \in [Replicas -> SUBSET [event : Events, late : BOOLEAN]]
    BY Zenon, <1>2, <2>1
  <2> QED
    BY Zenon, <1>2, <1>6, <1>17, <2>1, <2>2, <2>3 DEF PublishAffected, viewVars, WatchTypeOK
<1>18. ASSUME NEW p \in Replicas, ReportMessageLost(p) PROVE WatchTypeOK'
  <2>1. astray' \subseteq Keys
    <3>1. Head(fan[p]) \in Keys
      BY Zenon, <1>11, <1>18 DEF ReportMessageLost, Keys
    <3> QED
      BY Zenon, <1>2, <1>5, <1>18, <3>1 DEF ReportMessageLost
  <2> QED
    BY Zenon, <1>2, <1>4, <1>11, <1>18, <2>1 DEF ReportMessageLost, viewVars, WatchTypeOK
<1>19. Nothing \in Views
  BY Zenon DEF Nothing, Views
<1>20. ASSUME NEW i \in Informers, NEW step \in WatchSteps, NEW since \in 0..MaxVersion,
              NEW prefix \in Views, Watching(i, step, since, prefix)
       PROVE  watch' \in [Informers -> [step : WatchSteps, replica : Replicas,
                                        since : 0..MaxVersion, prefix : Views]]
  <2>1. [watch[i] EXCEPT !.step = step, !.since = since, !.prefix = prefix]
           \in [step : WatchSteps, replica : Replicas, since : 0..MaxVersion, prefix : Views]
    BY ZenonT(30), <1>2, WatchMoved
  <2> QED
    BY Zenon, <1>2, <1>20, <2>1 DEF Watching
<1>21. ASSUME NEW i \in Informers, List(i) PROVE WatchTypeOK'
  <2>1. view' \in [Informers -> Views]
    BY Zenon, <1>1, <1>2, <1>21 DEF List, Views
  <2>2. "listed" \in WatchSteps /\ 0 \in 0..MaxVersion
    BY DEF WatchSteps
  <2> QED
    BY Zenon, <1>2, <1>19, <1>20, <1>21, <2>1, <2>2 DEF List, fanVars, WatchTypeOK
<1>22. ASSUME NEW i \in Informers, ListVersion(i) PROVE WatchTypeOK'
  <2>1. "versioned" \in WatchSteps /\ seq + 1 \in 0..MaxVersion
    <3>1. seq \in 0..MaxVersion /\ seq < MaxVersion /\ MaxVersion \in Nat
      BY Zenon, <1>1, <1>22, StoreAssumption DEF ListVersion, nextResourceVersion
    <3> QED
      BY <3>1 DEF WatchSteps
  <2> QED
    BY Zenon, <1>2, <1>19, <1>20, <1>22, <2>1 DEF ListVersion, fanVars, WatchTypeOK
<1>23. ASSUME NEW i \in Informers, WatchFrom(i) PROVE WatchTypeOK'
  <2> DEFINE prefix == [k \in Keys |-> IF row[k] # NoObject /\ row[k].rv >= watch[i].since
                                       THEN Read(k) ELSE NoObject]
  <2>1. prefix \in Views
    BY Zenon, <1>1 DEF Views
  <2>2. "prefixed" \in WatchSteps /\ 0 \in 0..MaxVersion
    BY DEF WatchSteps
  <2>3. Watching(i, "prefixed", 0, prefix)
    BY Zenon, <1>23 DEF WatchFrom
  <2> HIDE DEF prefix
  <2> QED
    BY Zenon, <1>2, <1>20, <1>23, <2>1, <2>2, <2>3 DEF WatchFrom, fanVars, WatchTypeOK
<1>24. ASSUME NEW i \in Informers, WatchList(i) PROVE WatchTypeOK'
  <2>1. [k \in Keys |-> Read(k)] \in Views
    BY Zenon, <1>1 DEF Views
  <2>2. "prefixed" \in WatchSteps /\ 0 \in 0..MaxVersion
    BY DEF WatchSteps
  <2> QED
    BY Zenon, <1>2, <1>20, <1>24, <2>1, <2>2 DEF WatchList, fanVars, WatchTypeOK
<1>25. ASSUME NEW i \in Informers, WatchWithPrefix(i) PROVE WatchTypeOK'
  <2> DEFINE v == [k \in Keys |-> IF watch[i].prefix[k] # NoObject THEN watch[i].prefix[k]
                                  ELSE view[i][k]]
  <2>1. v \in Views
    <3>1. watch[i].prefix \in Views /\ view[i] \in Views
      BY <1>2
    <3> QED
      BY Zenon, <3>1 DEF Views
  <2>2. "on" \in WatchSteps /\ 0 \in 0..MaxVersion
    BY DEF WatchSteps
  <2>3. view' = [view EXCEPT ![i] = v]
    BY Zenon, <1>2, <1>25 DEF WatchWithPrefix
  <2> HIDE DEF v
  <2>4. view' \in [Informers -> Views]
    BY Zenon, <1>2, <2>1, <2>3
  <2> QED
    BY Zenon, <1>2, <1>19, <1>20, <1>25, <2>2, <2>4 DEF WatchWithPrefix, fanVars, WatchTypeOK
<1>26. ASSUME NEW i \in Informers, StopWatch(i) PROVE WatchTypeOK'
  <2>1. "off" \in WatchSteps /\ 0 \in 0..MaxVersion
    BY DEF WatchSteps
  <2>2. view' \in [Informers -> Views] /\ missed' \in [Informers -> SUBSET Keys]
    BY Zenon, <1>2, <1>19, <1>26 DEF StopWatch
  <2> QED
    BY Zenon, <1>2, <1>19, <1>20, <1>26, <2>1, <2>2 DEF StopWatch, fanVars, WatchTypeOK
<1>27. ASSUME NEW i \in Informers, Rewatch(i) PROVE WatchTypeOK'
  <2>1. PICK v \in 0..seq : Watching(i, "versioned", v, Nothing)
    BY Zenon, <1>27 DEF Rewatch
  <2>2. "versioned" \in WatchSteps /\ v \in 0..MaxVersion
    BY <1>1 DEF WatchSteps
  <2> QED
    BY Zenon, <1>2, <1>19, <1>20, <1>27, <2>1, <2>2 DEF Rewatch, fanVars, WatchTypeOK
<1> QED
  BY Zenon, <1>3, <1>8, <1>9, <1>13, <1>14, <1>15, <1>16, <1>17, <1>18, <1>21, <1>22, <1>23,
     <1>24, <1>25, <1>26, <1>27 DEF Next, WatchNext, vars

-----------------------------------------------------------------------------
\* A step that hands nothing over keeps what is said of keys without a message
\* to publish, if it leaves alone what is stored under them and what they show.
LEMMA Withdrawn ==
    ASSUME LastTells, InformersKnow, UNCHANGED <<bus, fetched, watch, view, missed>>,
           \A k \in Keys : Published(k)' => /\ Published(k)
                                            /\ row'[k] = row[k] /\ Read(k)' = Read(k)
    PROVE  LastTells' /\ InformersKnow'
<1>1. /\ \A p, k : (InBus(p, k)' <=> InBus(p, k)) /\ (InHand(p, k)' <=> InHand(p, k))
      /\ \A p, n, k : LastOn(p, n, k)' <=> LastOn(p, n, k)
  BY Zenon DEF InBus, InHand, LastOn
<1>2. ASSUME NEW p \in Replicas, NEW k \in Keys, Published(k)'
      PROVE  /\ \A n \in 1..Len(bus'[p]) : LastOn(p, n, k)' => Tells(bus'[p][n], row'[k])
             /\ InHand(p, k)' /\ ~InBus(p, k)' => fetched'[p].seen = Read(k)'
  <2>1. Published(k) /\ row'[k] = row[k] /\ Read(k)' = Read(k)
    BY Zenon, <1>2
  <2>2. /\ \A n \in 1..Len(bus[p]) : LastOn(p, n, k) => Tells(bus[p][n], row[k])
        /\ InHand(p, k) /\ ~InBus(p, k) => fetched[p].seen = Read(k)
    BY Zenon, <2>1 DEF LastTells
  <2> QED
    BY Zenon, <1>1, <2>1, <2>2
<1>3. LastTells'
  BY Zenon, <1>2 DEF LastTells
<1>4. ASSUME NEW i \in Informers, NEW k \in Keys
      PROVE  /\ watch'[i].step = "off" => view'[i][k] = NoObject
             /\ /\ watch'[i].step # "off" /\ k \notin missed'[i] /\ Published(k)'
                /\ ~InBus(watch[i].replica, k)' /\ ~InHand(watch[i].replica, k)'
                => Believes(i, k)' = Read(k)'
  <2>1. Believes(i, k)' = Believes(i, k)
    BY Zenon DEF Believes
  <2> QED
    BY Zenon, <1>1, <2>1 DEF InformersKnow
<1>5. InformersKnow'
  BY Zenon, <1>4 DEF InformersKnow
<1> QED
  BY <1>3, <1>5

\* A message that is delivered is the last one on its way, at every replica.
LEMMA Delivered ==
    ASSUME WatchTypeOK, LastTells, InformersKnow, NEW e \in Events, NEW late,
           Deliver(e, late), UNCHANGED <<row, fetched, watch, view, missed>>,
           \A k \in Keys \ {e.key} : Published(k)' => Published(k),
           Published(e.key)' => Tells(e, row[e.key])
    PROVE  LastTells' /\ InformersKnow'
<1>1. ASSUME NEW p \in Replicas
      PROVE  /\ Len(bus[p]) \in Nat /\ Len(bus'[p]) = Len(bus[p]) + 1
             /\ \A n \in 1..Len(bus[p]) : bus'[p][n] = bus[p][n]
             /\ bus'[p][Len(bus[p]) + 1] = e
  <2>1. bus[p] \in Seq(Events) /\ bus'[p] = Append(bus[p], e)
    BY Zenon DEF WatchTypeOK, Deliver
  <2>2. PICK s \in Seq(Events) : s = bus[p]
    BY Zenon, <2>1
  <2>3. PICK t : t = bus'[p]
    BY Zenon
  <2>4. /\ Len(s) \in Nat /\ Len(t) = Len(s) + 1
        /\ \A n \in 1..Len(s) : t[n] = s[n]
        /\ t[Len(s) + 1] = e
    <3>1. t = Append(s, e)
      BY Zenon, <2>1, <2>2, <2>3
    <3> QED
      BY SMTT(30), <3>1, AppendedTo
  <2> QED
    BY Zenon, <2>2, <2>3, <2>4
<1>2. ASSUME NEW p \in Replicas, NEW k \in Keys
      PROVE  InBus(p, k)' <=> k = e.key \/ InBus(p, k)
  <2>1. /\ \A n \in 1..Len(bus[p]) : n \in 1..Len(bus'[p])
        /\ Len(bus[p]) + 1 \in 1..Len(bus'[p])
        /\ \A n \in 1..Len(bus'[p]) : n = Len(bus[p]) + 1 \/ n \in 1..Len(bus[p])
    BY Zenon, <1>1, OneMore
  <2>2. (k = e.key => InBus(p, k)') /\ (InBus(p, k) => InBus(p, k)')
    BY Zenon, <1>1, <2>1 DEF InBus
  <2>3. InBus(p, k)' => k = e.key \/ InBus(p, k)
    BY Zenon, <1>1, <2>1 DEF InBus
  <2> QED
    BY Zenon, <2>2, <2>3
<1>3. \A p, k : InHand(p, k)' <=> InHand(p, k)
  BY Zenon DEF InHand
<1>5. \A k : Read(k)' = Read(k)
  BY Zenon DEF Read, populateContainerResults
<1>6. ASSUME NEW p \in Replicas, NEW k \in Keys, Published(k)'
      PROVE  /\ \A n \in 1..Len(bus'[p]) : LastOn(p, n, k)' => Tells(bus'[p][n], row'[k])
             /\ InHand(p, k)' /\ ~InBus(p, k)' => fetched'[p].seen = Read(k)'
  <2>1. CASE k = e.key
    <3>1. ASSUME NEW n \in 1..Len(bus'[p]), LastOn(p, n, k)' PROVE bus'[p][n] = e
      <4>1. n = Len(bus[p]) + 1 \/ Len(bus[p]) + 1 \in (n + 1)..Len(bus'[p])
        BY Zenon, <1>1, OneMore
      <4> QED
        BY Zenon, <1>1, <2>1, <3>1, <4>1 DEF LastOn
    <3> QED
      BY Zenon, <1>2, <1>6, <2>1, <3>1
  <2>2. CASE k # e.key
    <3>1. Published(k)
      BY Zenon, <1>6, <2>2
    <3>2. ASSUME NEW n \in 1..Len(bus'[p]), LastOn(p, n, k)' PROVE Tells(bus'[p][n], row[k])
      <4>1. n \in 1..Len(bus[p]) /\ bus'[p][n] = bus[p][n] /\ LastOn(p, n, k)
        <5>1. /\ n = Len(bus[p]) + 1 \/ n \in 1..Len(bus[p])
              /\ \A m \in (n + 1)..Len(bus[p]) : m \in 1..Len(bus[p]) /\ m \in (n + 1)..Len(bus'[p])
          BY Zenon, <1>1, OneMore
        <5>2. bus'[p][n].key = k /\ \A m \in (n + 1)..Len(bus'[p]) : bus'[p][m].key # k
          BY Zenon, <3>2 DEF LastOn
        <5>3. n \in 1..Len(bus[p]) /\ bus'[p][n] = bus[p][n]
          BY Zenon, <1>1, <2>2, <5>1, <5>2
        <5>4. \A m \in (n + 1)..Len(bus[p]) : bus[p][m].key # k
          BY Zenon, <1>1, <5>1, <5>2
        <5> QED
          BY Zenon, <5>2, <5>3, <5>4 DEF LastOn
      <4> QED
        BY Zenon, <3>1, <3>2, <4>1 DEF LastTells
    <3>3. InHand(p, k) /\ ~InBus(p, k) => fetched[p].seen = Read(k)
      BY Zenon, <3>1 DEF LastTells
    <3> QED
      BY Zenon, <1>2, <1>3, <1>5, <3>2, <3>3
  <2> QED
    BY Zenon, <2>1, <2>2
<1>7. LastTells'
  BY Zenon, <1>6 DEF LastTells
<1>8. ASSUME NEW i \in Informers, NEW k \in Keys
      PROVE  /\ watch'[i].step = "off" => view'[i][k] = NoObject
             /\ /\ watch'[i].step # "off" /\ k \notin missed'[i] /\ Published(k)'
                /\ ~InBus(watch[i].replica, k)' /\ ~InHand(watch[i].replica, k)'
                => Believes(i, k)' = Read(k)'
  <2>1. Believes(i, k)' = Believes(i, k)
    BY Zenon DEF Believes
  <2>2. PICK p \in Replicas : p = watch[i].replica
    BY Zenon DEF WatchTypeOK
  <2> QED
    BY Zenon, <1>2, <1>3, <1>5, <2>1, <2>2 DEF InformersKnow
<1>9. InformersKnow'
  BY Zenon, <1>8 DEF InformersKnow
<1> QED
  BY <1>7, <1>9

\* Nothing is published and nothing committed.
Calm ==
    /\ row' = row
    /\ \A d \in Clients : /\ At(d, "publish")' <=> At(d, "publish")
                          /\ At(d, "publish") => req'[d] = req[d]

LEMMA CalmFacts ==
    ASSUME Calm
    PROVE  /\ \A k : Read(k)' = Read(k) /\ FindByImageRef(k)' = FindByImageRef(k)
                     /\ Shown(k)' = Shown(k)
           /\ \A d \in Clients, k \in Keys : Latest(d, k)' <=> Latest(d, k)
<1>1. \A k : Read(k)' = Read(k) /\ FindByImageRef(k)' = FindByImageRef(k)
  BY Zenon DEF Calm, Read, populateContainerResults, FindByImageRef
<1>2. \A k : Shown(k)' = Shown(k)
  BY Zenon, <1>1 DEF Shown
<1>3. ASSUME NEW d \in Clients, NEW k \in Keys PROVE Latest(d, k)' <=> Latest(d, k)
  BY Zenon DEF Calm, Latest
<1> QED
  BY Zenon, <1>1, <1>2, <1>3

\* As long as nothing is published or found for a report, nothing is late that
\* was not.
LEMMA CalmLate ==
    ASSUME VersionInv, WatchTypeOK, LateMarked, Calm,
           \A p \in Replicas : affected'[p] \subseteq affected[p]
    PROVE  LateMarked'
<1>1. ASSUME NEW c \in Clients, At(c, "publish")'
      PROVE  \/ Latest(c, req[c].key)' \/ req'[c].late
             \/ \E d \in Clients : Latest(d, req[c].key)' /\ c \in req'[d].before
  <2>1. At(c, "publish") /\ req'[c] = req[c]
    BY Zenon, <1>1 DEF Calm
  <2>2. PICK k \in Keys : k = req[c].key
    BY Zenon DEF VersionInv, StoreTypeOK, Requests
  <2>3. \/ Latest(c, k) \/ req[c].late
        \/ \E d \in Clients : Latest(d, k) /\ c \in req[d].before
    BY Zenon, <2>1, <2>2 DEF LateMarked
  <2>4. \A d \in Clients : Latest(d, k) => Latest(d, k)' /\ req'[d].before = req[d].before
    BY Zenon, CalmFacts DEF Calm, Latest
  <2>5. \/ Latest(c, k)' \/ req'[c].late
        \/ \E d \in Clients : Latest(d, k)' /\ c \in req'[d].before
    BY Zenon, <2>1, <2>3, <2>4
  <2>6. \A d \in Clients : Latest(d, k)' <=> Latest(d, req[c].key)'
    BY Zenon, <2>1, <2>2 DEF Latest
  <2> QED
    BY Zenon, <2>5, <2>6
<1>2. ASSUME NEW p \in Replicas, NEW a \in affected'[p]
      PROVE  /\ a.event.type = "Modified"
             /\ \/ Tells(a.event, row'[a.event.key]) \/ a.late
                \/ \E d \in Clients : Latest(d, a.event.key)'
  <2>1. a \in affected[p] /\ a.event.key \in Keys
    BY Zenon, AffectedKey
  <2> QED
    BY Zenon, <2>1, CalmFacts DEF LateMarked, Calm
<1> QED
  BY Zenon, <1>1, <1>2 DEF LateMarked

\* What is underway for a key because of a client stays so in a calm step.
LEMMA CalmUnderway ==
    ASSUME Calm, NEW k \in Keys, Underway(k),
           \A p \in Replicas : \A a \in affected[p] : a.event.key = k => Underway(k)',
           \A p \in Replicas : \A n \in 1..Len(fan[p]) :
               k \in FindByImageRef(fan[p][n]) => Underway(k)'
    PROVE  Underway(k)'
<1>1. ASSUME NEW c \in Clients, At(c, "publish"), k \in Shown(req[c].key) PROVE Underway(k)'
  <2>1. At(c, "publish")' /\ req'[c] = req[c]
    BY Zenon, <1>1 DEF Calm
  <2>2. k \in Shown(req[c].key)'
    BY Zenon, <1>1, <2>1, CalmFacts DEF Shown, FindByImageRef, Calm
  <2> QED
    BY Zenon, <2>1, <2>2 DEF Underway
<1> QED
  BY Zenon, <1>1 DEF Underway

-----------------------------------------------------------------------------
\* The steps that leave rows and requests alone, and those of requests that do
\* not commit.
LEMMA CalmStep ==
    ASSUME VersionInv, WatchInv, Calm, UNCHANGED watchVars
    PROVE  LateMarked' /\ LastTells' /\ InformersKnow'
<1>1. UNCHANGED <<bus, fan, fetched, affected, watch, view, astray, missed>>
  BY Zenon DEF watchVars
<1>2. LateMarked'
  BY Zenon, <1>1, CalmLate DEF WatchInv, TypeOK
<1>3. ASSUME NEW k \in Keys, Published(k)' PROVE Published(k)
  <2>1. ASSUME Underway(k) PROVE Underway(k)'
    <3>1. \A p \in Replicas : \A a \in affected[p] : a.event.key = k => Underway(k)'
      BY Zenon, <1>1 DEF Underway
    <3>2. \A p \in Replicas : \A n \in 1..Len(fan[p]) :
             k \in FindByImageRef(fan[p][n]) => Underway(k)'
      <4>1. \A r : FindByImageRef(r)' = FindByImageRef(r)
        BY Zenon, CalmFacts
      <4>2. \A p \in Replicas : \A n \in 1..Len(fan[p]) :
               k \in FindByImageRef(fan[p][n]) => k \in FindByImageRef(fan[p][n])'
        BY Zenon, <1>1 DEF Calm, FindByImageRef
      <4> QED
        BY Zenon, <1>1, <4>2 DEF Underway
    <3> QED
      BY Zenon, <2>1, <3>1, <3>2, CalmUnderway
  <2> QED
    BY Zenon, <1>1, <1>3, <2>1 DEF Published
<1>4. LastTells' /\ InformersKnow'
  <2>1. \A k \in Keys : row'[k] = row[k] /\ Read(k)' = Read(k)
    BY Zenon, CalmFacts DEF Calm
  <2> QED
    BY Zenon, <1>1, <1>3, <2>1, Withdrawn DEF WatchInv
<1> QED
  BY Zenon, <1>2, <1>4

\* A commit: the message on it is to be published, and is the latest of its key.
LEMMA CommitStep ==
    ASSUME VersionInv, WatchInv, NEW c \in Clients, NEW k, NEW type, NEW o,
           Commits(c, k, type, o), ~At(c, "publish"), UNCHANGED watchVars, ContentsOK'
    PROVE  LateMarked' /\ LastTells' /\ InformersKnow'
<1>1. UNCHANGED <<bus, fan, fetched, affected, watch, view, astray, missed>>
  BY Zenon DEF watchVars
<1>2. /\ type \in Types /\ k \in Keys /\ o \in Objects
      /\ \A d \in Clients : d # c => req'[d] = req[d]
      /\ req'[c].step = "publish" /\ req'[c].key = k
      /\ req'[c].obj = o /\ req'[c].type = type
  BY Zenon, CommitEffect
<1>3. /\ row'[k] = IF type = "Deleted" THEN NoObject ELSE o
      /\ \A l \in Keys : l # k => row'[l] = row[l]
      /\ row \in [Keys -> Objects \cup {NoObject}]
  BY Zenon, <1>2 DEF Commits, Commit, VersionInv, StoreTypeOK
<1>4. req'[c].before = {d \in Clients \ {c} : At(d, "publish")}
  BY Zenon DEF Commits, Commit, VersionInv, StoreTypeOK
<1>5. Latest(c, k)'
  <2>1. NoObject \notin Objects
    BY StoreAssumption
  <2> QED
    BY Zenon, <1>2, <1>3, <2>1 DEF Latest, At, Tells
<1>6. ASSUME NEW d \in Clients, d # c
      PROVE  /\ At(d, "publish")' <=> At(d, "publish")
             /\ req'[d] = req[d]
             /\ \A l \in Keys : l # k => (Latest(d, l)' <=> Latest(d, l))
  BY Zenon, <1>2, <1>3, <1>6 DEF At, Latest
<1>7. LateMarked'
  <2>1. ASSUME NEW d \in Clients, At(d, "publish")'
        PROVE  \/ Latest(d, req[d].key)' \/ req'[d].late
               \/ \E x \in Clients : Latest(x, req[d].key)' /\ d \in req'[x].before
    <3>1. CASE d = c
      <4>1. Latest(d, req[d].key)'
        BY Zenon, <1>2, <1>5, <3>1 DEF Latest
      <4> QED
        BY Zenon, <4>1
    <3>2. CASE d # c /\ req[d].key = k
      <4>1. d \in req'[c].before
        BY Zenon, <1>4, <1>6, <2>1, <3>2
      <4>2. Latest(c, req[d].key)'
        <5>1. req'[d].key = k
          BY Zenon, <1>6, <3>2
        <5> QED
          BY Zenon, <1>5, <5>1 DEF Latest
      <4> QED
        BY Zenon, <4>1, <4>2
    <3>3. CASE d # c /\ req[d].key # k
      <4>1. At(d, "publish") /\ req'[d] = req[d]
        BY Zenon, <1>6, <2>1, <3>3
      <4>2. PICK l \in Keys : l = req[d].key /\ l # k
        BY Zenon, <3>3 DEF VersionInv, StoreTypeOK, Requests
      <4>3. \/ Latest(d, l) \/ req[d].late
            \/ \E x \in Clients : Latest(x, l) /\ d \in req[x].before
        BY Zenon, <4>1, <4>2 DEF WatchInv, LateMarked
      <4>4. \A x \in Clients : Latest(x, l) => Latest(x, l)' /\ req'[x].before = req[x].before
        <5>1. ~Latest(c, l)
          BY Zenon DEF Latest
        <5> QED
          BY Zenon, <1>6, <4>2, <5>1
      <4>5. \A x \in Clients : Latest(x, l)' => Latest(x, req[d].key)'
        BY Zenon, <4>1, <4>2 DEF Latest
      <4> QED
        BY Zenon, <4>1, <4>3, <4>4, <4>5
    <3> QED
      BY Zenon, <3>1, <3>2, <3>3
  <2>2. ASSUME NEW p \in Replicas, NEW a \in affected'[p]
        PROVE  /\ a.event.type = "Modified"
               /\ \/ Tells(a.event, row'[a.event.key]) \/ a.late
                  \/ \E d \in Clients : Latest(d, a.event.key)'
    <3>1. a \in affected[p]
      BY Zenon, <1>1
    <3>2. PICK l \in Keys : l = a.event.key
      BY Zenon, <3>1, AffectedKey DEF WatchInv, TypeOK
    <3>3. /\ a.event.type = "Modified"
          /\ Tells(a.event, row[l]) \/ a.late \/ \E d \in Clients : Latest(d, l)
      BY Zenon, <3>1, <3>2 DEF WatchInv, LateMarked
    <3>4. CASE l = k
      BY Zenon, <1>5, <3>2, <3>3, <3>4
    <3>5. CASE l # k
      <4>1. \A d \in Clients : Latest(d, l) => Latest(d, l)'
        BY Zenon, <1>6, <3>5 DEF Latest
      <4> QED
        BY Zenon, <1>3, <3>2, <3>3, <3>5, <4>1
    <3> QED
      BY Zenon, <3>4, <3>5
  <2> QED
    BY Zenon, <2>1, <2>2 DEF LateMarked
<1>8. ASSUME NEW l \in Keys, Published(l)'
      PROVE  Published(l) /\ row'[l] = row[l] /\ Read(l)' = Read(l)
  <2>1. l \notin Shown(k)'
    <3>1. At(c, "publish")' /\ req'[c].key = k
      BY Zenon, <1>2 DEF At
    <3>2. l \in Shown(k)' => l \in Shown(req[c].key)'
      BY Zenon, <3>1 DEF Shown, FindByImageRef
    <3> QED
      BY Zenon, <1>8, <3>1, <3>2 DEF Published, Underway
  <2>2. l # k /\ row'[l] = row[l]
    BY Zenon, <1>3, <2>1 DEF Shown
  <2>3. \A r : l \in FindByImageRef(r) <=> l \in FindByImageRef(r)'
    BY Zenon, <2>2 DEF FindByImageRef
  <2>4. Published(l)
    <3>1. ASSUME NEW d \in Clients, At(d, "publish"), l \in Shown(req[d].key)
          PROVE  Underway(l)'
      <4>1. At(d, "publish")' /\ req'[d] = req[d]
        BY Zenon, <1>6, <3>1
      <4>2. l \in Shown(req[d].key)'
        BY Zenon, <2>2, <3>1, <4>1 DEF Shown, FindByImageRef
      <4> QED
        BY Zenon, <4>1, <4>2 DEF Underway
    <3>2. ASSUME NEW p \in Replicas, NEW n \in 1..Len(fan[p]), l \in FindByImageRef(fan[p][n])
          PROVE  Underway(l)'
      <4>1. l \in FindByImageRef(fan[p][n])' /\ n \in 1..Len(fan'[p])
        BY Zenon, <1>1, <2>2, <3>2 DEF FindByImageRef
      <4> QED
        BY Zenon, <4>1 DEF Underway
    <3>3. ASSUME NEW p \in Replicas, NEW a \in affected[p], a.event.key = l
          PROVE  Underway(l)'
      BY Zenon, <1>1, <3>3 DEF Underway
    <3> QED
      BY Zenon, <1>1, <1>8, <3>1, <3>2, <3>3 DEF Published, Underway
  <2>5. Read(l)' = Read(l)
    <3>1. CASE row[l] = NoObject
      BY Zenon, <2>2, <3>1 DEF Read
    <3>2. CASE row[l] # NoObject
      <4>1. row[l].val \subseteq Reports /\ row[l].val \in Contents(l)
        BY Zenon, <1>3, <3>2 DEF Objects, WatchInv, ContentsOK
      <4>2. k \notin row[l].val
        <5>1. SUFFICES ASSUME k \in row[l].val PROVE FALSE
          OBVIOUS
        <5>2. l \in Workloads
          BY Zenon, <4>1, <5>1 DEF Contents
        <5> QED
          BY Zenon, <2>1, <2>2, <3>2, <4>1, <5>1, <5>2 DEF Shown, FindByImageRef
      <4>3. \A r \in row[l].val : row'[r] = row[r]
        BY Zenon, <1>3, <4>1, <4>2 DEF Keys
      <4>4. {row'[r] : r \in row[l].val} = {row[r] : r \in row[l].val}
        BY Zenon, <4>3
      <4> QED
        BY Zenon, <2>2, <3>2, <4>4 DEF Read, populateContainerResults
    <3> QED
      BY Zenon, <3>1, <3>2
  <2> QED
    BY Zenon, <2>2, <2>4, <2>5
<1>9. LastTells' /\ InformersKnow'
  BY Zenon, <1>1, <1>8, Withdrawn DEF WatchInv
<1> QED
  BY Zenon, <1>7, <1>9

-----------------------------------------------------------------------------
\* What publishing marks: nothing is left unmarked that the message published
\* was the only one to make up for.
LEMMA DoneLate ==
    ASSUME VersionInv, WatchInv, NEW c \in Clients, At(c, "publish"), Done(c),
           UNCHANGED <<seq, row, taken>>
    PROVE  LateMarked'
<1>1. /\ ~At(c, "publish")' /\ \A d \in Clients \ {c} : Same(d)
      /\ \A d \in Clients \ {c} : req'[d].before = req[d].before \ {c}
      /\ \A d \in Clients \ {c} :
            \/ req[d].late
            \/ /\ At(d, "publish") /\ req[d].key = req[c].key /\ d \in req[c].before
               /\ \/ "Deleted" \in {req[d].type, req[c].type}
                  \/ req[d].obj.uid # req[c].obj.uid
            => req'[d].late
  BY Zenon, DoneEffect DEF WatchInv, TypeOK
<1>2. ASSUME NEW d \in Clients, d # c
      PROVE  /\ At(d, "publish")' <=> At(d, "publish")
             /\ req'[d].key = req[d].key
             /\ \A k \in Keys : Latest(d, k)' <=> Latest(d, k)
  BY Zenon, <1>1, <1>2 DEF Same, At, Latest, Tells
<1>3. PICK l \in Keys : l = req[c].key
  BY DEF VersionInv, StoreTypeOK, Requests
<1>4. ASSUME NEW d \in Clients, At(d, "publish")'
      PROVE  \/ Latest(d, req[d].key)' \/ req'[d].late
             \/ \E x \in Clients : Latest(x, req[d].key)' /\ d \in req'[x].before
  <2>1. d # c /\ At(d, "publish") /\ req'[d].key = req[d].key
    BY Zenon, <1>1, <1>2, <1>4
  <2>2. PICK k \in Keys : k = req[d].key
    BY Zenon DEF VersionInv, StoreTypeOK, Requests
  <2>3. \A x \in Clients : Latest(x, k)' <=> Latest(x, req[d].key)'
    BY Zenon, <2>1, <2>2 DEF Latest
  <2>4. CASE Latest(d, k) \/ req[d].late
    BY Zenon, <1>1, <1>2, <2>1, <2>3, <2>4
  <2>5. ASSUME NEW x \in Clients, x # c, Latest(x, k), d \in req[x].before
        PROVE  Latest(x, k)' /\ d \in req'[x].before
    BY Zenon, <1>1, <1>2, <2>1, <2>5
  <2>6. ASSUME Latest(c, k), d \in req[c].before, ~Latest(d, k) PROVE req'[d].late
    <3>1. req[c].key = k /\ Tells(req[c], row[k]) /\ ~Tells(req[d], row[k])
      BY Zenon, <2>1, <2>2, <2>6 DEF Latest
    <3>2. "Deleted" \in {req[d].type, req[c].type} \/ req[d].obj.uid # req[c].obj.uid
      BY Zenon, <3>1 DEF Tells
    <3> QED
      BY Zenon, <1>1, <2>1, <2>2, <2>6, <3>1, <3>2
  <2>7. \/ Latest(d, k) \/ req[d].late
        \/ \E x \in Clients : Latest(x, k) /\ d \in req[x].before
    BY Zenon, <2>1, <2>2 DEF WatchInv, LateMarked
  <2> QED
    BY Zenon, <2>3, <2>4, <2>5, <2>6, <2>7
<1>5. ASSUME NEW p \in Replicas, NEW b \in affected'[p]
      PROVE  /\ b.event.type = "Modified"
             /\ \/ Tells(b.event, row'[b.event.key]) \/ b.late
                \/ \E d \in Clients : Latest(d, b.event.key)'
  <2>1. PICK a \in affected[p] :
           /\ b.event = a.event
           /\ \/ a.late
              \/ /\ a.event.key = req[c].key
                 /\ \/ "Deleted" \in {"Modified", req[c].type}
                    \/ a.event.obj.uid # req[c].obj.uid
              => b.late
    BY Zenon, DoneAffected DEF WatchInv, TypeOK
  <2>2. PICK k \in Keys : k = a.event.key
    BY Zenon, AffectedKey DEF WatchInv, TypeOK
  <2>3. /\ a.event.type = "Modified"
        /\ Tells(a.event, row[k]) \/ a.late \/ \E d \in Clients : Latest(d, k)
    BY Zenon, <2>2 DEF WatchInv, LateMarked
  <2>4. ASSUME Latest(c, k), ~Tells(a.event, row[k]) PROVE b.late
    <3>1. req[c].key = k /\ Tells(req[c], row[k])
      BY Zenon, <2>4 DEF Latest
    <3>2. "Deleted" \in {"Modified", req[c].type} \/ a.event.obj.uid # req[c].obj.uid
      BY Zenon, <2>3, <2>4, <3>1 DEF Tells
    <3> QED
      BY Zenon, <2>1, <2>2, <3>1, <3>2
  <2>5. \A d \in Clients : d # c /\ Latest(d, k) => Latest(d, k)'
    BY Zenon, <1>2
  <2> QED
    BY Zenon, <2>1, <2>2, <2>3, <2>4, <2>5
<1> QED
  BY Zenon, <1>4, <1>5 DEF LateMarked

\* What stays underway when the request of c is done.
LEMMA DoneUnderway ==
    ASSUME VersionInv, WatchInv, NEW c \in Clients, At(c, "publish"), Done(c),
           UNCHANGED <<seq, row, taken>>, NEW k \in Keys, Underway(k)
    PROVE  \/ Underway(k)' \/ k \in Shown(req[c].key)
           \/ \E p \in Replicas : \E n \in 1..Len(fan[p]) : k \in FindByImageRef(fan[p][n])
<1>1. ASSUME NEW d \in Clients, d # c, At(d, "publish"), k \in Shown(req[d].key)
      PROVE  Underway(k)'
  <2>1. At(d, "publish")' /\ req'[d].key = req[d].key
    BY Zenon, <1>1, DoneEffect DEF WatchInv, TypeOK, Same, At
  <2>2. k \in Shown(req[d].key)'
    BY Zenon, <1>1, <2>1 DEF Shown, FindByImageRef
  <2> QED
    BY Zenon, <2>1, <2>2 DEF Underway
<1>2. ASSUME NEW p \in Replicas, NEW a \in affected[p], a.event.key = k
      PROVE  Underway(k)'
  <2>1. PICK b \in affected'[p] : b.event = a.event
    BY Zenon, DoneAffected DEF WatchInv, TypeOK
  <2> QED
    BY Zenon, <1>2, <2>1 DEF Underway
<1> QED
  BY Zenon, <1>1, <1>2 DEF Underway

\* The event on a write is published.
LEMMA PublishStep ==
    ASSUME VersionInv, WatchInv, NEW c \in Clients, Publish(c)
    PROVE  LateMarked' /\ LastTells' /\ InformersKnow'
<1>0. PICK e \in Events :
         e = [type |-> req[c].type, key |-> req[c].key, obj |-> req[c].obj]
  <2>1. req[c] \in Requests /\ req[c].obj \in Objects
    BY Zenon DEF Publish, VersionInv, StoreTypeOK, WritersOK, At
  <2> QED
    BY Zenon, <2>1 DEF Requests, Events
<1>1. /\ At(c, "publish") /\ Done(c) /\ UNCHANGED <<seq, row, taken>>
      /\ Deliver(e, req[c].late)
      /\ UNCHANGED <<row, fetched, watch, view, missed>>
  BY Zenon, <1>0 DEF Publish, viewVars
<1>2. LateMarked'
  BY Zenon, <1>1, DoneLate
<1>3. e.key = req[c].key /\ e.key \in Keys /\ \A x : Tells(e, x) <=> Tells(req[c], x)
  BY Zenon, <1>0 DEF Events, Tells
<1>4. astray' = IF req[c].late THEN astray \cup {e.key} ELSE astray \ {e.key}
  BY Zenon, <1>1 DEF Deliver
<1>5. ASSUME NEW k \in Keys \ {e.key}, Published(k)', NEW p \in Replicas PROVE Published(k)
  <2>1. SUFFICES ASSUME Underway(k) PROVE Underway(k)'
    BY Zenon, <1>4, <1>5 DEF Published
  <2>2. ASSUME NEW q \in Replicas
        PROVE  /\ \A n \in 1..Len(fan[q]) : n \in 1..Len(fan'[q]) /\ fan'[q][n] = fan[q][n]
               /\ e.key \in Reports => \E n \in 1..Len(fan'[q]) : fan'[q][n] = e.key
    <3>1. fan[q] \in Seq(Reports)
      BY Zenon DEF WatchInv, TypeOK, WatchTypeOK
    <3>2. CASE e.key \in Reports
      <4>1. fan'[q] = Append(fan[q], e.key)
        BY Zenon, <1>3, <3>2 DEF Publish
      <4>2. PICK s \in Seq(Reports) : s = fan[q]
        BY Zenon, <3>1
      <4>3. PICK t : t = fan'[q]
        BY Zenon
      <4>4. /\ Len(s) \in Nat /\ Len(t) = Len(s) + 1
            /\ \A n \in 1..Len(s) : t[n] = s[n]
            /\ t[Len(s) + 1] = e.key
        <5>1. t = Append(s, e.key)
          BY Zenon, <4>1, <4>2, <4>3
        <5> QED
          BY <3>2, <5>1, AppendedTo
      <4>5. (\A n \in 1..Len(s) : n \in 1..Len(t)) /\ Len(s) + 1 \in 1..Len(t)
        BY Zenon, <4>4, OneMore
      <4> QED
        BY Zenon, <4>2, <4>3, <4>4, <4>5
    <3>3. CASE e.key \notin Reports
      BY Zenon, <1>3, <3>3 DEF Publish
    <3> QED
      BY Zenon, <3>2, <3>3
  <2>3. ASSUME NEW q \in Replicas, NEW n \in 1..Len(fan[q]), k \in FindByImageRef(fan[q][n])
        PROVE  Underway(k)'
    <3>1. n \in 1..Len(fan'[q]) /\ fan'[q][n] = fan[q][n]
      BY Zenon, <2>2
    <3>2. k \in FindByImageRef(fan[q][n])'
      BY Zenon, <1>1, <2>3, <3>1 DEF FindByImageRef
    <3> QED
      BY Zenon, <3>1, <3>2 DEF Underway
  <2>4. ASSUME k \in Shown(req[c].key) PROVE Underway(k)'
    <3>1. e.key \in Reports /\ k \in FindByImageRef(e.key)
      BY Zenon, <1>3, <2>4 DEF Shown
    <3>2. PICK n \in 1..Len(fan'[p]) : fan'[p][n] = e.key
      BY Zenon, <2>2, <3>1
    <3>3. k \in FindByImageRef(fan[p][n])'
      BY Zenon, <1>1, <3>1, <3>2 DEF FindByImageRef
    <3> QED
      BY Zenon, <3>3 DEF Underway
  <2> QED
    BY Zenon, <1>1, <2>1, <2>3, <2>4, DoneUnderway
<1>6. ASSUME Published(e.key)' PROVE Tells(e, row[e.key])
  <2>1. ~req[c].late
    BY Zenon, <1>4, <1>6 DEF Published
  <2>2. ASSUME NEW d \in Clients, d # c, Latest(d, e.key) PROVE FALSE
    <3>1. At(d, "publish")' /\ req'[d].key = e.key
      <4>1. At(d, "publish") /\ req[d].key = e.key
        BY Zenon, <2>2 DEF Latest
      <4>2. Same(d)
        BY Zenon, <1>1, <2>2, DoneEffect DEF WatchInv, TypeOK
      <4> QED
        BY Zenon, <4>1, <4>2 DEF Same, At
    <3>2. e.key \in Shown(req[d].key)'
      BY Zenon, <3>1 DEF Shown
    <3> QED
      BY Zenon, <1>6, <3>1, <3>2 DEF Published, Underway
  <2>3. Latest(c, e.key)
    BY Zenon, <1>1, <1>3, <2>1, <2>2 DEF WatchInv, LateMarked
  <2> QED
    BY Zenon, <1>3, <2>3 DEF Latest
<1>7. LastTells' /\ InformersKnow'
  <2>1. CASE Replicas = {}
    <3>1. Informers = {}
      BY Zenon, <2>1 DEF WatchInv, TypeOK, WatchTypeOK
    <3> QED
      BY Zenon, <2>1, <3>1 DEF LastTells, InformersKnow
  <2>2. CASE Replicas # {}
    <3>1. \A k \in Keys \ {e.key} : Published(k)' => Published(k)
      BY Zenon, <1>5, <2>2
    <3> QED
      BY Zenon, <1>1, <1>3, <1>6, <3>1, Delivered DEF WatchInv, TypeOK
  <2> QED
    BY Zenon, <2>1, <2>2
<1> QED
  BY Zenon, <1>2, <1>7

\* The event on a write is lost: the keys it is about are astray.
LEMMA PublishLostStep ==
    ASSUME VersionInv, WatchInv, NEW c \in Clients, PublishLost(c)
    PROVE  LateMarked' /\ LastTells' /\ InformersKnow'
<1>1. /\ At(c, "publish") /\ Done(c) /\ UNCHANGED <<seq, row, taken>>
      /\ astray' = astray \cup Shown(req[c].key)
      /\ UNCHANGED <<bus, fan, fetched, watch, view, missed>>
  BY Zenon DEF PublishLost, viewVars
<1>2. LateMarked'
  BY Zenon, <1>1, DoneLate
<1>3. ASSUME NEW k \in Keys, Published(k)' PROVE Published(k)
  <2>1. ASSUME NEW p \in Replicas, NEW n \in 1..Len(fan[p]), k \in FindByImageRef(fan[p][n])
        PROVE  Underway(k)'
    <3>1. k \in FindByImageRef(fan[p][n])' /\ n \in 1..Len(fan'[p])
      BY Zenon, <1>1, <2>1 DEF FindByImageRef
    <3> QED
      BY Zenon, <3>1 DEF Underway
  <2>2. k \notin astray /\ k \notin Shown(req[c].key) /\ ~Underway(k)'
    BY Zenon, <1>1, <1>3 DEF Published
  <2> QED
    BY Zenon, <1>1, <2>1, <2>2, DoneUnderway DEF Published
<1>4. \A k \in Keys : row'[k] = row[k] /\ Read(k)' = Read(k)
  BY Zenon, <1>1 DEF Read, populateContainerResults
<1> QED
  BY Zenon, <1>1, <1>2, <1>3, <1>4, Withdrawn DEF WatchInv

-----------------------------------------------------------------------------
\* What a replica looks for and finds for a report is underway all along.
LEMMA FindAffectedStep ==
    ASSUME VersionInv, WatchInv, NEW p \in Replicas, FindAffected(p)
    PROVE  LateMarked' /\ LastTells' /\ InformersKnow'
<1> DEFINE r == Head(fan[p])
           New(k) == [event |-> [type |-> "Modified", key |-> k, obj |-> row[k]], late |-> FALSE]
<1>1. /\ fan[p] # <<>> /\ affected[p] = {} /\ fan' = [fan EXCEPT ![p] = Tail(@)]
      /\ affected' = [affected EXCEPT ![p] = {New(k) : k \in FindByImageRef(r)}]
      /\ UNCHANGED <<row, req, bus, fetched, watch, view, astray, missed>>
  BY Zenon DEF FindAffected, viewVars
<1>2. /\ affected'[p] = {New(k) : k \in FindByImageRef(r)}
      /\ \A q \in Replicas \ {p} : affected'[q] = affected[q] /\ fan'[q] = fan[q]
      /\ fan'[p] = Tail(fan[p])
  BY Zenon, <1>1 DEF WatchInv, TypeOK, WatchTypeOK
<1>3. Calm
  BY Zenon, <1>1 DEF Calm, At
<1>4. LateMarked'
  <2>1. ASSUME NEW q \in Replicas, NEW a \in affected'[q]
        PROVE  /\ a.event.type = "Modified"
               /\ \/ Tells(a.event, row'[a.event.key]) \/ a.late
                  \/ \E d \in Clients : Latest(d, a.event.key)'
    <3>1. CASE q # p
      <4>1. a \in affected[q] /\ a.event.key \in Keys
        <5>1. a \in affected[q] /\ a \in [event : Events, late : BOOLEAN]
          BY Zenon, <1>2, <2>1, <3>1 DEF WatchInv, TypeOK, WatchTypeOK
        <5> QED
          BY Zenon, <5>1 DEF Events
      <4> QED
        BY Zenon, <1>1, <1>3, <4>1, CalmFacts DEF WatchInv, LateMarked
    <3>2. CASE q = p
      <4>1. PICK k \in FindByImageRef(r) : a = New(k)
        BY Zenon, <1>2, <3>2
      <4>2. row[k] # NoObject
        BY Zenon, <4>1 DEF FindByImageRef
      <4>3. a.event.type = "Modified" /\ a.event.key = k /\ a.event.obj = row[k]
        BY Zenon, <4>1
      <4>4. a.event.type # "Deleted"
        BY Zenon, <4>3
      <4> QED
        BY Zenon, <1>1, <4>2, <4>3, <4>4 DEF Tells
    <3> QED
      BY Zenon, <3>1, <3>2
  <2>2. ASSUME NEW c \in Clients, At(c, "publish")'
        PROVE  \/ Latest(c, req[c].key)' \/ req'[c].late
               \/ \E d \in Clients : Latest(d, req[c].key)' /\ c \in req'[d].before
    BY Zenon, <1>1, <2>2 DEF WatchInv, LateMarked, Latest, At
  <2> QED
    BY Zenon, <2>1, <2>2 DEF LateMarked
<1>5. ASSUME NEW k \in Keys, Published(k)' PROVE Published(k)
  <2>1. ASSUME NEW q \in Replicas, NEW a \in affected[q], a.event.key = k PROVE Underway(k)'
    <3>1. a \in affected'[q]
      BY Zenon, <1>1, <1>2
    <3> QED
      BY Zenon, <2>1, <3>1 DEF Underway
  <2>2. ASSUME NEW q \in Replicas, NEW n \in 1..Len(fan[q]), k \in FindByImageRef(fan[q][n])
        PROVE  Underway(k)'
    <3>1. CASE q # p
      <4>1. k \in FindByImageRef(fan[q][n])' /\ n \in 1..Len(fan'[q])
        BY Zenon, <1>1, <1>2, <2>2, <3>1 DEF FindByImageRef
      <4> QED
        BY Zenon, <4>1 DEF Underway
    <3>2. fan[p] \in Seq(Reports) /\ fan[p] # <<>>
      BY Zenon, <1>1 DEF WatchInv, TypeOK, WatchTypeOK
    <3>3. CASE q = p /\ fan[p][n] = r
      <4>1. New(k) \in affected'[p]
        BY Zenon, <1>2, <2>2, <3>3
      <4>2. New(k).event.key = k
        BY Zenon
      <4> HIDE DEF New
      <4> QED
        BY Zenon, <4>1, <4>2 DEF Underway
    <3>4. CASE q = p /\ fan[p][n] # r
      <4>1. PICK m \in 1..Len(fan'[p]) : fan'[p][m] = fan[p][n]
        <5>1. PICK s \in Seq(Reports) : s = fan[p]
          BY Zenon, <3>2
        <5>2. /\ Head(s) = s[1] /\ Len(s) \in Nat /\ Len(Tail(s)) = Len(s) - 1
              /\ \A m \in 1..Len(Tail(s)) : Tail(s)[m] = s[m + 1]
          BY Zenon, <3>2, <5>1, Shifted
        <5>3. n \in 1..Len(s) /\ s[n] # s[1]
          BY Zenon, <2>2, <3>4, <5>1, <5>2
        <5>4. n # 1
          BY Zenon, <5>3
        <5>5. n - 1 \in 1..Len(Tail(s)) /\ (n - 1) + 1 = n
          BY Zenon, <5>2, <5>3, <5>4, PlaceBefore
        <5>6. fan'[p] = Tail(s) /\ fan[p] = s
          BY Zenon, <1>2, <5>1
        <5>7. Tail(s)[n - 1] = s[n]
          BY Zenon, <5>2, <5>5
        <5> QED
          BY Zenon, <5>5, <5>6, <5>7
      <4>2. k \in FindByImageRef(fan[p][m])'
        BY Zenon, <1>1, <2>2, <3>4, <4>1 DEF FindByImageRef
      <4> QED
        BY Zenon, <4>2 DEF Underway
    <3> QED
      BY Zenon, <3>1, <3>3, <3>4
  <2>3. Underway(k) => Underway(k)'
    BY Zenon, <1>3, <2>1, <2>2, CalmUnderway
  <2> QED
    BY Zenon, <1>1, <1>5, <2>3 DEF Published
<1>6. \A k \in Keys : row'[k] = row[k] /\ Read(k)' = Read(k)
  BY Zenon, <1>3, CalmFacts DEF Calm
<1> QED
  BY Zenon, <1>1, <1>4, <1>5, <1>6, Withdrawn DEF WatchInv

LEMMA PublishAffectedStep ==
    ASSUME VersionInv, WatchInv, NEW p \in Replicas, PublishAffected(p)
    PROVE  LateMarked' /\ LastTells' /\ InformersKnow'
<1>1. PICK a \in affected[p] :
         Deliver(a.event, a.late) /\ affected' = [affected EXCEPT ![p] = @ \ {a}]
  BY Zenon DEF PublishAffected
<1>2. UNCHANGED <<row, req, fan, fetched, watch, view, missed>>
  BY Zenon DEF PublishAffected, viewVars
<1>3. PICK e \in Events : e = a.event
  BY Zenon, AffectedKey DEF WatchInv, TypeOK
<1>4. /\ affected'[p] = affected[p] \ {a}
      /\ \A q \in Replicas \ {p} : affected'[q] = affected[q]
  BY Zenon, <1>1 DEF WatchInv, TypeOK, WatchTypeOK
<1>5. Calm
  BY Zenon, <1>2 DEF Calm, At
<1>6. LateMarked'
  <2>1. \A q \in Replicas : affected'[q] \subseteq affected[q]
    BY Zenon, <1>4
  <2> QED
    BY Zenon, <1>5, <2>1, CalmLate DEF WatchInv, TypeOK
<1>7. astray' = IF a.late THEN astray \cup {e.key} ELSE astray \ {e.key}
  BY Zenon, <1>1, <1>3 DEF Deliver
<1>8. ASSUME NEW k \in Keys \ {e.key}, Published(k)' PROVE Published(k)
  <2>1. ASSUME NEW q \in Replicas, NEW b \in affected[q], b.event.key = k PROVE Underway(k)'
    <3>1. b \in affected'[q]
      BY Zenon, <1>3, <1>4, <2>1
    <3> QED
      BY Zenon, <2>1, <3>1 DEF Underway
  <2>2. ASSUME NEW q \in Replicas, NEW n \in 1..Len(fan[q]), k \in FindByImageRef(fan[q][n])
        PROVE  Underway(k)'
    <3>1. k \in FindByImageRef(fan[q][n])' /\ n \in 1..Len(fan'[q])
      BY Zenon, <1>2, <2>2 DEF FindByImageRef
    <3> QED
      BY Zenon, <3>1 DEF Underway
  <2>3. Underway(k) => Underway(k)'
    BY Zenon, <1>5, <2>1, <2>2, CalmUnderway
  <2> QED
    BY Zenon, <1>7, <1>8, <2>3 DEF Published
<1>9. ASSUME Published(e.key)' PROVE Tells(e, row[e.key])
  <2>1. ~a.late
    BY Zenon, <1>7, <1>9 DEF Published
  <2>2. ASSUME NEW d \in Clients, Latest(d, e.key) PROVE FALSE
    <3>1. At(d, "publish")' /\ e.key \in Shown(req[d].key)'
      BY Zenon, <1>2, <2>2 DEF Latest, Shown, At
    <3> QED
      BY Zenon, <1>9, <3>1 DEF Published, Underway
  <2> QED
    BY Zenon, <1>3, <2>1, <2>2 DEF WatchInv, LateMarked
<1>10. Deliver(e, a.late)
  BY Zenon, <1>1, <1>3
<1> QED
  BY Zenon, <1>2, <1>6, <1>8, <1>9, <1>10, Delivered DEF WatchInv, TypeOK

LEMMA ReportMessageLostStep ==
    ASSUME VersionInv, WatchInv, NEW p \in Replicas, ReportMessageLost(p)
    PROVE  LateMarked' /\ LastTells' /\ InformersKnow'
<1>1. /\ fan[p] # <<>> /\ fan' = [fan EXCEPT ![p] = Tail(@)]
      /\ astray' = astray \cup FindByImageRef(Head(fan[p]))
      /\ UNCHANGED <<row, req, bus, fetched, affected, watch, view, missed>>
  BY Zenon DEF ReportMessageLost, viewVars
<1>2. /\ fan[p] \in Seq(Reports) /\ fan'[p] = Tail(fan[p])
      /\ \A q \in Replicas \ {p} : fan'[q] = fan[q]
  BY Zenon, <1>1 DEF WatchInv, TypeOK, WatchTypeOK
<1>3. Calm
  BY Zenon, <1>1 DEF Calm, At
<1>4. LateMarked'
  BY Zenon, <1>1, <1>3, CalmLate DEF WatchInv, TypeOK
<1>5. ASSUME NEW k \in Keys, Published(k)' PROVE Published(k)
  <2>1. k \notin astray /\ k \notin FindByImageRef(Head(fan[p])) /\ ~Underway(k)'
    BY Zenon, <1>1, <1>5 DEF Published
  <2>2. ASSUME NEW q \in Replicas, NEW n \in 1..Len(fan[q]), k \in FindByImageRef(fan[q][n])
        PROVE  Underway(k)'
    <3>1. PICK m \in 1..Len(fan'[q]) : fan'[q][m] = fan[q][n]
      <4>1. CASE q # p
        BY Zenon, <1>2, <4>1
      <4>2. CASE q = p
        <5>1. fan[p][n] # Head(fan[p])
          BY Zenon, <2>1, <2>2, <4>2
        <5>2. n - 1 \in 1..Len(Tail(fan[p])) /\ Tail(fan[p])[n - 1] = fan[p][n]
          BY <1>1, <1>2, <4>2, <5>1, Shifted
        <5> QED
          BY Zenon, <1>2, <4>2, <5>2
      <4> QED
        BY Zenon, <4>1, <4>2
    <3>2. k \in FindByImageRef(fan[q][m])'
      BY Zenon, <1>1, <2>2, <3>1 DEF FindByImageRef
    <3> QED
      BY Zenon, <3>2 DEF Underway
  <2>3. \A q \in Replicas : \A a \in affected[q] : a.event.key = k => Underway(k)'
    BY Zenon, <1>1 DEF Underway
  <2>4. Underway(k) => Underway(k)'
    BY Zenon, <1>3, <2>2, <2>3, CalmUnderway
  <2> QED
    BY Zenon, <2>1, <2>4 DEF Published
<1>6. \A k \in Keys : row'[k] = row[k] /\ Read(k)' = Read(k)
  BY Zenon, <1>3, CalmFacts DEF Calm
<1> QED
  BY Zenon, <1>1, <1>4, <1>5, <1>6, Withdrawn DEF WatchInv

-----------------------------------------------------------------------------
\* The steps of replicas and informers publish nothing and leave what is
\* underway alone.
LEMMA StillUnderway ==
    ASSUME UNCHANGED <<row, req, fan, affected, astray>>
    PROVE  /\ \A k \in Keys : Published(k)' <=> Published(k)
           /\ \A k : Read(k)' = Read(k)
           /\ LateMarked => LateMarked'
<1>1. \A k : Shown(k)' = Shown(k) /\ FindByImageRef(k)' = FindByImageRef(k) /\ Read(k)' = Read(k)
  BY Zenon DEF Shown, FindByImageRef, Read, populateContainerResults
<1>2. \A k \in Keys : Published(k)' <=> Published(k)
  BY Zenon DEF Published, Underway, Shown, FindByImageRef, At
<1>3. LateMarked => LateMarked'
  BY Zenon DEF LateMarked, Latest, At
<1> QED
  BY Zenon, <1>1, <1>2, <1>3

\* A message of the bus is taken off by replica p.
LEMMA TakenOff ==
    ASSUME WatchTypeOK, NEW p \in Replicas, bus[p] # <<>>,
           bus' = [bus EXCEPT ![p] = Tail(@)]
    PROVE  /\ Head(bus[p]) \in Events
           /\ \A q \in Replicas \ {p} : bus'[q] = bus[q]
           /\ \A k : InBus(p, k) <=> Head(bus[p]).key = k \/ InBus(p, k)'
           /\ \A k : \A n \in 1..Len(bus'[p]) : LastOn(p, n, k)'
                 => \E l \in 1..Len(bus[p]) : bus[p][l] = bus'[p][n] /\ LastOn(p, l, k)
           /\ \A k : Head(bus[p]).key = k /\ ~InBus(p, k)'
                 => \E l \in 1..Len(bus[p]) : bus[p][l] = Head(bus[p]) /\ LastOn(p, l, k)
<1>1. bus[p] \in Seq(Events) /\ bus'[p] = Tail(bus[p])
      /\ \A q \in Replicas \ {p} : bus'[q] = bus[q]
  BY Zenon DEF WatchTypeOK
<1>2. /\ Head(bus[p]) \in Events /\ Head(bus[p]) = bus[p][1]
      /\ Len(bus[p]) \in Nat /\ Len(bus[p]) >= 1 /\ Len(bus'[p]) = Len(bus[p]) - 1
      /\ \A n \in 1..Len(bus'[p]) : bus'[p][n] = bus[p][n + 1]
  <2>1. PICK s \in Seq(Events) : s = bus[p]
    BY Zenon, <1>1
  <2>2. /\ Head(s) \in Events /\ Head(s) = s[1]
        /\ Len(s) \in Nat /\ Len(s) >= 1 /\ Len(Tail(s)) = Len(s) - 1
        /\ \A n \in 1..Len(Tail(s)) : Tail(s)[n] = s[n + 1]
    BY <2>1, Shifted
  <2> QED
    BY Zenon, <1>1, <2>1, <2>2
<1>3. ASSUME NEW m \in 2..Len(bus[p])
      PROVE  m - 1 \in 1..Len(bus'[p]) /\ bus[p][m] = bus'[p][m - 1]
  <2>1. m - 1 \in 1..Len(bus'[p]) /\ (m - 1) + 1 = m
    BY <1>2
  <2> QED
    BY Zenon, <1>2, <2>1
<1>4. ASSUME NEW k PROVE InBus(p, k) <=> Head(bus[p]).key = k \/ InBus(p, k)'
  <2>1. \A n \in 1..Len(bus[p]) : n = 1 \/ n \in 2..Len(bus[p])
    BY <1>2
  <2>2. 1 \in 1..Len(bus[p]) /\ \A n \in 1..Len(bus'[p]) : n + 1 \in 1..Len(bus[p])
    BY <1>2
  <2>3. ASSUME InBus(p, k) PROVE Head(bus[p]).key = k \/ InBus(p, k)'
    BY Zenon, <1>2, <1>3, <2>1, <2>3 DEF InBus
  <2>4. ASSUME Head(bus[p]).key = k \/ InBus(p, k)' PROVE InBus(p, k)
    BY Zenon, <1>2, <2>2, <2>4 DEF InBus
  <2> QED
    BY Zenon, <2>3, <2>4
<1>5. ASSUME NEW k, NEW n \in 1..Len(bus'[p]), LastOn(p, n, k)'
      PROVE  \E l \in 1..Len(bus[p]) : bus[p][l] = bus'[p][n] /\ LastOn(p, l, k)
  <2>1. n + 1 \in 1..Len(bus[p]) /\ bus[p][n + 1] = bus'[p][n]
    BY <1>2
  <2>2. \A m \in (n + 1 + 1)..Len(bus[p]) : bus[p][m].key # k
    <3>1. \A m \in (n + 1 + 1)..Len(bus[p]) : m - 1 \in (n + 1)..Len(bus'[p]) /\ m \in 2..Len(bus[p])
      BY <1>2
    <3> QED
      BY Zenon, <1>3, <1>5, <3>1 DEF LastOn
  <2>3. LastOn(p, n + 1, k)
    BY Zenon, <1>5, <2>1, <2>2 DEF LastOn
  <2> QED
    BY Zenon, <2>1, <2>3
<1>6. ASSUME NEW k, Head(bus[p]).key = k, ~InBus(p, k)'
      PROVE  \E l \in 1..Len(bus[p]) : bus[p][l] = Head(bus[p]) /\ LastOn(p, l, k)
  <2>1. 1 \in 1..Len(bus[p]) /\ \A m \in (1 + 1)..Len(bus[p]) : m \in 2..Len(bus[p])
    BY <1>2
  <2>2. \A m \in (1 + 1)..Len(bus[p]) : bus[p][m].key # k
    BY Zenon, <1>3, <1>6, <2>1 DEF InBus
  <2>3. LastOn(p, 1, k)
    BY Zenon, <1>2, <1>6, <2>2 DEF LastOn
  <2> QED
    BY Zenon, <1>2, <2>1, <2>3
<1> QED
  BY Zenon, <1>1, <1>2, <1>4, <1>5, <1>6

\* A replica takes a message and reads the object again.
LEMMA ProcessMessageStep ==
    ASSUME VersionInv, WatchInv, NEW p \in Replicas, ProcessMessage(p)
    PROVE  LateMarked' /\ LastTells' /\ InformersKnow'
<1>0. PICK e : e = Head(bus[p])
  BY Zenon
<1>1. /\ fetched[p] = NoEvent /\ bus[p] # <<>> /\ bus' = [bus EXCEPT ![p] = Tail(@)]
      /\ fetched' = [fetched EXCEPT ![p] =
            [type |-> e.type, key |-> e.key,
             seen |-> IF e.type = "Deleted" THEN NoObject ELSE Rehydrate(e)]]
      /\ UNCHANGED <<row, req, fan, affected, astray, watch, view>>
  BY Zenon, <1>0 DEF ProcessMessage, fanVars, viewVars
<1>2. WatchTypeOK /\ LastTells /\ InformersKnow /\ LateMarked
  BY Zenon DEF WatchInv, TypeOK
<1>3. /\ \A k \in Keys : Published(k)' <=> Published(k)
      /\ \A k : Read(k)' = Read(k)
      /\ LateMarked'
  BY Zenon, <1>1, <1>2, StillUnderway
<1>4. /\ fetched'[p].key = e.key
      /\ fetched'[p].seen = IF e.type = "Deleted" THEN NoObject ELSE Rehydrate(e)
      /\ \A q \in Replicas \ {p} : fetched'[q] = fetched[q]
  BY <1>1, <1>2 DEF WatchTypeOK
<1>5. /\ \A k : InBus(p, k) <=> e.key = k \/ InBus(p, k)'
      /\ \A q \in Replicas \ {p} : bus'[q] = bus[q]
      /\ e \in Events
  BY Zenon, <1>0, <1>1, <1>2, TakenOff
<1>a. /\ \A k : \A n \in 1..Len(bus'[p]) : LastOn(p, n, k)'
            => \E l \in 1..Len(bus[p]) : bus[p][l] = bus'[p][n] /\ LastOn(p, l, k)
      /\ \A k : e.key = k /\ ~InBus(p, k)'
            => \E l \in 1..Len(bus[p]) : bus[p][l] = e /\ LastOn(p, l, k)
  BY Zenon, <1>0, <1>1, <1>2, TakenOff
<1>6. /\ \A q \in Replicas \ {p} : \A k : (InBus(q, k)' <=> InBus(q, k))
                                          /\ (InHand(q, k)' <=> InHand(q, k))
      /\ \A q \in Replicas \ {p} : \A n, k : LastOn(q, n, k)' <=> LastOn(q, n, k)
      /\ \A k : ~InHand(p, k)
      /\ \A k : InHand(p, k)' => k = e.key
  BY Zenon, <1>1, <1>4, <1>5 DEF InBus, InHand, LastOn
<1>7. \A k : k = e.key => InHand(p, k)'
  <2>1. [type |-> e.type, key |-> e.key,
         seen |-> IF e.type = "Deleted" THEN NoObject ELSE Rehydrate(e)] \in Fetched
    <3>1. (IF e.type = "Deleted" THEN NoObject ELSE Rehydrate(e)) \in Seen \cup {NoObject}
      <4>1. Stripped(e.obj) \in Seen /\ e.key \in Keys
        BY <1>5 DEF Stripped, Seen, Events
      <4>2. Read(e.key) \in Seen \cup {NoObject}
        BY Zenon, <4>1, ReadTyped DEF VersionInv
      <4> QED
        BY Zenon, <4>1, <4>2 DEF Rehydrate
    <3> HIDE DEF Rehydrate
    <3> QED
      BY <1>5, <3>1 DEF Fetched, Events
  <2>2. fetched'[p] # NoEvent
    BY Zenon, <1>1, <1>2, <2>1, WatchAssumption DEF WatchTypeOK
  <2> QED
    BY Zenon, <1>4, <2>2 DEF InHand
<1>8. ASSUME NEW q \in Replicas, NEW k \in Keys, Published(k)'
      PROVE  /\ \A n \in 1..Len(bus'[q]) : LastOn(q, n, k)' => Tells(bus'[q][n], row'[k])
             /\ InHand(q, k)' /\ ~InBus(q, k)' => fetched'[q].seen = Read(k)'
  <2>1. Published(k) /\ row'[k] = row[k] /\ Read(k)' = Read(k)
    BY Zenon, <1>1, <1>3, <1>8
  <2>2. /\ \A n \in 1..Len(bus[q]) : LastOn(q, n, k) => Tells(bus[q][n], row[k])
        /\ InHand(q, k) /\ ~InBus(q, k) => fetched[q].seen = Read(k)
    BY Zenon, <1>2, <2>1 DEF LastTells
  <2>3. CASE q # p
    BY Zenon, <1>4, <1>5, <1>6, <2>1, <2>2, <2>3
  <2>4. CASE q = p
    <3>1. ASSUME NEW n \in 1..Len(bus'[p]), LastOn(p, n, k)' PROVE Tells(bus'[p][n], row'[k])
      <4>1. PICK l \in 1..Len(bus[p]) : bus[p][l] = bus'[p][n] /\ LastOn(p, l, k)
        BY Zenon, <1>a, <3>1
      <4> QED
        BY Zenon, <2>1, <2>2, <2>4, <4>1
    <3>2. ASSUME InHand(p, k)', ~InBus(p, k)' PROVE fetched'[p].seen = Read(k)
      <4>1. e.key = k
        BY Zenon, <1>6, <3>2
      <4>2. PICK l \in 1..Len(bus[p]) : bus[p][l] = e /\ LastOn(p, l, k)
        BY Zenon, <1>a, <3>2, <4>1
      <4>3. Tells(e, row[k])
        BY Zenon, <2>2, <2>4, <4>2
      <4> QED
        BY Zenon, <1>4, <4>1, <4>3 DEF Tells, Rehydrate, Read
    <3> QED
      BY Zenon, <2>1, <2>4, <3>1, <3>2
  <2> QED
    BY Zenon, <2>3, <2>4
<1>9. ASSUME NEW i \in Informers, NEW k \in Keys
      PROVE  /\ watch'[i].step = "off" => view'[i][k] = NoObject
             /\ /\ watch'[i].step # "off" /\ k \notin missed'[i] /\ Published(k)'
                /\ ~InBus(watch[i].replica, k)' /\ ~InHand(watch[i].replica, k)'
                => Believes(i, k)' = Read(k)'
  <2>1. PICK q \in Replicas : q = watch[i].replica /\ watch'[i] = watch[i]
    BY <1>1, <1>2 DEF WatchTypeOK
  <2>2. Believes(i, k)' = Believes(i, k)
    BY Zenon, <1>1 DEF Believes
  <2>3. /\ InBus(watch[i].replica, k)' <=> InBus(q, k)'
        /\ InHand(watch[i].replica, k)' <=> InHand(q, k)'
    BY Zenon, <2>1 DEF InBus, InHand
  <2>4. ASSUME ~InBus(q, k)', ~InHand(q, k)' PROVE ~InBus(q, k) /\ ~InHand(q, k)
    BY Zenon, <1>5, <1>6, <1>7, <2>4
  <2>5. ASSUME ~InHand(q, k)', k \notin missed'[i] PROVE k \notin missed[i]
    <3>1. missed'[i] = missed[i] \/ (q = p /\ missed'[i] = missed[i] \ {e.key})
      BY Zenon, <1>0, <2>1 DEF ProcessMessage
    <3> QED
      BY Zenon, <1>7, <2>5, <3>1
  <2> QED
    BY Zenon, <1>1, <1>2, <1>3, <2>1, <2>2, <2>3, <2>4, <2>5 DEF InformersKnow
<1> QED
  BY Zenon, <1>3, <1>8, <1>9 DEF LastTells, InformersKnow

\* A message is lost: the informers of the replica are not told.
LEMMA MessageLostStep ==
    ASSUME WatchInv, NEW p \in Replicas, MessageLost(p)
    PROVE  LateMarked' /\ LastTells' /\ InformersKnow'
<1>0. PICK e : e = Head(bus[p])
  BY Zenon
<1>1. /\ fetched[p] = NoEvent /\ bus[p] # <<>> /\ bus' = [bus EXCEPT ![p] = Tail(@)]
      /\ UNCHANGED <<row, req, fan, affected, astray, fetched, watch, view>>
      /\ NotTold({i \in Informers : watch[i].replica = p}, e.key)
  BY Zenon, <1>0 DEF MessageLost, fanVars, viewVars
<1>2. WatchTypeOK /\ LastTells /\ InformersKnow /\ LateMarked
  BY Zenon DEF WatchInv, TypeOK
<1>3. /\ \A k \in Keys : Published(k)' <=> Published(k)
      /\ \A k : Read(k)' = Read(k)
      /\ LateMarked'
  BY Zenon, <1>1, <1>2, StillUnderway
<1>5. /\ \A k : InBus(p, k) <=> e.key = k \/ InBus(p, k)'
      /\ \A q \in Replicas \ {p} : bus'[q] = bus[q]
  BY Zenon, <1>0, <1>1, <1>2, TakenOff
<1>a. \A k : \A n \in 1..Len(bus'[p]) : LastOn(p, n, k)'
            => \E l \in 1..Len(bus[p]) : bus[p][l] = bus'[p][n] /\ LastOn(p, l, k)
  BY Zenon, <1>0, <1>1, <1>2, TakenOff
<1>6. /\ \A q \in Replicas \ {p} : \A k : InBus(q, k)' <=> InBus(q, k)
      /\ \A q \in Replicas \ {p} : \A n, k : LastOn(q, n, k)' <=> LastOn(q, n, k)
      /\ \A q, k : InHand(q, k)' <=> InHand(q, k)
      /\ \A k : ~InHand(p, k)'
  BY Zenon, <1>1, <1>5 DEF InBus, InHand, LastOn
<1>8. ASSUME NEW q \in Replicas, NEW k \in Keys, Published(k)'
      PROVE  /\ \A n \in 1..Len(bus'[q]) : LastOn(q, n, k)' => Tells(bus'[q][n], row'[k])
             /\ InHand(q, k)' /\ ~InBus(q, k)' => fetched'[q].seen = Read(k)'
  <2>1. Published(k) /\ row'[k] = row[k] /\ Read(k)' = Read(k) /\ fetched'[q] = fetched[q]
    BY Zenon, <1>1, <1>3, <1>8
  <2>2. /\ \A n \in 1..Len(bus[q]) : LastOn(q, n, k) => Tells(bus[q][n], row[k])
        /\ InHand(q, k) /\ ~InBus(q, k) => fetched[q].seen = Read(k)
    BY Zenon, <1>2, <2>1 DEF LastTells
  <2>3. CASE q # p
    BY Zenon, <1>5, <1>6, <2>1, <2>2, <2>3
  <2>4. CASE q = p
    <3>1. ASSUME NEW n \in 1..Len(bus'[p]), LastOn(p, n, k)' PROVE Tells(bus'[p][n], row'[k])
      <4>1. PICK l \in 1..Len(bus[p]) : bus[p][l] = bus'[p][n] /\ LastOn(p, l, k)
        BY Zenon, <1>a, <3>1
      <4> QED
        BY Zenon, <2>1, <2>2, <2>4, <4>1
    <3> QED
      BY Zenon, <1>6, <2>4, <3>1
  <2> QED
    BY Zenon, <2>3, <2>4
<1>9. ASSUME NEW i \in Informers, NEW k \in Keys
      PROVE  /\ watch'[i].step = "off" => view'[i][k] = NoObject
             /\ /\ watch'[i].step # "off" /\ k \notin missed'[i] /\ Published(k)'
                /\ ~InBus(watch[i].replica, k)' /\ ~InHand(watch[i].replica, k)'
                => Believes(i, k)' = Read(k)'
  <2>1. PICK q \in Replicas : q = watch[i].replica /\ watch'[i] = watch[i]
    BY <1>1, <1>2 DEF WatchTypeOK
  <2>2. Believes(i, k)' = Believes(i, k)
    BY Zenon, <1>1 DEF Believes
  <2>3. /\ InBus(watch[i].replica, k)' <=> InBus(q, k)'
        /\ InHand(watch[i].replica, k)' <=> InHand(q, k)'
    BY Zenon, <2>1 DEF InBus, InHand
  <2>5. ASSUME watch[i].step # "off", k \notin missed'[i]
        PROVE  k \notin missed[i] /\ (q = p => k # e.key)
    BY Zenon, <1>1, <2>1, <2>5 DEF NotTold
  <2> QED
    BY Zenon, <1>1, <1>2, <1>3, <1>5, <1>6, <2>1, <2>2, <2>3, <2>5 DEF InformersKnow
<1> QED
  BY Zenon, <1>3, <1>8, <1>9 DEF LastTells, InformersKnow

\* The message a replica handles is the last one: what its informers are told
\* is what is stored.
LEMMA BroadcastStep ==
    ASSUME WatchInv, NEW p \in Replicas, Broadcast(p)
    PROVE  LateMarked' /\ LastTells' /\ InformersKnow'
<1>0. PICK f : f = fetched[p]
  BY Zenon
<1>1. /\ f # NoEvent /\ fetched' = [fetched EXCEPT ![p] = NoEvent]
      /\ view' = [i \in Informers |->
            IF watch[i].step = "on" /\ watch[i].replica = p
            THEN [view[i] EXCEPT ![f.key] = f.seen] ELSE view[i]]
      /\ NotTold({i \in Informers : watch[i].replica = p /\ watch[i].step # "on"}, f.key)
      /\ UNCHANGED <<row, req, bus, fan, affected, astray, watch>>
  BY Zenon, <1>0 DEF Broadcast, fanVars
<1>2. WatchTypeOK /\ LastTells /\ InformersKnow /\ LateMarked
  BY Zenon DEF WatchInv, TypeOK
<1>3. /\ \A k \in Keys : Published(k)' <=> Published(k)
      /\ \A k : Read(k)' = Read(k)
      /\ LateMarked'
  BY Zenon, <1>1, <1>2, StillUnderway
<1>4. fetched'[p] = NoEvent /\ \A q \in Replicas \ {p} : fetched'[q] = fetched[q]
  BY Zenon, <1>1, <1>2 DEF WatchTypeOK
<1>5. /\ \A q, k : InBus(q, k)' <=> InBus(q, k)
      /\ \A q, n, k : LastOn(q, n, k)' <=> LastOn(q, n, k)
      /\ \A q \in Replicas \ {p} : \A k : InHand(q, k)' <=> InHand(q, k)
      /\ \A k : ~InHand(p, k)' /\ (InHand(p, k) <=> k = f.key)
  BY Zenon, <1>0, <1>1, <1>4 DEF InBus, InHand, LastOn
<1>6. LastTells'
  <2>1. ASSUME NEW q \in Replicas, NEW k \in Keys, Published(k)'
        PROVE  /\ \A n \in 1..Len(bus'[q]) : LastOn(q, n, k)' => Tells(bus'[q][n], row'[k])
               /\ InHand(q, k)' /\ ~InBus(q, k)' => fetched'[q].seen = Read(k)'
    <3>1. Published(k) /\ row'[k] = row[k] /\ Read(k)' = Read(k) /\ bus'[q] = bus[q]
      BY Zenon, <1>1, <1>3, <2>1
    <3>2. /\ \A n \in 1..Len(bus[q]) : LastOn(q, n, k) => Tells(bus[q][n], row[k])
          /\ InHand(q, k) /\ ~InBus(q, k) => fetched[q].seen = Read(k)
      BY Zenon, <1>2, <3>1 DEF LastTells
    <3> QED
      BY Zenon, <1>4, <1>5, <3>1, <3>2
  <2> QED
    BY Zenon, <2>1 DEF LastTells
<1>9. ASSUME NEW i \in Informers, NEW k \in Keys
      PROVE  /\ watch'[i].step = "off" => view'[i][k] = NoObject
             /\ /\ watch'[i].step # "off" /\ k \notin missed'[i] /\ Published(k)'
                /\ ~InBus(watch[i].replica, k)' /\ ~InHand(watch[i].replica, k)'
                => Believes(i, k)' = Read(k)'
  <2>1. PICK q \in Replicas : q = watch[i].replica /\ watch'[i] = watch[i]
    BY Zenon, <1>1, <1>2 DEF WatchTypeOK
  <2>2. /\ InBus(watch[i].replica, k)' <=> InBus(q, k)
        /\ InHand(watch[i].replica, k)' <=> InHand(q, k)'
    BY Zenon, <1>1, <2>1 DEF InBus, InHand
  <2>3. CASE q = p /\ watch[i].step = "on"
    <3>1. view'[i] = [view[i] EXCEPT ![f.key] = f.seen] /\ view[i] \in [Keys -> Seen \cup {NoObject}]
      BY Zenon, <1>1, <1>2, <2>1, <2>3 DEF WatchTypeOK, Views
    <3>2. Believes(i, k) = view[i][k] /\ Believes(i, k)' = view'[i][k]
      <4>1. watch[i].step # "prefixed"
        BY <2>3
      <4> QED
        BY Zenon, <2>1, <4>1 DEF Believes
    <3>3. watch[i].step # "off"
      BY <2>3
    <3>4. missed'[i] = missed[i]
      BY Zenon, <1>1, <2>3 DEF NotTold
    <3>5. CASE k = f.key
      <4>1. view'[i][k] = f.seen
        BY Zenon, <3>1, <3>5
      <4>2. Published(k) /\ ~InBus(q, k) => f.seen = Read(k)
        BY Zenon, <1>0, <1>2, <1>5, <2>3, <3>5 DEF LastTells
      <4> QED
        BY Zenon, <1>3, <2>1, <2>2, <3>2, <3>3, <4>1, <4>2
    <3>6. CASE k # f.key
      <4>1. view'[i][k] = view[i][k] /\ ~InHand(q, k)
        BY Zenon, <1>5, <2>3, <3>1, <3>6
      <4> QED
        BY Zenon, <1>2, <1>3, <2>1, <2>2, <3>2, <3>3, <3>4, <4>1 DEF InformersKnow
    <3> QED
      BY Zenon, <3>5, <3>6
  <2>4. CASE ~(q = p /\ watch[i].step = "on")
    <3>1. view'[i] = view[i]
      BY Zenon, <1>1, <2>1, <2>4
    <3>2. Believes(i, k)' = Believes(i, k)
      BY Zenon, <2>1, <3>1 DEF Believes
    <3>3. ASSUME watch[i].step # "off", k \notin missed'[i]
          PROVE  k \notin missed[i] /\ (q = p => k # f.key)
      BY Zenon, <1>1, <2>1, <2>4, <3>3 DEF NotTold
    <3>4. ASSUME q = p => k # f.key, ~InHand(q, k)' PROVE ~InHand(q, k)
      BY Zenon, <1>5, <3>4
    <3> QED
      BY Zenon, <1>2, <1>3, <2>1, <2>2, <3>1, <3>2, <3>3, <3>4 DEF InformersKnow
  <2> QED
    BY Zenon, <2>3, <2>4
<1> QED
  BY Zenon, <1>3, <1>6, <1>9 DEF InformersKnow

-----------------------------------------------------------------------------
\* A step of informer i: it knows what is stored, or what it knew before.
LEMMA InformerStep ==
    ASSUME WatchInv, NEW i \in Informers,
           UNCHANGED <<row, req, bus, fan, fetched, affected, astray>>,
           \A j \in Informers \ {i} :
               watch'[j] = watch[j] /\ view'[j] = view[j] /\ missed'[j] = missed[j],
           watch'[i].replica = watch[i].replica,
           watch'[i].step = "off" => \A k \in Keys : view'[i][k] = NoObject,
           watch'[i].step # "off" => missed'[i] = missed[i],
           watch'[i].step # "off" => \A k \in Keys :
               \/ Believes(i, k)' = Read(k)
               \/ watch[i].step # "off" /\ Believes(i, k)' = Believes(i, k)
    PROVE  LateMarked' /\ LastTells' /\ InformersKnow'
<1>2. WatchTypeOK /\ LastTells /\ InformersKnow /\ LateMarked
  BY Zenon DEF WatchInv, TypeOK
<1>3. /\ \A k \in Keys : Published(k)' <=> Published(k)
      /\ \A k : Read(k)' = Read(k)
      /\ LateMarked'
  BY Zenon, <1>2, StillUnderway
<1>5. /\ \A q, k : InBus(q, k)' <=> InBus(q, k)
      /\ \A q, n, k : LastOn(q, n, k)' <=> LastOn(q, n, k)
      /\ \A q, k : InHand(q, k)' <=> InHand(q, k)
  BY Zenon DEF InBus, InHand, LastOn
<1>6. LastTells'
  <2>1. ASSUME NEW q \in Replicas, NEW k \in Keys, Published(k)'
        PROVE  /\ \A n \in 1..Len(bus'[q]) : LastOn(q, n, k)' => Tells(bus'[q][n], row'[k])
               /\ InHand(q, k)' /\ ~InBus(q, k)' => fetched'[q].seen = Read(k)'
    <3>1. Published(k) /\ row'[k] = row[k] /\ Read(k)' = Read(k) /\ bus'[q] = bus[q]
          /\ fetched'[q] = fetched[q]
      BY Zenon, <1>3, <2>1
    <3>2. /\ \A n \in 1..Len(bus[q]) : LastOn(q, n, k) => Tells(bus[q][n], row[k])
          /\ InHand(q, k) /\ ~InBus(q, k) => fetched[q].seen = Read(k)
      BY Zenon, <1>2, <3>1 DEF LastTells
    <3> QED
      BY Zenon, <1>5, <3>1, <3>2
  <2> QED
    BY Zenon, <2>1 DEF LastTells
<1>9. ASSUME NEW j \in Informers, NEW k \in Keys
      PROVE  /\ watch'[j].step = "off" => view'[j][k] = NoObject
             /\ /\ watch'[j].step # "off" /\ k \notin missed'[j] /\ Published(k)'
                /\ ~InBus(watch[j].replica, k)' /\ ~InHand(watch[j].replica, k)'
                => Believes(j, k)' = Read(k)'
  <2>1. watch'[j].replica = watch[j].replica
    BY Zenon
  <2>2. /\ InBus(watch[j].replica, k)' <=> InBus(watch[j].replica, k)
        /\ InHand(watch[j].replica, k)' <=> InHand(watch[j].replica, k)
    BY Zenon, <2>1 DEF InBus, InHand
  <2>3. CASE j = i
    BY Zenon, <1>2, <1>3, <2>2, <2>3 DEF InformersKnow
  <2>4. CASE j # i
    <3>1. watch'[j] = watch[j] /\ view'[j] = view[j] /\ missed'[j] = missed[j]
      BY Zenon, <2>4
    <3>2. Believes(j, k)' = Believes(j, k)
      BY Zenon, <3>1 DEF Believes
    <3> QED
      BY Zenon, <1>2, <1>3, <2>2, <3>1, <3>2 DEF InformersKnow
  <2> QED
    BY Zenon, <2>3, <2>4
<1> QED
  BY Zenon, <1>3, <1>6, <1>9 DEF InformersKnow

\* Where a step of informer i takes its watch, and the watches of the others.
LEMMA WatchingEffect ==
    ASSUME WatchTypeOK, NEW i \in Informers, NEW step \in WatchSteps,
           NEW since \in 0..MaxVersion, NEW prefix \in Views, Watching(i, step, since, prefix)
    PROVE  /\ \A j \in Informers \ {i} : watch'[j] = watch[j]
           /\ watch'[i].step = step /\ watch'[i].replica = watch[i].replica
           /\ watch'[i].prefix = prefix
<1>1. PICK w \in [step : WatchSteps, replica : Replicas, since : 0..MaxVersion, prefix : Views] :
         w = watch[i]
  BY Zenon DEF WatchTypeOK
<1>2. LET x == [w EXCEPT !.step = step, !.since = since, !.prefix = prefix]
      IN  x.step = step /\ x.replica = w.replica /\ x.prefix = prefix
  BY Zenon, WatchMoved
<1>3. /\ watch'[i] = [w EXCEPT !.step = step, !.since = since, !.prefix = prefix]
      /\ \A j \in Informers \ {i} : watch'[j] = watch[j]
  BY Zenon, <1>1 DEF Watching, WatchTypeOK
<1> QED
  BY Zenon, <1>1, <1>2, <1>3

\* Views are a type of the informers' steps, and rows that are read are known
\* from those that are not there.
LEMMA ViewsTyped ==
    ASSUME StoreTypeOK
    PROVE  /\ Nothing \in Views /\ [k \in Keys |-> Read(k)] \in Views
           /\ \A k \in Keys : row[k] = NoObject <=> Read(k) = NoObject
           /\ \A s : [k \in Keys |-> IF row[k] # NoObject /\ row[k].rv >= s
                                     THEN Read(k) ELSE NoObject] \in Views
<1>1. \A k \in Keys : /\ Read(k) \in Seen \cup {NoObject}
                      /\ row[k] # NoObject => Read(k) \in Seen
  BY Zenon, ReadTyped
<1>2. \A k \in Keys : row[k] = NoObject <=> Read(k) = NoObject
  BY Zenon, <1>1, WatchAssumption DEF Read
<1>3. Nothing \in Views /\ [k \in Keys |-> Read(k)] \in Views
  BY Zenon, <1>1 DEF Nothing, Views
<1>4. ASSUME NEW s
      PROVE  [k \in Keys |-> IF row[k] # NoObject /\ row[k].rv >= s
                             THEN Read(k) ELSE NoObject] \in Views
  BY Zenon, <1>1 DEF Views
<1> QED
  BY Zenon, <1>2, <1>3, <1>4

\* What informers know after each of their steps.
LEMMA InformerSteps ==
    ASSUME VersionInv, WatchInv, NEW i \in Informers,
           \/ List(i) \/ ListVersion(i) \/ WatchFrom(i) \/ WatchList(i)
           \/ WatchWithPrefix(i) \/ Rewatch(i) \/ StopWatch(i)
    PROVE  LateMarked' /\ LastTells' /\ InformersKnow'
<1>1. /\ WatchTypeOK /\ StoreTypeOK /\ InformersKnow
      /\ watch[i].since \in 0..MaxVersion /\ 0 \in 0..MaxVersion
      /\ view[i] \in Views /\ watch[i].prefix \in Views
  <2>1. WatchTypeOK /\ StoreTypeOK /\ InformersKnow
    BY Zenon DEF WatchInv, VersionInv, TypeOK
  <2>2. MaxVersion \in Nat
    BY StoreAssumption
  <2> QED
    BY <2>1, <2>2 DEF WatchTypeOK
<1>2. /\ Nothing \in Views /\ [k \in Keys |-> Read(k)] \in Views
      /\ \A k \in Keys : row[k] = NoObject <=> Read(k) = NoObject
      /\ \A s : [k \in Keys |-> IF row[k] # NoObject /\ row[k].rv >= s
                                THEN Read(k) ELSE NoObject] \in Views
  BY Zenon, <1>1, ViewsTyped
<1>3. /\ "off" \in WatchSteps /\ "listed" \in WatchSteps /\ "versioned" \in WatchSteps
      /\ "prefixed" \in WatchSteps /\ "on" \in WatchSteps
      /\ "off" # "listed" /\ "off" # "versioned" /\ "off" # "prefixed" /\ "off" # "on"
      /\ "prefixed" # "listed" /\ "prefixed" # "versioned" /\ "prefixed" # "on"
  BY DEF WatchSteps
<1>10. CASE List(i)
  <2>1. /\ \A j \in Informers \ {i} : watch'[j] = watch[j]
        /\ watch'[i].step = "listed" /\ watch'[i].replica = watch[i].replica
    BY Zenon, <1>1, <1>2, <1>3, <1>10, WatchingEffect DEF List
  <2>2. /\ UNCHANGED <<row, req, bus, fan, fetched, affected, astray, missed>>
        /\ \A j \in Informers \ {i} : view'[j] = view[j]
        /\ \A k \in Keys : view'[i][k] = Read(k)
    BY Zenon, <1>1, <1>10 DEF List, fanVars, WatchTypeOK
  <2>3. \A k \in Keys : Believes(i, k)' = Read(k)
    BY Zenon, <1>3, <2>1, <2>2 DEF Believes
  <2> QED
    BY Zenon, <1>3, <2>1, <2>2, <2>3, InformerStep
<1>11. CASE ListVersion(i)
  <2>1. seq + 1 \in 0..MaxVersion
    <3>1. nextResourceVersion
      BY Zenon, <1>11 DEF ListVersion
    <3>2. seq \in 0..MaxVersion
      BY Zenon, <1>1 DEF StoreTypeOK
    <3> QED
      BY <3>1, <3>2, StoreAssumption DEF nextResourceVersion
  <2>2. /\ \A j \in Informers \ {i} : watch'[j] = watch[j]
        /\ watch'[i].step = "versioned" /\ watch'[i].replica = watch[i].replica
    BY Zenon, <1>1, <1>2, <1>3, <1>11, <2>1, WatchingEffect DEF ListVersion
  <2>3. /\ UNCHANGED <<row, req, bus, fan, fetched, affected, astray, missed, view>>
        /\ watch[i].step = "listed"
    BY Zenon, <1>11 DEF ListVersion, fanVars
  <2>4. \A k \in Keys : Believes(i, k)' = Believes(i, k)
    BY Zenon, <1>3, <2>2, <2>3 DEF Believes
  <2> QED
    BY Zenon, <1>3, <2>2, <2>3, <2>4, InformerStep
<1>12. CASE WatchFrom(i)
  <2>1. PICK x \in Views :
           x = [k \in Keys |-> IF row[k] # NoObject /\ row[k].rv >= watch[i].since
                               THEN Read(k) ELSE NoObject]
    BY Zenon, <1>2
  <2>2. /\ \A j \in Informers \ {i} : watch'[j] = watch[j]
        /\ watch'[i].step = "prefixed" /\ watch'[i].replica = watch[i].replica
        /\ watch'[i].prefix = x
    <3>1. Watching(i, "prefixed", 0, x)
      BY Zenon, <1>12, <2>1 DEF WatchFrom
    <3> QED
      BY Zenon, <1>1, <1>3, <3>1, WatchingEffect
  <2>3. /\ UNCHANGED <<row, req, bus, fan, fetched, affected, astray, missed, view>>
        /\ watch[i].step = "versioned"
    BY Zenon, <1>12 DEF WatchFrom, fanVars
  <2>4. ASSUME NEW k \in Keys PROVE Believes(i, k)' = Read(k) \/ Believes(i, k)' = Believes(i, k)
    <3>1. x[k] = Read(k) \/ x[k] = NoObject
      BY Zenon, <2>1
    <3>2. Believes(i, k) = view[i][k]
      BY Zenon, <1>3, <2>3 DEF Believes
    <3>3. Believes(i, k)' = IF x[k] # NoObject THEN x[k] ELSE view[i][k]
      BY Zenon, <2>2, <2>3 DEF Believes
    <3> QED
      BY Zenon, <3>1, <3>2, <3>3
  <2> QED
    BY Zenon, <1>3, <2>2, <2>3, <2>4, InformerStep
<1>13. CASE WatchList(i)
  <2>1. PICK x \in Views : x = [k \in Keys |-> Read(k)]
    BY Zenon, <1>2
  <2>2. /\ \A j \in Informers \ {i} : watch'[j] = watch[j]
        /\ watch'[i].step = "prefixed" /\ watch'[i].replica = watch[i].replica
        /\ watch'[i].prefix = x
    <3>1. Watching(i, "prefixed", 0, x)
      BY Zenon, <1>13, <2>1 DEF WatchList
    <3> QED
      BY Zenon, <1>1, <1>3, <3>1, WatchingEffect
  <2>3. /\ UNCHANGED <<row, req, bus, fan, fetched, affected, astray, missed, view>>
        /\ watch[i].step = "off"
    BY Zenon, <1>13 DEF WatchList, fanVars
  <2>4. ASSUME NEW k \in Keys PROVE Believes(i, k)' = Read(k)
    <3>1. x[k] = Read(k)
      BY Zenon, <2>1
    <3>2. view[i][k] = NoObject
      BY Zenon, <1>1, <2>3 DEF InformersKnow
    <3>3. Believes(i, k)' = IF x[k] # NoObject THEN x[k] ELSE view[i][k]
      BY Zenon, <2>2, <2>3 DEF Believes
    <3> QED
      BY Zenon, <3>1, <3>2, <3>3
  <2> QED
    BY Zenon, <1>3, <2>2, <2>3, <2>4, InformerStep
<1>14. CASE WatchWithPrefix(i)
  <2>1. /\ \A j \in Informers \ {i} : watch'[j] = watch[j]
        /\ watch'[i].step = "on" /\ watch'[i].replica = watch[i].replica
    BY Zenon, <1>1, <1>2, <1>3, <1>14, WatchingEffect DEF WatchWithPrefix
  <2>2. /\ UNCHANGED <<row, req, bus, fan, fetched, affected, astray, missed>>
        /\ watch[i].step = "prefixed"
    BY Zenon, <1>14 DEF WatchWithPrefix, fanVars
  <2>3. /\ \A j \in Informers \ {i} : view'[j] = view[j]
        /\ \A k \in Keys : view'[i][k] = IF watch[i].prefix[k] # NoObject
                                         THEN watch[i].prefix[k] ELSE view[i][k]
    <3>1. PICK f : f = [k \in Keys |-> IF watch[i].prefix[k] # NoObject
                                      THEN watch[i].prefix[k] ELSE view[i][k]]
      BY Zenon
    <3>2. view' = [view EXCEPT ![i] = f] /\ view \in [Informers -> Views]
      BY Zenon, <1>1, <1>14, <3>1 DEF WatchWithPrefix, WatchTypeOK
    <3>3. view'[i] = f /\ \A j \in Informers \ {i} : view'[j] = view[j]
      BY Zenon, <3>2
    <3> QED
      BY ZenonT(30), <3>1, <3>3
  <2>4. \A k \in Keys : Believes(i, k)' = Believes(i, k)
    BY Zenon, <1>3, <2>1, <2>2, <2>3 DEF Believes
  <2> QED
    BY Zenon, <1>3, <2>1, <2>2, <2>3, <2>4, InformerStep
<1>15. CASE StopWatch(i)
  <2>1. /\ \A j \in Informers \ {i} : watch'[j] = watch[j]
        /\ watch'[i].step = "off" /\ watch'[i].replica = watch[i].replica
    BY Zenon, <1>1, <1>2, <1>3, <1>15, WatchingEffect DEF StopWatch
  <2>2. /\ UNCHANGED <<row, req, bus, fan, fetched, affected, astray>>
        /\ \A j \in Informers \ {i} : view'[j] = view[j] /\ missed'[j] = missed[j]
        /\ \A k \in Keys : view'[i][k] = NoObject
    BY Zenon, <1>1, <1>15 DEF StopWatch, fanVars, WatchTypeOK, Nothing
  <2> QED
    BY Zenon, <2>1, <2>2, InformerStep
<1>16. CASE Rewatch(i)
  <2>1. PICK v \in 0..MaxVersion : Watching(i, "versioned", v, Nothing)
    <3>1. PICK v \in 0..seq : Watching(i, "versioned", v, Nothing)
      BY Zenon, <1>16 DEF Rewatch
    <3>2. v \in 0..MaxVersion
      BY StoreAssumption DEF VersionInv, StoreTypeOK
    <3> QED
      BY Zenon, <3>1, <3>2
  <2>2. /\ \A j \in Informers \ {i} : watch'[j] = watch[j]
        /\ watch'[i].step = "versioned" /\ watch'[i].replica = watch[i].replica
    BY Zenon, <1>1, <1>2, <1>3, <2>1, WatchingEffect
  <2>3. /\ UNCHANGED <<row, req, bus, fan, fetched, affected, astray, missed, view>>
        /\ watch[i].step = "on"
    BY Zenon, <1>16 DEF Rewatch, fanVars
  <2>4. \A k \in Keys : Believes(i, k)' = Believes(i, k)
    BY Zenon, <1>3, <2>2, <2>3 DEF Believes
  <2> QED
    BY Zenon, <1>3, <2>2, <2>3, <2>4, InformerStep
<1> QED
  BY Zenon, <1>10, <1>11, <1>12, <1>13, <1>14, <1>15, <1>16

-----------------------------------------------------------------------------
\* Nothing is on its way at the start, and no informer has listed.
LEMMA WatchStarts == ASSUME Init PROVE WatchInv
<1>1. VersionInv
  BY Zenon, InitInv
<1>2. /\ StoreInit /\ WatchInit
      /\ \A c \in Clients : ~At(c, "publish") /\ req[c].step = "idle"
      /\ \A p \in Replicas : bus[p] = <<>> /\ affected[p] = {} /\ fetched[p] = NoEvent
      /\ \A i \in Informers : view[i] = Nothing /\ watch[i].step = "off"
  BY Zenon, IdleIs DEF Init, StoreInit, WatchInit, At
<1>3. WatchTypeOK
  <2>1. /\ \A p \in Replicas : <<>> \in Seq(Events) /\ <<>> \in Seq(Reports)
        /\ 0 \in 0..MaxFaults /\ 0 \in 0..MaxVersion /\ "off" \in WatchSteps
    BY StoreAssumption, WatchAssumption DEF WatchSteps
  <2>2. Nothing \in Views
    BY Zenon DEF Nothing, Views
  <2>3. watch \in [Informers -> [step : WatchSteps, replica : Replicas, since : 0..MaxVersion,
                                prefix : Views]]
    <3> DEFINE A == [step : {"off"}, replica : Replicas, since : {0}, prefix : {Nothing}]
               B == [step : WatchSteps, replica : Replicas, since : 0..MaxVersion, prefix : Views]
    <3>1. ASSUME NEW w \in A PROVE w \in B
      BY <2>1, <2>2
    <3>2. watch \in [Informers -> A]
      BY Zenon, <1>2 DEF WatchInit
    <3> HIDE DEF A, B
    <3>3. watch \in [Informers -> B]
      BY Zenon, <3>1, <3>2
    <3> QED
      BY Zenon, <3>3 DEF B
  <2> QED
    BY Zenon, <1>2, <2>1, <2>2, <2>3 DEF WatchInit, WatchTypeOK
<1>4. ContentsOK
  BY Zenon, <1>2 DEF ContentsOK, StoreInit, Contents
<1>5. LateMarked
  BY Zenon, <1>2 DEF LateMarked
<1>6. LastTells
  <2>1. Len(<<>>) = 0 /\ \A n : n \notin 1..0
    OBVIOUS
  <2> QED
    BY Zenon, <1>2, <2>1 DEF LastTells, InHand
<1>7. InformersKnow
  BY ZenonT(30), <1>2 DEF InformersKnow, Nothing
<1> QED
  BY Zenon, <1>1, <1>3, <1>4, <1>5, <1>6, <1>7 DEF WatchInv, TypeOK, VersionInv

\* Every step of a client's request keeps what is said of the messages.
LEMMA StoreStep ==
    ASSUME VersionInv, WatchInv, NEW c \in Clients, StoreNext(c), UNCHANGED watchVars
    PROVE  ContentsOK' /\ LateMarked' /\ LastTells' /\ InformersKnow'
<1>1. ContentsOK' /\ StoreTypeOK
  BY Zenon, StoreContents DEF WatchInv, VersionInv
<1>2. ~At(c, "publish") /\ \A d \in Clients \ {c} : req'[d] = req[d]
  BY Zenon, <1>1, StoreStepOf
<1>3. CASE Keeps(c)
  <2>1. ~At(c, "publish")' /\ row' = row
    BY <1>3 DEF Keeps, Moved, At
  <2>2. Calm
    BY Zenon, <1>2, <2>1 DEF Calm, At
  <2> QED
    BY Zenon, <1>1, <2>2, CalmStep
<1>4. CASE \E k, type, o : Commits(c, k, type, o)
  BY Zenon, <1>1, <1>2, <1>4, CommitStep
<1> QED
  BY Zenon, <1>3, <1>4, StoreForms

\* Only clients write rows and what they are about to write.
LEMMA ContentsStay ==
    ASSUME VersionInv, ContentsOK, UNCHANGED <<row, req>>
    PROVE  ContentsOK'
  BY Zenon DEF ContentsOK

\* No step makes more late than is marked late, leaves the last message on a key
\* telling something else than what is stored, or an informer that missed
\* nothing knowing something else.
LEMMA WatchStep ==
    ASSUME VersionInv, WatchInv, [Next]_vars
    PROVE  WatchInv'
<1>1. TypeOK'
  <2>1. VersionInv' /\ WatchTypeOK'
    BY Zenon, StepForms, IdlesKeepsInv, KeepsKeepsInv, CommitsKeepsInv, WatchTypes
       DEF WatchInv, TypeOK
  <2> QED
    BY Zenon, <2>1 DEF TypeOK, VersionInv
<1> DEFINE Goal == ContentsOK' /\ LateMarked' /\ LastTells' /\ InformersKnow'
<1>2. ASSUME UNCHANGED <<row, req>> PROVE ContentsOK'
  BY Zenon, <1>2, ContentsStay DEF WatchInv
<1>3. ASSUME UNCHANGED vars PROVE Goal
  <2>1. UNCHANGED <<row, req, watchVars>>
    BY Zenon, <1>3 DEF vars, storeVars
  <2>2. Calm
    BY Zenon, <2>1 DEF Calm, At
  <2> QED
    BY Zenon, <1>2, <2>1, <2>2, CalmStep
<1>4. ASSUME NEW c \in Clients, StoreNext(c), UNCHANGED watchVars PROVE Goal
  BY Zenon, <1>4, StoreStep
<1>5. ASSUME NEW c \in Clients, Publish(c) \/ PublishLost(c) PROVE Goal
  <2>1. LateMarked' /\ LastTells' /\ InformersKnow'
    BY Zenon, <1>5, PublishStep, PublishLostStep
  <2>2. At(c, "publish") /\ Done(c) /\ UNCHANGED <<seq, row, taken>>
    BY Zenon, <1>5 DEF Publish, PublishLost
  <2>3. ~At(c, "publish")' /\ \A d \in Clients \ {c} : Same(d)
    BY Zenon, <2>2, DoneEffect DEF WatchInv, TypeOK
  <2>4. req'[c].step = "idle"
    BY Zenon, IdleIs, <2>2 DEF Done
  <2>5. ContentsOK'
    BY Zenon, <2>2, <2>3, <2>4 DEF WatchInv, ContentsOK, Same
  <2> QED
    BY Zenon, <2>1, <2>5
<1>6. ASSUME NEW p \in Replicas,
             \/ ProcessMessage(p) \/ Broadcast(p) \/ MessageLost(p)
             \/ FindAffected(p) \/ PublishAffected(p) \/ ReportMessageLost(p)
      PROVE  Goal
  <2>1. LateMarked' /\ LastTells' /\ InformersKnow'
    BY Zenon, <1>6, ProcessMessageStep, BroadcastStep, MessageLostStep, FindAffectedStep,
       PublishAffectedStep, ReportMessageLostStep
  <2>2. UNCHANGED <<row, req>>
    BY Zenon, <1>6 DEF ProcessMessage, Broadcast, MessageLost, FindAffected, PublishAffected,
       ReportMessageLost
  <2> QED
    BY Zenon, <1>2, <2>1, <2>2
<1>7. ASSUME NEW i \in Informers,
             \/ List(i) \/ ListVersion(i) \/ WatchFrom(i) \/ WatchList(i)
             \/ WatchWithPrefix(i) \/ Rewatch(i) \/ StopWatch(i)
      PROVE  Goal
  <2>1. LateMarked' /\ LastTells' /\ InformersKnow'
    BY Zenon, <1>7, InformerSteps
  <2>2. UNCHANGED <<row, req>>
    BY Zenon, <1>7 DEF List, ListVersion, WatchFrom, WatchList, WatchWithPrefix, Rewatch,
       StopWatch
  <2> QED
    BY Zenon, <1>2, <2>1, <2>2
<1>8. Goal
  BY Zenon, <1>3, <1>4, <1>5, <1>6, <1>7 DEF Next, WatchNext
<1> QED
  BY Zenon, <1>1, <1>8 DEF WatchInv

\* The inductive invariant of the watches: a message that does not tell what
\* became of its key is marked late in time, the last message on its way tells
\* what is stored, and informers that missed nothing know what is stored once
\* none is on its way (watcher.go and workloadscanreport_watcher.go).
THEOREM WatchInvariant == Spec => []WatchInv
<1>1. VersionInv /\ WatchInv /\ [Next]_vars => WatchInv'
  BY Zenon, WatchStep
<1>2. Init => WatchInv
  BY Zenon, WatchStarts
<1>3. QED
  BY <1>1, <1>2, StoreInvariant, PTL DEF Spec

\* Requests, messages, watches and views keep their types: the version of an
\* object is one the sequence gave out, and what a replica hands to an informer
\* is an object that was stored.
THEOREM StorageTypes == Spec => []TypeOK
<1>1. WatchInv => TypeOK
  BY Zenon DEF WatchInv
<1>2. QED
  BY <1>1, WatchInvariant, PTL

\* Once all events are through, an informer whose watch is on and to which every
\* event was given sees what the store holds, whatever order the messages were
\* published in and whatever the replicas read while handling them (rehydrate
\* of watcher.go, WatchWithPrefix of Watch and watchList in store.go).
THEOREM InformersConverge == Spec => []Converged
<1>1. ASSUME WatchInv, Quiet, NEW i \in Informers, NEW k \in Keys, watch[i].step = "on",
             k \notin missed[i] \cup astray
      PROVE  view[i][k] = Read(k)
  <2>1. /\ InformersKnow /\ WatchTypeOK
        /\ \A p \in Replicas : bus[p] = <<>> /\ fan[p] = <<>> /\ fetched[p] = NoEvent
                               /\ affected[p] = {}
        /\ \A c \in Clients : ~At(c, "publish")
    BY Zenon, <1>1 DEF WatchInv, TypeOK, Quiet, At
  <2>2. Len(<<>>) = 0 /\ \A n : n \notin 1..0
    OBVIOUS
  <2>3. Published(k)
    BY Zenon, <1>1, <2>1, <2>2 DEF Published, Underway
  <2>4. PICK p \in Replicas : p = watch[i].replica
    BY <2>1 DEF WatchTypeOK
  <2>5. ~InBus(p, k) /\ ~InHand(p, k)
    BY Zenon, <2>1, <2>2 DEF InBus, InHand
  <2>6. "on" # "off" /\ "on" # "prefixed"
    OBVIOUS
  <2>7. Believes(i, k) = Read(k)
    BY Zenon, <1>1, <2>1, <2>3, <2>4, <2>5, <2>6 DEF InformersKnow
  <2> QED
    BY Zenon, <1>1, <2>6, <2>7 DEF Believes
<1>2. WatchInv => Converged
  BY Zenon, <1>1 DEF Converged
<1>3. QED
  BY <1>2, WatchInvariant, PTL

-----------------------------------------------------------------------------
(* The copies.  Where else than in its row object x may be known under k:  *)

ClientHas(k, x) ==
    \E c \in Clients : req[c].key = k /\ (At(c, "held") \/ At(c, "publish")) /\ x = req[c].obj

BusHas(k, x) ==
    \E p \in Replicas : \E n \in 1..Len(bus[p]) : bus[p][n].key = k /\ x = bus[p][n].obj

FanHas(k, x) ==
    \E p \in Replicas : \E a \in affected[p] : a.event.key = k /\ x = a.event.obj

HandHas(k, x) ==
    \E p \in Replicas : /\ fetched[p] # NoEvent /\ fetched[p].key = k
                        /\ fetched[p].seen # NoObject /\ x = fetched[p].seen.obj

ViewHas(k, x) == \E i \in Informers : view[i][k] # NoObject /\ x = view[i][k].obj

PrefixHas(k, x) ==
    \E i \in Informers : watch[i].prefix[k] # NoObject /\ x = watch[i].prefix[k].obj

Has(k, x) ==
    \/ RowHas(k, x) \/ ClientHas(k, x) \/ BusHas(k, x) \/ FanHas(k, x)
    \/ HandHas(k, x) \/ ViewHas(k, x) \/ PrefixHas(k, x)

LEMMA HasIs == ASSUME NEW k, NEW x PROVE x \in Copies(k) <=> Has(k, x)
<1>1. x \in {row[k]} \ {NoObject} <=> RowHas(k, x)
  BY Zenon DEF RowHas
<1>2. x \in Requested(k) <=> ClientHas(k, x)
  BY Zenon DEF Requested, ClientHas
<1>3. x \in Sent(k) <=> BusHas(k, x) \/ FanHas(k, x)
  <2> DEFINE Places(p) == {n \in 1..Len(bus[p]) : bus[p][n].key = k}
             Ahead(p) == {a \in affected[p] : a.event.key = k}
             A(p) == {bus[p][n].obj : n \in Places(p)}
             B(p) == {a.event.obj : a \in Ahead(p)}
  <2>1. BusHas(k, x) <=> \E p \in Replicas : x \in A(p)
    BY Zenon DEF BusHas
  <2>2. FanHas(k, x) <=> \E p \in Replicas : x \in B(p)
    BY Zenon DEF FanHas
  <2>3. Sent(k) = UNION {A(p) \cup B(p) : p \in Replicas}
    BY Zenon DEF Sent
  <2> HIDE DEF A, B
  <2>4. x \in UNION {A(p) \cup B(p) : p \in Replicas}
           <=> \E p \in Replicas : x \in A(p) \/ x \in B(p)
    BY Zenon
  <2> QED
    BY Zenon, <2>1, <2>2, <2>3, <2>4
<1>4. x \in Told(k) <=> HandHas(k, x) \/ ViewHas(k, x) \/ PrefixHas(k, x)
  BY DEF Told, HandHas, ViewHas, PrefixHas
<1> QED
  BY Zenon, <1>1, <1>2, <1>3, <1>4 DEF Copies, Has

\* The same of the state after a step.
LEMMA HasIsNext == ASSUME NEW k, NEW x PROVE x \in Copies(k)' <=> Has(k, x)'
<1>1. x \in {row'[k]} \ {NoObject} <=> RowHas(k, x)'
  BY Zenon DEF RowHas
<1>2. x \in Requested(k)' <=> ClientHas(k, x)'
  BY Zenon DEF Requested, ClientHas
<1>3. x \in Sent(k)' <=> BusHas(k, x)' \/ FanHas(k, x)'
  <2> DEFINE Places(p) == {n \in 1..Len(bus'[p]) : bus'[p][n].key = k}
             Ahead(p) == {a \in affected'[p] : a.event.key = k}
             A(p) == {bus'[p][n].obj : n \in Places(p)}
             B(p) == {a.event.obj : a \in Ahead(p)}
  <2>1. BusHas(k, x)' <=> \E p \in Replicas : x \in A(p)
    BY Zenon DEF BusHas
  <2>2. FanHas(k, x)' <=> \E p \in Replicas : x \in B(p)
    BY Zenon DEF FanHas
  <2>3. Sent(k)' = UNION {A(p) \cup B(p) : p \in Replicas}
    BY Zenon DEF Sent
  <2> HIDE DEF A, B
  <2>4. x \in UNION {A(p) \cup B(p) : p \in Replicas}
           <=> \E p \in Replicas : x \in A(p) \/ x \in B(p)
    BY Zenon
  <2> QED
    BY Zenon, <2>1, <2>2, <2>3, <2>4
<1>4. x \in Told(k)' <=> HandHas(k, x)' \/ ViewHas(k, x)' \/ PrefixHas(k, x)'
  BY DEF Told, HandHas, ViewHas, PrefixHas
<1> QED
  BY Zenon, <1>1, <1>2, <1>3, <1>4 DEF Copies, Has

\* A step that makes no new copy keeps what is said of the copies.
LEMMA NoNewCopy ==
    ASSUME CopiesOK, taken' = taken, \A k \in Keys : \A x : Has(k, x)' => Has(k, x)
    PROVE  CopiesOK'
<1>1. ASSUME NEW k \in Keys, NEW x \in Copies(k)' PROVE x \in Copies(k)
  <2>1. Has(k, x)'
    BY Zenon, <1>1, HasIsNext
  <2> QED
    BY Zenon, <2>1, HasIs
<1> QED
  BY Zenon, <1>1 DEF CopiesOK

\* A commit makes one copy, of a version nobody has, or none.
LEMMA CommitCopies ==
    ASSUME VersionInv, CopiesOK, NEW c \in Clients, NEW k, NEW type, NEW o,
           Commits(c, k, type, o), UNCHANGED watchVars
    PROVE  CopiesOK'
<1>1. /\ k \in Keys /\ o \in Objects /\ row \in [Keys -> Objects \cup {NoObject}]
      /\ \A d \in Clients : d # c => req'[d] = req[d]
      /\ req'[c].step = "publish" /\ req'[c].key = k /\ req'[c].obj = o
  BY Zenon, CommitEffect DEF VersionInv, StoreTypeOK
<1>2. ASSUME NEW l \in Keys, NEW x, Has(l, x)' PROVE Has(l, x) \/ (l = k /\ x = o)
  <2>1. /\ BusHas(l, x)' <=> BusHas(l, x)
        /\ FanHas(l, x)' <=> FanHas(l, x)
        /\ HandHas(l, x)' <=> HandHas(l, x)
        /\ ViewHas(l, x)' <=> ViewHas(l, x)
        /\ PrefixHas(l, x)' <=> PrefixHas(l, x)
    BY Zenon DEF watchVars, BusHas, FanHas, HandHas, ViewHas, PrefixHas
  <2>2. RowHas(l, x)' => RowHas(l, x) \/ (l = k /\ x = o)
    <3>1. row' = [row EXCEPT ![k] = IF type = "Deleted" THEN NoObject ELSE o]
      BY Zenon DEF Commits, Commit
    <3> QED
      BY Zenon, <1>1, <3>1 DEF RowHas
  <2>3. ClientHas(l, x)' => ClientHas(l, x) \/ (l = k /\ x = o)
    BY Zenon, <1>1 DEF ClientHas, At
  <2> QED
    BY Zenon, <1>2, <2>1, <2>2, <2>3 DEF Has
<1>3. ASSUME NEW l \in Keys, NEW x \in Copies(l)' PROVE x \in Copies(l) \/ (l = k /\ x = o)
  <2>1. Has(l, x)'
    BY Zenon, <1>3, HasIsNext
  <2> QED
    BY Zenon, <1>2, <2>1, HasIs
<1>4. CASE type = "Deleted"
  <2>1. taken' = taken /\ o \in Copies(k)
    <3>1. Has(k, o)
      BY Zenon, <1>4 DEF Has, RowHas, Commits
    <3> QED
      BY Zenon, <1>4, <3>1, HasIs DEF Commits, Commit
  <2>2. ASSUME NEW l \in Keys, NEW x \in Copies(l)' PROVE x \in Copies(l)
    BY Zenon, <1>3, <2>1, <2>2
  <2>3. \A l \in Keys : \A x \in Copies(l)' : x \in Objects /\ x.rv \in taken'
    BY Zenon, <2>1, <2>2 DEF CopiesOK
  <2>4. \A l, m \in Keys : \A x \in Copies(l)', y \in Copies(m)' :
           x.rv = y.rv => l = m /\ x = y
    BY Zenon, <2>2 DEF CopiesOK
  <2> QED
    BY Zenon, <2>3, <2>4 DEF CopiesOK
<1>5. CASE type # "Deleted"
  <2>1. taken' = taken \cup {o.rv} /\ o.rv \notin taken
    BY Zenon, <1>5 DEF Commits, Commit, VersionInv, WritersOK, Writes, At
  <2>2. \A l \in Keys : \A x \in Copies(l) : x \in Objects /\ x.rv \in taken
    BY Zenon DEF CopiesOK
  <2>3. \A l \in Keys : \A x \in Copies(l)' : x \in Objects /\ x.rv \in taken'
    BY Zenon, <1>1, <1>3, <2>1, <2>2
  <2>4. ASSUME NEW l \in Keys, NEW m \in Keys, NEW x \in Copies(l)', NEW y \in Copies(m)',
               x.rv = y.rv
        PROVE  l = m /\ x = y
    <3>1. x \in Copies(l) \/ (l = k /\ x = o)
      BY Zenon, <1>3
    <3>2. y \in Copies(m) \/ (m = k /\ y = o)
      BY Zenon, <1>3
    <3>3. x \in Copies(l) => x.rv # o.rv
      BY Zenon, <2>1, <2>2
    <3>4. y \in Copies(m) => y.rv # o.rv
      BY Zenon, <2>1, <2>2
    <3>5. x \in Copies(l) /\ y \in Copies(m) => l = m /\ x = y
      BY Zenon, <2>4 DEF CopiesOK
    <3> QED
      BY Zenon, <2>4, <3>1, <3>2, <3>3, <3>4, <3>5
  <2> QED
    BY Zenon, <2>3, <2>4 DEF CopiesOK
<1> QED
  BY Zenon, <1>4, <1>5

\* What a client reads of a row is the row.
LEMMA ReadHas ==
    ASSUME NEW k, Read(k) # NoObject
    PROVE  RowHas(k, Read(k).obj)
  BY Zenon DEF Read, RowHas

\* A message that is published is the only new one on its way.
LEMMA DeliverHas ==
    ASSUME WatchTypeOK, NEW e \in Events, NEW late, Deliver(e, late), NEW k, NEW x,
           BusHas(k, x)'
    PROVE  BusHas(k, x) \/ (k = e.key /\ x = e.obj)
<1>1. PICK p \in Replicas : \E n \in 1..Len(bus'[p]) : bus'[p][n].key = k /\ x = bus'[p][n].obj
  BY Zenon DEF BusHas
<1>2. PICK s \in Seq(Events) : s = bus[p]
  BY Zenon DEF WatchTypeOK
<1>3. PICK t : t = bus'[p]
  BY Zenon
<1>4. PICK n \in 1..Len(t) : t[n].key = k /\ x = t[n].obj
  BY Zenon, <1>1, <1>3
<1>5. t = Append(s, e)
  BY Zenon, <1>2, <1>3 DEF Deliver
<1>6. /\ Len(s) \in Nat /\ Len(t) = Len(s) + 1
      /\ \A m \in 1..Len(s) : t[m] = s[m]
      /\ t[Len(s) + 1] = e
  BY <1>5, AppendedTo
<1>7. n = Len(s) + 1 \/ n \in 1..Len(s)
  BY <1>4, <1>6
<1>8. CASE n \in 1..Len(s)
  BY Zenon, <1>2, <1>4, <1>6, <1>8 DEF BusHas
<1>9. CASE n = Len(s) + 1
  BY Zenon, <1>4, <1>6, <1>9
<1> QED
  BY Zenon, <1>7, <1>8, <1>9

\* Messages that are taken off the bus leave no others there.
LEMMA TakeHas ==
    ASSUME WatchTypeOK, NEW p \in Replicas, bus[p] # <<>>, bus' = [bus EXCEPT ![p] = Tail(@)]
    PROVE  /\ BusHas(Head(bus[p]).key, Head(bus[p]).obj)
           /\ \A k, x : BusHas(k, x)' => BusHas(k, x)
<1>1. PICK s \in Seq(Events) : s = bus[p] /\ s # <<>>
  BY Zenon DEF WatchTypeOK
<1>2. PICK t : t = Tail(s)
  BY Zenon
<1>3. /\ Head(s) = s[1] /\ 1 \in 1..Len(s)
      /\ \A n \in 1..Len(t) : n + 1 \in 1..Len(s) /\ t[n] = s[n + 1]
  BY <1>1, <1>2, Shifted
<1>4. bus'[p] = t /\ \A q \in Replicas \ {p} : bus'[q] = bus[q]
  BY Zenon, <1>1, <1>2 DEF WatchTypeOK
<1>5. BusHas(Head(s).key, Head(s).obj)
  BY Zenon, <1>1, <1>3 DEF BusHas
<1>6. ASSUME NEW k, NEW x, BusHas(k, x)' PROVE BusHas(k, x)
  <2>1. PICK q \in Replicas : \E n \in 1..Len(bus'[q]) : bus'[q][n].key = k /\ x = bus'[q][n].obj
    BY Zenon, <1>6 DEF BusHas
  <2>2. CASE q = p
    <3>1. PICK n \in 1..Len(t) : t[n].key = k /\ x = t[n].obj
      BY Zenon, <1>4, <2>1, <2>2
    <3> QED
      BY Zenon, <1>1, <1>3, <3>1 DEF BusHas
  <2>3. CASE q # p
    BY ZenonT(30), <1>4, <2>1, <2>3 DEF BusHas
  <2> QED
    BY Zenon, <2>2, <2>3
<1> QED
  BY Zenon, <1>1, <1>5, <1>6

\* What clients hold they read or wrote.
LEMMA StoreCopies ==
    ASSUME VersionInv, CopiesOK, NEW c \in Clients, StoreNext(c), UNCHANGED watchVars
    PROVE  CopiesOK'
<1>1. CASE Keeps(c)
  <2>1. row' = row /\ taken' = taken /\ Moved(c) /\ \A d \in Clients \ {c} : Same(d)
    BY Zenon, <1>1 DEF Keeps
  <2>2. ASSUME NEW k \in Keys, NEW x, ClientHas(k, x)' PROVE ClientHas(k, x) \/ RowHas(k, x)
    <3>1. PICK d \in Clients : /\ req'[d].key = k /\ x = req'[d].obj
                               /\ req'[d].step = "held" \/ req'[d].step = "publish"
      BY Zenon, <2>2 DEF ClientHas, At
    <3>2. CASE d = c
      <4>1. req'[c].step = "held"
        BY Zenon, <2>1, <3>1, <3>2 DEF Moved
      <4> QED
        BY Zenon, <2>1, <3>1, <3>2, <4>1 DEF Moved
    <3>3. CASE d # c
      <4>1. Same(d)
        BY Zenon, <2>1, <3>3
      <4> QED
        BY Zenon, <3>1, <4>1 DEF Same, ClientHas, At
    <3> QED
      BY Zenon, <3>2, <3>3
  <2>3. ASSUME NEW k \in Keys, NEW x, Has(k, x)' PROVE Has(k, x)
    BY Zenon, <2>1, <2>2, <2>3
       DEF Has, watchVars, RowHas, BusHas, FanHas, HandHas, ViewHas, PrefixHas
  <2> QED
    BY Zenon, <2>1, <2>3, NoNewCopy
<1>2. CASE \E k, type, o : Commits(c, k, type, o)
  BY Zenon, <1>2, CommitCopies
<1> QED
  BY Zenon, <1>1, <1>2, StoreForms

\* Publishing ends a request: the object it announces is on its way.
LEMMA DoneCopies ==
    ASSUME VersionInv, WatchTypeOK, NEW c \in Clients, At(c, "publish"), Done(c),
           UNCHANGED <<seq, row, taken>>, NEW k, NEW x
    PROVE  /\ ClientHas(req[c].key, req[c].obj)
           /\ ClientHas(k, x)' => ClientHas(k, x)
           /\ FanHas(k, x)' => FanHas(k, x)
<1>1. ClientHas(req[c].key, req[c].obj)
  BY Zenon DEF ClientHas
<1>2. req'[c].step = "idle" /\ \A d \in Clients \ {c} : Same(d)
  <2>1. Keeps(c)
    BY Zenon, DoneKeeps
  <2>2. req'[c].step = "idle"
    BY Zenon, IdleIs DEF Done
  <2> QED
    BY Zenon, <2>1, <2>2 DEF Keeps
<1>3. ASSUME ClientHas(k, x)' PROVE ClientHas(k, x)
  <2>1. PICK d \in Clients : /\ req'[d].key = k /\ x = req'[d].obj
                             /\ req'[d].step = "held" \/ req'[d].step = "publish"
    BY Zenon, <1>3 DEF ClientHas, At
  <2>2. d # c
    BY Zenon, <1>2, <2>1
  <2>3. Same(d)
    BY Zenon, <1>2, <2>2
  <2> QED
    BY Zenon, <2>1, <2>3 DEF Same, ClientHas, At
<1>4. ASSUME FanHas(k, x)' PROVE FanHas(k, x)
  <2>1. PICK p \in Replicas : \E b \in affected'[p] : b.event.key = k /\ x = b.event.obj
    BY Zenon, <1>4 DEF FanHas
  <2>2. PICK b \in affected'[p] : b.event.key = k /\ x = b.event.obj
    BY Zenon, <2>1
  <2>3. PICK a \in affected[p] :
           /\ b.event = a.event
           /\ \/ a.late
              \/ /\ a.event.key = req[c].key
                 /\ \/ "Deleted" \in {"Modified", req[c].type}
                    \/ a.event.obj.uid # req[c].obj.uid
              => b.late
    BY Zenon, DoneAffected
  <2> QED
    BY Zenon, <2>2, <2>3 DEF FanHas
<1> QED
  BY Zenon, <1>1, <1>3, <1>4

\* Nothing clients and replicas publish or read makes a copy of anything else.
LEMMA ReplicaCopies ==
    ASSUME VersionInv, WatchTypeOK, NEW k \in Keys, NEW x, Has(k, x)',
           \/ \E c \in Clients : Publish(c) \/ PublishLost(c)
           \/ \E p \in Replicas :
                 \/ ProcessMessage(p) \/ Broadcast(p) \/ MessageLost(p)
                 \/ FindAffected(p) \/ PublishAffected(p) \/ ReportMessageLost(p)
    PROVE  Has(k, x)
<1>1. /\ bus' = bus => (BusHas(k, x)' => BusHas(k, x))
      /\ affected' = affected => (FanHas(k, x)' => FanHas(k, x))
      /\ fetched' = fetched => (HandHas(k, x)' => HandHas(k, x))
      /\ view' = view => (ViewHas(k, x)' => ViewHas(k, x))
      /\ watch' = watch => (PrefixHas(k, x)' => PrefixHas(k, x))
      /\ row' = row => (RowHas(k, x)' => RowHas(k, x))
      /\ req' = req => (ClientHas(k, x)' => ClientHas(k, x))
  BY Zenon DEF BusHas, FanHas, HandHas, ViewHas, PrefixHas, RowHas, ClientHas, At
<1>3. ASSUME NEW c \in Clients, Publish(c) PROVE Has(k, x)
  <2>1. PICK e \in Events :
           e = [type |-> req[c].type, key |-> req[c].key, obj |-> req[c].obj]
    <3>1. req[c] \in Requests /\ req[c].obj \in Objects
      BY Zenon, <1>3 DEF Publish, VersionInv, StoreTypeOK, WritersOK, At
    <3> QED
      BY Zenon, <3>1 DEF Requests, Events
  <2>2. /\ At(c, "publish") /\ Done(c) /\ UNCHANGED <<seq, row, taken>>
        /\ Deliver(e, req[c].late) /\ UNCHANGED <<row, fetched, watch, view>>
    BY Zenon, <1>3, <2>1 DEF Publish, viewVars
  <2>3. /\ ClientHas(req[c].key, req[c].obj)
        /\ ClientHas(k, x)' => ClientHas(k, x)
        /\ FanHas(k, x)' => FanHas(k, x)
    BY Zenon, <2>2, DoneCopies
  <2>4. BusHas(k, x)' => BusHas(k, x) \/ (k = req[c].key /\ x = req[c].obj)
    <3>1. e.key = req[c].key /\ e.obj = req[c].obj
      BY Zenon, <2>1
    <3> QED
      BY Zenon, <2>2, <3>1, DeliverHas
  <2> QED
    BY Zenon, <1>1, <2>2, <2>3, <2>4 DEF Has
<1>4. ASSUME NEW c \in Clients, PublishLost(c) PROVE Has(k, x)
  <2>1. /\ At(c, "publish") /\ Done(c) /\ UNCHANGED <<seq, row, taken>>
        /\ UNCHANGED <<row, bus, fetched, watch, view>>
    BY Zenon, <1>4 DEF PublishLost, viewVars
  <2>2. (ClientHas(k, x)' => ClientHas(k, x)) /\ (FanHas(k, x)' => FanHas(k, x))
    BY Zenon, <2>1, DoneCopies
  <2> QED
    BY Zenon, <1>1, <2>1, <2>2 DEF Has
<1>5. ASSUME NEW p \in Replicas, ProcessMessage(p) PROVE Has(k, x)
  <2>1. /\ bus[p] # <<>> /\ bus' = [bus EXCEPT ![p] = Tail(@)]
        /\ UNCHANGED <<row, req, affected, watch, view>>
    BY Zenon, <1>5 DEF ProcessMessage, viewVars, fanVars
  <2>2. BusHas(Head(bus[p]).key, Head(bus[p]).obj) /\ (BusHas(k, x)' => BusHas(k, x))
    BY Zenon, <2>1, TakeHas
  <2>3. PICK e : e = Head(bus[p])
    BY Zenon
  <2>4. PICK seen : seen = IF e.type = "Deleted" THEN NoObject ELSE Rehydrate(e)
    BY Zenon
  <2>5. /\ fetched'[p].key = e.key /\ fetched'[p].seen = seen
        /\ \A q \in Replicas \ {p} : fetched'[q] = fetched[q]
    BY Zenon, <1>5, <2>3, <2>4 DEF ProcessMessage, WatchTypeOK
  <2>6. seen # NoObject => RowHas(e.key, seen.obj) \/ seen.obj = e.obj
    <3>1. CASE row[e.key] # NoObject /\ row[e.key].uid = e.obj.uid
      <4>1. seen # NoObject => seen = Read(e.key)
        BY Zenon, <2>4, <3>1 DEF Rehydrate
      <4> QED
        BY Zenon, <4>1, ReadHas
    <3>2. CASE ~(row[e.key] # NoObject /\ row[e.key].uid = e.obj.uid)
      BY Zenon, <2>4, <3>2 DEF Rehydrate, Stripped
    <3> QED
      BY Zenon, <3>1, <3>2
  <2>7. HandHas(k, x)' => HandHas(k, x) \/ RowHas(k, x) \/ BusHas(k, x)
    <3> SUFFICES ASSUME HandHas(k, x)' PROVE HandHas(k, x) \/ RowHas(k, x) \/ BusHas(k, x)
      BY Zenon
    <3>1. PICK q \in Replicas : /\ fetched'[q] # NoEvent /\ fetched'[q].key = k
                                /\ fetched'[q].seen # NoObject /\ x = fetched'[q].seen.obj
      BY Zenon DEF HandHas
    <3>2. CASE q = p
      BY Zenon, <2>2, <2>3, <2>5, <2>6, <3>1, <3>2
    <3>3. CASE q # p
      BY Zenon, <2>5, <3>1, <3>3 DEF HandHas
    <3> QED
      BY Zenon, <3>2, <3>3
  <2> QED
    BY Zenon, <1>1, <2>1, <2>2, <2>7 DEF Has
<1>6. ASSUME NEW p \in Replicas, Broadcast(p) PROVE Has(k, x)
  <2>1. /\ UNCHANGED <<row, req, bus, affected, watch>> /\ fetched[p] # NoEvent
        /\ fetched' = [fetched EXCEPT ![p] = NoEvent]
    BY Zenon, <1>6 DEF Broadcast, fanVars
  <2>2. HandHas(k, x)' => HandHas(k, x)
    BY Zenon, <2>1 DEF HandHas, WatchTypeOK
  <2>3. \A i \in Informers : \/ view'[i][k] = view[i][k]
                             \/ k = fetched[p].key /\ view'[i][k] = fetched[p].seen
    <3>1. ASSUME NEW i \in Informers
          PROVE  \/ view'[i] = view[i]
                 \/ view'[i] = [view[i] EXCEPT ![fetched[p].key] = fetched[p].seen]
      BY Zenon, <1>6 DEF Broadcast
    <3>2. \A i \in Informers : view[i] \in [Keys -> Seen \cup {NoObject}]
      BY Zenon DEF WatchTypeOK, Views
    <3> QED
      BY Zenon, <3>1, <3>2
  <2>4. ViewHas(k, x)' => ViewHas(k, x) \/ HandHas(k, x)
    BY Zenon, <2>1, <2>3 DEF ViewHas, HandHas
  <2> QED
    BY Zenon, <1>1, <2>1, <2>2, <2>4 DEF Has
<1>7. ASSUME NEW p \in Replicas, MessageLost(p) PROVE Has(k, x)
  <2>1. /\ bus[p] # <<>> /\ bus' = [bus EXCEPT ![p] = Tail(@)]
        /\ UNCHANGED <<row, req, affected, fetched, watch, view>>
    BY Zenon, <1>7 DEF MessageLost, viewVars, fanVars
  <2>2. BusHas(k, x)' => BusHas(k, x)
    BY Zenon, <2>1, TakeHas
  <2> QED
    BY Zenon, <1>1, <2>1, <2>2 DEF Has
<1>8. ASSUME NEW p \in Replicas, FindAffected(p) PROVE Has(k, x)
  <2>1. UNCHANGED <<row, req, bus, fetched, watch, view>>
    BY Zenon, <1>8 DEF FindAffected, viewVars
  <2>2. PICK A : A = {[event |-> [type |-> "Modified", key |-> l, obj |-> row[l]],
                       late |-> FALSE] : l \in FindByImageRef(Head(fan[p]))}
    BY Zenon
  <2>3. affected'[p] = A /\ \A q \in Replicas \ {p} : affected'[q] = affected[q]
    BY Zenon, <1>8, <2>2 DEF FindAffected, WatchTypeOK
  <2>4. \A a \in A : RowHas(a.event.key, a.event.obj)
    <3>1. ASSUME NEW a \in A PROVE RowHas(a.event.key, a.event.obj)
      <4>1. PICK l \in FindByImageRef(Head(fan[p])) :
               a = [event |-> [type |-> "Modified", key |-> l, obj |-> row[l]], late |-> FALSE]
        BY Zenon, <2>2, <3>1
      <4>2. a.event.key = l /\ a.event.obj = row[l]
        BY <4>1
      <4>3. row[l] # NoObject
        BY Zenon DEF FindByImageRef
      <4> QED
        BY Zenon, <4>2, <4>3 DEF RowHas
    <3> QED
      BY Zenon, <3>1
  <2>5. FanHas(k, x)' => FanHas(k, x) \/ RowHas(k, x)
    BY Zenon, <2>3, <2>4 DEF FanHas
  <2> QED
    BY Zenon, <1>1, <2>1, <2>5 DEF Has
<1>9. ASSUME NEW p \in Replicas, PublishAffected(p) PROVE Has(k, x)
  <2>1. PICK a \in affected[p] :
           Deliver(a.event, a.late) /\ affected' = [affected EXCEPT ![p] = @ \ {a}]
    BY Zenon, <1>9 DEF PublishAffected
  <2>2. UNCHANGED <<row, req, fetched, watch, view>>
    BY Zenon, <1>9 DEF PublishAffected, viewVars
  <2>3. a.event \in Events /\ FanHas(a.event.key, a.event.obj)
    BY Zenon, AffectedKey DEF FanHas
  <2>4. BusHas(k, x)' => BusHas(k, x) \/ FanHas(k, x)
    BY Zenon, <2>1, <2>3, DeliverHas
  <2>5. FanHas(k, x)' => FanHas(k, x)
    <3>1. \A q \in Replicas : affected'[q] \subseteq affected[q]
      BY Zenon, <2>1 DEF WatchTypeOK
    <3> QED
      BY Zenon, <3>1 DEF FanHas
  <2> QED
    BY Zenon, <1>1, <2>2, <2>4, <2>5 DEF Has
<1>10. ASSUME NEW p \in Replicas, ReportMessageLost(p) PROVE Has(k, x)
  <2>1. UNCHANGED <<row, req, bus, affected, fetched, watch, view>>
    BY Zenon, <1>10 DEF ReportMessageLost, viewVars
  <2> QED
    BY Zenon, <1>1, <2>1 DEF Has
<1> QED
  BY Zenon, <1>3, <1>4, <1>5, <1>6, <1>7, <1>8, <1>9, <1>10

\* Nor does what informers list and watch.
LEMMA InformerCopies ==
    ASSUME VersionInv, WatchTypeOK, NEW k \in Keys, NEW x, Has(k, x)', NEW i \in Informers,
           \/ List(i) \/ ListVersion(i) \/ WatchFrom(i) \/ WatchList(i)
           \/ WatchWithPrefix(i) \/ Rewatch(i) \/ StopWatch(i)
    PROVE  Has(k, x)
<1>1. UNCHANGED <<row, req, bus, affected, fetched>>
  BY Zenon DEF List, ListVersion, WatchFrom, WatchList, WatchWithPrefix, Rewatch, StopWatch,
     fanVars
<1>2. /\ 0 \in 0..MaxVersion
      /\ nextResourceVersion => seq + 1 \in 0..MaxVersion
      /\ \A v \in 0..seq : v \in 0..MaxVersion
  BY StoreAssumption DEF nextResourceVersion, VersionInv, StoreTypeOK
<1>3. /\ "off" \in WatchSteps /\ "listed" \in WatchSteps /\ "versioned" \in WatchSteps
      /\ "prefixed" \in WatchSteps /\ "on" \in WatchSteps
  BY DEF WatchSteps
<1>4. /\ Nothing \in Views /\ [l \in Keys |-> Read(l)] \in Views
      /\ \A s : [l \in Keys |-> IF row[l] # NoObject /\ row[l].rv >= s
                                THEN Read(l) ELSE NoObject] \in Views
  BY Zenon, ViewsTyped DEF VersionInv
<1>5. PICK step \in WatchSteps, since \in 0..MaxVersion, prefix \in Views :
         /\ Watching(i, step, since, prefix)
         /\ prefix[k] = NoObject \/ prefix[k] = Read(k)
  <2>1. ASSUME NEW s \in WatchSteps, NEW v \in 0..MaxVersion, Watching(i, s, v, Nothing)
        PROVE  \E step \in WatchSteps, since \in 0..MaxVersion, prefix \in Views :
                  /\ Watching(i, step, since, prefix)
                  /\ prefix[k] = NoObject \/ prefix[k] = Read(k)
    <3>1. Nothing[k] = NoObject
      BY Zenon DEF Nothing
    <3> QED
      BY Zenon, <1>4, <2>1, <3>1
  <2>2. CASE List(i) \/ ListVersion(i) \/ WatchWithPrefix(i) \/ Rewatch(i) \/ StopWatch(i)
    BY Zenon, <1>2, <1>3, <2>1, <2>2
       DEF List, ListVersion, WatchWithPrefix, Rewatch, StopWatch
  <2>3. CASE WatchFrom(i)
    <3>1. PICK f \in Views :
             f = [l \in Keys |-> IF row[l] # NoObject /\ row[l].rv >= watch[i].since
                                 THEN Read(l) ELSE NoObject]
      BY Zenon, <1>4
    <3>2. Watching(i, "prefixed", 0, f)
      BY Zenon, <2>3, <3>1 DEF WatchFrom
    <3>3. f[k] = NoObject \/ f[k] = Read(k)
      BY Zenon, <3>1
    <3> QED
      BY Zenon, <1>2, <1>3, <3>2, <3>3
  <2>4. CASE WatchList(i)
    <3>1. PICK f \in Views : f = [l \in Keys |-> Read(l)]
      BY Zenon, <1>4
    <3>2. Watching(i, "prefixed", 0, f)
      BY Zenon, <2>4, <3>1 DEF WatchList
    <3>3. f[k] = Read(k)
      BY Zenon, <3>1
    <3> QED
      BY Zenon, <1>2, <1>3, <3>2, <3>3
  <2> QED
    BY Zenon, <2>2, <2>3, <2>4
<1>6. watch'[i].prefix = prefix /\ \A j \in Informers \ {i} : watch'[j] = watch[j]
  BY Zenon, <1>5, WatchingEffect
<1>7. PrefixHas(k, x)' => PrefixHas(k, x) \/ RowHas(k, x)
  <2>1. ASSUME NEW j \in Informers, watch'[j].prefix[k] # NoObject, x = watch'[j].prefix[k].obj
        PROVE  PrefixHas(k, x) \/ RowHas(k, x)
    <3>1. CASE j = i
      BY Zenon, <1>5, <1>6, <2>1, <3>1, ReadHas
    <3>2. CASE j # i
      BY Zenon, <1>6, <2>1, <3>2 DEF PrefixHas
    <3> QED
      BY Zenon, <3>1, <3>2
  <2> QED
    BY Zenon, <2>1 DEF PrefixHas
<1>8. /\ \A j \in Informers \ {i} : view'[j] = view[j]
      /\ view'[i][k] \in {NoObject, Read(k), view[i][k], watch[i].prefix[k]}
  <2>1. view \in [Informers -> Views]
    BY Zenon DEF WatchTypeOK
  <2>2. CASE List(i)
    BY Zenon, <2>1, <2>2 DEF List
  <2>3. CASE StopWatch(i)
    BY Zenon, <2>1, <2>3 DEF StopWatch, Nothing
  <2>4. CASE WatchWithPrefix(i)
    <3>1. PICK f : f = [l \in Keys |-> IF watch[i].prefix[l] # NoObject
                                      THEN watch[i].prefix[l] ELSE view[i][l]]
      BY Zenon
    <3>2. view' = [view EXCEPT ![i] = f]
      BY Zenon, <2>1, <2>4, <3>1 DEF WatchWithPrefix
    <3>3. view'[i] = f /\ \A j \in Informers \ {i} : view'[j] = view[j]
      BY Zenon, <2>1, <3>2
    <3>4. f[k] = watch[i].prefix[k] \/ f[k] = view[i][k]
      BY Zenon, <3>1
    <3> QED
      BY Zenon, <3>3, <3>4
  <2>5. CASE ListVersion(i) \/ WatchFrom(i) \/ WatchList(i) \/ Rewatch(i)
    BY Zenon, <2>5 DEF ListVersion, WatchFrom, WatchList, Rewatch
  <2> QED
    BY Zenon, <2>2, <2>3, <2>4, <2>5
<1>9. ViewHas(k, x)' => ViewHas(k, x) \/ RowHas(k, x) \/ PrefixHas(k, x)
  <2>1. ASSUME NEW j \in Informers, view'[j][k] # NoObject, x = view'[j][k].obj
        PROVE  ViewHas(k, x) \/ RowHas(k, x) \/ PrefixHas(k, x)
    <3>1. CASE j = i
      <4>1. \/ view'[i][k] = Read(k)
            \/ view'[i][k] = view[i][k]
            \/ view'[i][k] = watch[i].prefix[k]
        BY Zenon, <1>8, <2>1, <3>1
      <4> QED
        BY Zenon, <2>1, <3>1, <4>1, ReadHas DEF ViewHas, PrefixHas
    <3>2. CASE j # i
      BY Zenon, <1>8, <2>1, <3>2 DEF ViewHas
    <3> QED
      BY Zenon, <3>1, <3>2
  <2> QED
    BY Zenon, <2>1 DEF ViewHas
<1>10. /\ BusHas(k, x)' => BusHas(k, x)
       /\ FanHas(k, x)' => FanHas(k, x)
       /\ HandHas(k, x)' => HandHas(k, x)
       /\ RowHas(k, x)' => RowHas(k, x)
       /\ ClientHas(k, x)' => ClientHas(k, x)
  BY Zenon, <1>1 DEF BusHas, FanHas, HandHas, RowHas, ClientHas, At
<1> QED
  BY Zenon, <1>7, <1>9, <1>10 DEF Has

\* Nobody knows anything at the start but the rows.
LEMMA CopiesStart == ASSUME Init PROVE CopiesOK
<1>1. VersionInv
  BY Zenon, InitInv
<1>2. /\ \A c \in Clients : req[c].step = "idle"
      /\ \A p \in Replicas : bus[p] = <<>> /\ affected[p] = {} /\ fetched[p] = NoEvent
      /\ \A i \in Informers : view[i] = Nothing /\ watch[i].prefix = Nothing
  BY Zenon, IdleIs DEF Init, StoreInit, WatchInit
<1>3. Len(<<>>) = 0 /\ \A n : n \notin 1..0
  OBVIOUS
<1>4. "idle" # "held" /\ "idle" # "publish"
  OBVIOUS
<1>5. ASSUME NEW k \in Keys, NEW x \in Copies(k) PROVE RowHas(k, x)
  <2>1. Has(k, x)
    BY Zenon, <1>5, HasIs
  <2>2. ~ClientHas(k, x) /\ ~FanHas(k, x) /\ ~HandHas(k, x)
    BY Zenon, <1>2, <1>4 DEF ClientHas, FanHas, HandHas, At
  <2>3. ~BusHas(k, x)
    BY Zenon, <1>2, <1>3 DEF BusHas
  <2>4. ~ViewHas(k, x) /\ ~PrefixHas(k, x)
    BY ZenonT(30), <1>2 DEF ViewHas, PrefixHas, Nothing
  <2> QED
    BY Zenon, <2>1, <2>2, <2>3, <2>4 DEF Has
<1>6. \A k \in Keys : row[k] # NoObject => row[k] \in Objects
  BY <1>1 DEF VersionInv, StoreTypeOK
<1>7. \A k \in Keys : \A x \in Copies(k) : x \in Objects /\ x.rv \in taken
  BY ZenonT(30), <1>1, <1>5, <1>6 DEF VersionInv, RowsOK, RowHas
<1>8. \A k, l \in Keys : \A x \in Copies(k), y \in Copies(l) : x.rv = y.rv => k = l /\ x = y
  BY Zenon, <1>1, <1>5 DEF VersionInv, RowsOK, RowHas
<1> QED
  BY Zenon, <1>7, <1>8 DEF CopiesOK

\* No step makes copies that disagree.
LEMMA CopiesStep ==
    ASSUME VersionInv, WatchTypeOK, CopiesOK, [Next]_vars
    PROVE  CopiesOK'
<1>1. CASE UNCHANGED vars
  <2>1. ASSUME NEW k \in Keys, NEW x, Has(k, x)' PROVE Has(k, x)
    BY Zenon, <1>1, <2>1 DEF Has, vars, storeVars, watchVars, RowHas, ClientHas, At, BusHas,
       FanHas, HandHas, ViewHas, PrefixHas
  <2> QED
    BY Zenon, <1>1, <2>1, NoNewCopy DEF vars, storeVars
<1>2. ASSUME NEW c \in Clients, StoreNext(c), UNCHANGED watchVars PROVE CopiesOK'
  BY Zenon, <1>2, StoreCopies
<1>3. CASE WatchNext
  <2>1. taken' = taken
    BY Zenon, <1>3 DEF WatchNext, Publish, PublishLost, ProcessMessage, Broadcast, MessageLost,
       FindAffected, PublishAffected, ReportMessageLost, List, ListVersion, WatchFrom, WatchList,
       WatchWithPrefix, Rewatch, StopWatch
  <2>2. ASSUME NEW k \in Keys, NEW x, Has(k, x)' PROVE Has(k, x)
    BY Zenon, <1>3, <2>2, ReplicaCopies, InformerCopies DEF WatchNext
  <2> QED
    BY Zenon, <2>1, <2>2, NoNewCopy
<1> QED
  BY Zenon, <1>1, <1>2, <1>3 DEF Next

\* Whatever the interleaving of creations, updates and deletions with messages,
\* lists and watches, a version names one state of one object wherever it is met:
\* in the rows, in what a writer is about to write, in messages and in what
\* informers were told (nextResourceVersion, Create, GuaranteedUpdate, Delete,
\* rehydrate, Watch and GetList).
THEOREM VersionsIdentify == Spec => []VersionIdentifies
<1>1. VersionInv /\ WatchInv /\ CopiesOK /\ [Next]_vars => CopiesOK'
  BY Zenon, CopiesStep DEF WatchInv, TypeOK
<1>2. Spec => []CopiesOK
  BY <1>1, CopiesStart, StoreInvariant, WatchInvariant, PTL DEF Spec
<1>3. ASSUME VersionInv, CopiesOK PROVE VersionIdentifies
  <2> DEFINE All(k) == Copies(k) \cup Pending(k)
  <2>1. ASSUME NEW k \in Keys, NEW x \in All(k)
        PROVE  \/ x \in Copies(k) /\ x.rv \in taken
               \/ \E c \in Clients : /\ Writes(c) /\ req[c].key = k /\ x = req[c].obj
                                     /\ x.rv \notin taken
    BY Zenon, <1>3, <2>1 DEF CopiesOK, Pending, Writes, VersionInv, WritersOK
  <2>2. ASSUME NEW k \in Keys, NEW x \in All(k) PROVE x.rv <= seq
    <3>1. CASE x.rv \in taken
      BY Zenon, <1>3, <3>1 DEF VersionInv
    <3>2. CASE \E c \in Clients : Writes(c) /\ x = req[c].obj
      BY Zenon, <1>3, <3>2 DEF VersionInv, WritersOK
    <3> QED
      BY ZenonT(30), <2>1, <3>1, <3>2
  <2>3. ASSUME NEW k \in Keys, NEW l \in Keys, NEW x \in All(k), NEW y \in All(l), x.rv = y.rv
        PROVE  k = l /\ x = y
    <3>1. CASE x.rv \in taken
      <4>1. x \in Copies(k) /\ y \in Copies(l)
        BY Zenon, <2>1, <2>3, <3>1
      <4> QED
        BY Zenon, <1>3, <2>3, <4>1 DEF CopiesOK
    <3>2. CASE x.rv \notin taken
      <4>1. PICK c \in Clients : Writes(c) /\ req[c].key = k /\ x = req[c].obj
        BY ZenonT(30), <2>1, <3>2
      <4>2. PICK d \in Clients : Writes(d) /\ req[d].key = l /\ y = req[d].obj
        BY Zenon, <2>1, <2>3, <3>2
      <4>3. c = d
        BY Zenon, <1>3, <2>3, <4>1, <4>2 DEF VersionInv, WritersOK
      <4> QED
        BY Zenon, <4>1, <4>2, <4>3
    <3> QED
      BY Zenon, <3>1, <3>2
  <2> QED
    BY Zenon, <2>2, <2>3 DEF VersionIdentifies
<1> QED
  BY <1>2, <1>3, StoreInvariant, PTL
=============================================================================
