---------------------------- MODULE ObjectStore ----------------------------
(***************************************************************************)
(* The storage.Interface of internal/storage/store.go over the tables of   *)
(* internal/storage/repository, for one plain resource (the reports) and   *)
(* the WorkloadScanReport resource (the workloads), which reads the        *)
(* reports.  A request is a goroutine: what it does between two database   *)
(* statements interleaves with every other request.  A write statement and *)
(* its COMMIT are one step: a row lock makes other writers of the row wait *)
(* for that commit, and under READ COMMITTED nobody sees the row before.   *)
(***************************************************************************)
EXTENDS Naturals

CONSTANTS
    Reports,     \* keys of VulnerabilityReports
    Workloads,   \* keys of WorkloadScanReports
    Clients,     \* requests the API servers handle at the same time
    Existing,    \* Existing[k]: version of the row a run starts with, 0: none
    MaxVersion,  \* bound: versions drawn from the sequence
    NoObject     \* no row under a key

Keys == Reports \cup Workloads

\* What an object holds besides its metadata.  A workload report names the
\* images of its containers, and a report stands for the image it is about.
Contents(k) == IF k \in Workloads THEN SUBSET Reports ELSE {{}}

\* A UID is only compared for equality, and no two creations draw the same
\* version: the version drawn for the creation stands for the UID.
Objects == [uid : 1..MaxVersion, rv : 1..MaxVersion, val : SUBSET Reports]

ASSUME StoreAssumption ==
    /\ MaxVersion \in Nat
    /\ Keys # {}
    /\ NoObject \notin Objects
    /\ Existing \in [Keys -> 0..MaxVersion]
    /\ \A k, l \in Keys : Existing[k] = Existing[l] /\ Existing[k] # 0 => k = l

VARIABLES
    seq,      \* the sequence resource_version_seq: the last value drawn
    row,      \* row[k]: the committed row of key k
    taken,    \* history: the versions of all rows ever committed
    req       \* req[c]: the request c carries out

Steps == {"idle", "held", "insert", "version", "write", "publish"}

Types == {"Added", "Modified", "Deleted"}

Requests == [step : Steps, key : Keys, obj : Objects \cup {NoObject},
             base : 0..MaxVersion, type : Types, before : SUBSET Clients, late : BOOLEAN]

Idle == [step |-> "idle", key |-> CHOOSE k \in Keys : TRUE, obj |-> NoObject,
         base |-> 0, type |-> "Added", before |-> {}, late |-> FALSE]

StoreTypeOK ==
    /\ seq \in 0..MaxVersion
    /\ row \in [Keys -> Objects \cup {NoObject}]
    /\ taken \in SUBSET (1..MaxVersion)
    /\ req \in [Clients -> Requests]

\* A run may start with rows written before; workloads name all images then.
StoreInit ==
    /\ seq \in {0} \cup {Existing[k] : k \in Keys}
    /\ \A k \in Keys : Existing[k] <= seq
    /\ row = [k \in Keys |->
          IF Existing[k] = 0 THEN NoObject
          ELSE [uid |-> Existing[k], rv |-> Existing[k],
                val |-> IF k \in Workloads THEN Reports ELSE {}]]
    /\ taken = {Existing[k] : k \in Keys} \ {0}
    /\ req = [c \in Clients |-> Idle]

-----------------------------------------------------------------------------
At(c, step) == req[c].step = step

Ends(c) == req' = [req EXCEPT ![c] = Idle]

\* nextval runs outside the transaction: a value drawn is never drawn again,
\* whatever becomes of the request.
nextResourceVersion == seq < MaxVersion /\ seq' = seq + 1

\* A write is committed; what is left to do is to publish the event on o.
\* before: history, who committed earlier and has not published yet.
Commit(c, k, type, o) ==
    /\ row' = [row EXCEPT ![k] = IF type = "Deleted" THEN NoObject ELSE o]
    /\ taken' = IF type = "Deleted" THEN taken ELSE taken \cup {o.rv}
    /\ req' = [req EXCEPT ![c] =
                 [step |-> "publish", key |-> k, obj |-> o, base |-> 0,
                  type |-> type, late |-> FALSE,
                  before |-> {d \in Clients \ {c} : At(d, "publish")}]]

\* Get as a client calls it before it updates or deletes what it read.
Get(c, k) ==
    /\ At(c, "idle") /\ row[k] # NoObject
    /\ req' = [req EXCEPT ![c] =
                 [Idle EXCEPT !.step = "held", !.key = k, !.obj = row[k]]]
    /\ UNCHANGED <<seq, row, taken>>

\* Create draws the version before it opens its transaction.
CreateVersion(c, k, v) ==
    /\ At(c, "idle")
    /\ nextResourceVersion
    /\ req' = [req EXCEPT ![c] =
                 [Idle EXCEPT !.step = "insert", !.key = k,
                              !.obj = [uid |-> seq + 1, rv |-> seq + 1, val |-> v]]]
    /\ UNCHANGED <<row, taken>>

\* Mutant: an existing row is overwritten.
InsertOverwriting(c) ==
    /\ At(c, "insert")
    /\ Commit(c, req[c].key, "Added", req[c].obj)
    /\ UNCHANGED seq

\* INSERT ... ON CONFLICT DO NOTHING: an existing row is a KeyExists error.
Insert(c) ==
    /\ At(c, "insert")
    /\ \/ /\ row[req[c].key] = NoObject
          /\ Commit(c, req[c].key, "Added", req[c].obj)
       \/ /\ row[req[c].key] # NoObject
          /\ Ends(c)
          /\ UNCHANGED <<row, taken>>
    /\ UNCHANGED seq

-----------------------------------------------------------------------------
(* GuaranteedUpdate: read without a lock, call tryUpdate, draw a version,   *)
(* UPDATE by name.  The loop is left on every outcome but the conflict.     *)

ReadForUpdate(c, k, o) ==
    req' = [req EXCEPT ![c] = [Idle EXCEPT !.step = "version", !.key = k,
                                           !.obj = o, !.base = row[k].rv]]

\* A PUT carries the version the client read.  A row with another version is
\* a conflict, after which the loop reads again: only the end of the
\* request's context (Abort) gets it out.
PutRead(c, v) ==
    /\ At(c, "held")
    /\ LET k == req[c].key IN
         \/ row[k] = NoObject /\ Ends(c)
         \/ /\ row[k] # NoObject /\ row[k].rv = req[c].obj.rv
            /\ ReadForUpdate(c, k, [req[c].obj EXCEPT !.val = v])
    /\ UNCHANGED <<seq, row, taken>>

\* A PATCH is applied to the object read.
PatchRead(c, k, v) ==
    /\ At(c, "idle") /\ row[k] # NoObject
    /\ ReadForUpdate(c, k, [row[k] EXCEPT !.val = v])
    /\ UNCHANGED <<seq, row, taken>>

\* Mutant: the version is counted per object.
UpdateVersionFromRow(c) ==
    /\ At(c, "version") /\ seq < MaxVersion
    /\ seq' = IF req[c].base = seq THEN seq + 1 ELSE seq
    /\ req' = [req EXCEPT ![c].step = "write", ![c].obj.rv = req[c].base + 1]
    /\ UNCHANGED <<row, taken>>

UpdateVersion(c) ==
    /\ At(c, "version")
    /\ nextResourceVersion
    /\ req' = [req EXCEPT ![c].step = "write", ![c].obj.rv = seq + 1]
    /\ UNCHANGED <<row, taken>>

\* UPDATE ... WHERE name AND namespace: the version read is not part of the
\* condition, so the row may have changed or be another object by now.
Update(c) ==
    /\ At(c, "write")
    /\ \/ /\ row[req[c].key] # NoObject
          /\ Commit(c, req[c].key, "Modified", req[c].obj)
       \/ /\ row[req[c].key] = NoObject
          /\ Ends(c)
          /\ UNCHANGED <<row, taken>>
    /\ UNCHANGED seq

-----------------------------------------------------------------------------
(* Delete: DELETE ... RETURNING, preconditions on what was deleted, commit. *)

Delete(c, k) ==
    /\ At(c, "idle") /\ row[k] # NoObject
    /\ Commit(c, k, "Deleted", row[k])
    /\ UNCHANGED seq

\* A deletion with the UID the client read as its precondition.
DeleteHeld(c) ==
    /\ At(c, "held")
    /\ LET k == req[c].key
           same == row[k] # NoObject /\ row[k].uid = req[c].obj.uid
       IN  \/ same /\ Commit(c, k, "Deleted", row[k])
           \/ /\ ~same
              /\ Ends(c)
              /\ UNCHANGED <<row, taken>>
    /\ UNCHANGED seq

\* A request ends before its commit: the client goes no further, the context
\* is done (the only way out of the conflict loop) or a statement fails; the
\* transaction is rolled back.
Abort(c) ==
    /\ req[c].step \in {"held", "insert", "version", "write"}
    /\ Ends(c)
    /\ UNCHANGED <<seq, row, taken>>
=============================================================================
