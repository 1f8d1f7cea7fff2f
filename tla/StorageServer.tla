--------------------------- MODULE StorageServer ---------------------------
(***************************************************************************)
(* The storage API server: the object store and its watches, used by       *)
(* concurrent clients.                                                     *)
(***************************************************************************)
EXTENDS WatchFanout

storeVars == <<seq, row, taken, req>>
vars == <<storeVars, watchVars>>

TypeOK == StoreTypeOK /\ WatchTypeOK

Init == StoreInit /\ WatchInit

StoreNext(c) ==
    \/ \E k \in Keys : Get(c, k) \/ Delete(c, k)
    \/ \E k \in Keys : \E v \in Contents(k) : CreateVersion(c, k, v) \/ PatchRead(c, k, v)
    \/ Insert(c)
    \/ \E v \in Contents(req[c].key) : PutRead(c, v)
    \/ UpdateVersion(c)
    \/ Update(c)
    \/ DeleteHeld(c)
    \/ Abort(c)

WatchNext ==
    \/ \E c \in Clients : Publish(c) \/ PublishLost(c)
    \/ \E p \in Replicas :
          \/ ProcessMessage(p) \/ Broadcast(p) \/ MessageLost(p)
          \/ FindAffected(p) \/ PublishAffected(p) \/ ReportMessageLost(p)
    \/ \E i \in Informers :
          \/ List(i) \/ ListVersion(i) \/ WatchFrom(i) \/ WatchList(i)
          \/ WatchWithPrefix(i) \/ Rewatch(i) \/ StopWatch(i)

Next ==
    \/ \E c \in Clients : StoreNext(c) /\ UNCHANGED watchVars
    \/ WatchNext

Spec == Init /\ [][Next]_vars

-----------------------------------------------------------------------------
\* Nothing is left to publish, to deliver or to broadcast.
Quiet ==
    /\ \A c \in Clients : req[c].step # "publish"
    /\ \A p \in Replicas : /\ bus[p] = <<>> /\ fan[p] = <<>>
                           /\ fetched[p] = NoEvent /\ affected[p] = {}

\* An informer whose watch is on and to which every event was given sees what
\* the store holds once all events are through, although messages carry the
\* objects of their publication and are published in another order than
\* the writes were committed in: rehydrate makes up for that, except when a
\* deletion and another write of the same key change places.  For workload
\* reports this includes the reports they show, which change without them.
Converged ==
    Quiet => \A i \in Informers, k \in Keys :
                watch[i].step = "on" /\ k \notin missed[i] \cup astray
                => view[i][k] = Read(k)

\* Copies of the object under k: what requests read, wrote or deleted, what is on
\* its way to the replicas, and what informers were told or are about to be.
Requested(k) ==
    {req[c].obj : c \in {c \in Clients : req[c].key = k /\ (At(c, "held") \/ At(c, "publish"))}}

Sent(k) ==
    UNION {{bus[p][n].obj : n \in {n \in 1..Len(bus[p]) : bus[p][n].key = k}}
           \cup {a.event.obj : a \in {a \in affected[p] : a.event.key = k}} : p \in Replicas}

Told(k) ==
    {x.obj : x \in ({fetched[p].seen : p \in {p \in Replicas : fetched[p] # NoEvent
                                                                /\ fetched[p].key = k}}
                    \cup {view[i][k] : i \in Informers}
                    \cup {watch[i].prefix[k] : i \in Informers}) \ {NoObject}}

Copies(k) == ({row[k]} \ {NoObject}) \cup Requested(k) \cup Sent(k) \cup Told(k)

\* What the writers that have their version are about to write.
Pending(k) ==
    {req[c].obj : c \in {c \in Clients : req[c].key = k /\ (At(c, "insert") \/ At(c, "write"))}}

\* A version names one state of one object, wherever it is met: whatever the
\* interleaving of creations, updates, deletions, late messages and watches, no
\* two different objects among the rows, the copies around and what is about to
\* be written carry the same version, and none carries one that was not drawn.
VersionIdentifies ==
    \A k, l \in Keys : \A x \in Copies(k) \cup Pending(k), y \in Copies(l) \cup Pending(l) :
        x.rv <= seq /\ (x.rv = y.rv => k = l /\ x = y)

\* Why a version names one object, as an invariant that every step keeps: a
\* row has a version and an identity that were installed, and no other row has
\* its version; a writer holds a version that was drawn for it and that nobody
\* has installed; what is about to be published is the row of its version.
Writes(c) == At(c, "insert") \/ At(c, "write")
Announces(c) == At(c, "publish") /\ req[c].type # "Deleted"

RowsOK ==
    /\ \A k \in Keys : row[k] # NoObject => row[k].rv \in taken /\ row[k].uid \in taken
    /\ \A k, l \in Keys : row[k] # NoObject /\ row[l] # NoObject
                           /\ row[k].rv = row[l].rv => k = l

WritersOK ==
    /\ \A c \in Clients : ~At(c, "idle") => req[c].obj \in Objects
    /\ \A c \in Clients : Writes(c) => req[c].obj.rv <= seq /\ req[c].obj.rv \notin taken
    /\ \A c, d \in Clients : Writes(c) /\ Writes(d)
                              /\ req[c].obj.rv = req[d].obj.rv => c = d
    /\ \A c \in Clients : At(c, "insert") => req[c].obj.uid = req[c].obj.rv
    /\ \A c \in Clients : req[c].step \in {"held", "version", "write"}
                           => req[c].obj.uid \in taken

AnnouncedOK ==
    /\ \A c \in Clients : Announces(c) => req[c].obj.rv \in taken
    /\ \A c \in Clients, k \in Keys :
          Announces(c) /\ row[k] # NoObject /\ row[k].rv = req[c].obj.rv
          => k = req[c].key /\ row[k] = req[c].obj
    /\ \A c, d \in Clients : Announces(c) /\ Announces(d)
                              /\ req[c].obj.rv = req[d].obj.rv => c = d

VersionInv ==
    /\ StoreTypeOK
    /\ \A n \in taken : n <= seq
    /\ RowsOK /\ WritersOK /\ AnnouncedOK

\* The copies around are of versions that were installed, and agree.
CopiesOK ==
    /\ \A k \in Keys : \A x \in Copies(k) : x \in Objects /\ x.rv \in taken
    /\ \A k, l \in Keys : \A x \in Copies(k), y \in Copies(l) :
          x.rv = y.rv => k = l /\ x = y

\* Why informers converge, as an invariant that every step keeps.  A plain
\* resource holds nothing that other rows are shown for.
ContentsOK ==
    /\ \A k \in Keys : row[k] # NoObject => row[k].val \in Contents(k)
    /\ \A c \in Clients : req[c].step \in {"insert", "version", "write"}
                           => req[c].obj.val \in Contents(req[c].key)

\* Message m tells what is stored, r: it is about that object, which will be
\* read again, or about a deletion, and nothing is stored.
Tells(m, r) ==
    IF m.type = "Deleted" THEN r = NoObject ELSE r # NoObject /\ r.uid = m.obj.uid

\* Client c has the message on the last write of k still to publish.
Latest(c, k) ==
    At(c, "publish") /\ req[c].key = k /\ Tells(req[c], row[k])

\* A message that is still to be published and does not tell what became of
\* its key is marked late, or will be once the message on the last write is
\* published.
LateMarked ==
    /\ \A c \in Clients : At(c, "publish") =>
          \/ Latest(c, req[c].key) \/ req[c].late
          \/ \E d \in Clients : Latest(d, req[c].key) /\ c \in req[d].before
    /\ \A p \in Replicas : \A a \in affected[p] :
          /\ a.event.type = "Modified"
          /\ \/ Tells(a.event, row[a.event.key]) \/ a.late
             \/ \E d \in Clients : Latest(d, a.event.key)

\* A message on k is still to be published, for itself or for a report it shows.
Underway(k) ==
    \/ \E c \in Clients : At(c, "publish") /\ k \in Shown(req[c].key)
    \/ \E p \in Replicas : \E a \in affected[p] : a.event.key = k
    \/ \E p \in Replicas : \E n \in 1..Len(fan[p]) : k \in FindByImageRef(fan[p][n])

Published(k) == k \notin astray /\ ~Underway(k)

InBus(p, k) == \E n \in 1..Len(bus[p]) : bus[p][n].key = k
InHand(p, k) == fetched[p] # NoEvent /\ fetched[p].key = k

\* Message n on its way to replica p is the last one on k.
LastOn(p, n, k) ==
    bus[p][n].key = k /\ \A m \in (n + 1)..Len(bus[p]) : bus[p][m].key # k

\* Once all messages on k are published, the last one on its way to a replica
\* tells what became of k, and so does the one being broadcast after it.
LastTells ==
    \A p \in Replicas, k \in Keys : Published(k) =>
        /\ \A n \in 1..Len(bus[p]) : LastOn(p, n, k) => Tells(bus[p][n], row[k])
        /\ InHand(p, k) /\ ~InBus(p, k) => fetched[p].seen = Read(k)

\* What informer i knows of k, or will once its watch is on.
Believes(i, k) ==
    IF watch[i].step = "prefixed" /\ watch[i].prefix[k] # NoObject
    THEN watch[i].prefix[k] ELSE view[i][k]

\* Once none is on its way either, informers that missed none know what is stored.
InformersKnow ==
    \A i \in Informers, k \in Keys :
        /\ watch[i].step = "off" => view[i][k] = NoObject
        /\ /\ watch[i].step # "off" /\ k \notin missed[i] /\ Published(k)
           /\ ~InBus(watch[i].replica, k) /\ ~InHand(watch[i].replica, k)
           => Believes(i, k) = Read(k)

WatchInv == TypeOK /\ ContentsOK /\ LateMarked /\ LastTells /\ InformersKnow

\* The store implements the abstract table of versioned objects: Create never
\* replaces an object, only Create brings a new object in, and no write
\* installs a version installed before.
Abstract == INSTANCE VersionedStore
    WITH Versions <- 1..MaxVersion, Data <- SUBSET Reports, table <- row

Implements == Abstract!Spec

\* GuaranteedUpdate retries "until success if there is index conflict": the
\* object it replaces is the one it read and passed to tryUpdate.
NoLostUpdate ==
    [][\A c \in Clients :
          At(c, "write") /\ req'[c].step = "publish"
          => row[req[c].key].rv = req[c].base]_vars
=============================================================================
