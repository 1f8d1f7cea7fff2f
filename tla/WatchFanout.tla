---------------------------- MODULE WatchFanout ----------------------------
(***************************************************************************)
(* Watch events: internal/storage/watcher.go publishes the event of every  *)
(* committed write on NATS, every API server replica reads the object      *)
(* again and hands the event to its watchers; workloadscanreport_watcher   *)
(* turns the event of a report into events of the workload reports that    *)
(* name its image.  The watchers' clients are informers: they list, watch  *)
(* and keep what they were told (Watch, watchList and GetList of store.go).*)
(***************************************************************************)
EXTENDS ObjectStore, Sequences

CONSTANTS
    Replicas,   \* API server replicas
    Informers,  \* clients that list and watch
    MaxFaults,  \* bound: lost publications, messages and failed reads
    MaxBus,     \* bound: messages a replica has not handled yet
    NoEvent     \* a replica that is not handling a message

VARIABLES
    bus,        \* bus[p]: messages for natsWatcher of replica p, in order
    fan,        \* fan[p]: messages for WorkloadScanReportWatcher of replica p
    fetched,    \* fetched[p]: the event p read the object for
    affected,   \* affected[p]: workload reports p still has to publish
    watch,      \* watch[i]: how far informer i is, and the events it starts with
    view,       \* view[i][k]: what informer i believes is under k
    astray,     \* history: keys whose last message is not on their last write
    missed,     \* history: missed[i]: keys with an event i was not given
    faults      \* faults used up

fanVars == <<fan, affected>>
viewVars == <<watch, view>>
watchVars == <<bus, fan, fetched, affected, watch, view, astray, missed,
               faults>>

Events == [type : Types, key : Keys, obj : Objects]

\* What a client sees of an object: the object, and for a workload report
\* the reports found for the images it names.
Seen == [obj : Objects, found : SUBSET Objects]

\* Watches are "off", have listed ("listed"), know the version of the list
\* ("versioned"), hold the events to start with ("prefixed") or are "on".
WatchSteps == {"off", "listed", "versioned", "prefixed", "on"}

\* What informers are told of a key, and a message whose object was read again.
Views == [Keys -> Seen \cup {NoObject}]
Fetched == [type : Types, key : Keys, seen : Seen \cup {NoObject}]

ASSUME WatchAssumption ==
    MaxFaults \in Nat /\ NoObject \notin Seen /\ NoEvent \notin Fetched

WatchTypeOK ==
    /\ bus \in [Replicas -> Seq(Events)]
    /\ fan \in [Replicas -> Seq(Reports)]
    /\ fetched \in [Replicas -> Fetched \cup {NoEvent}]
    /\ affected \in [Replicas -> SUBSET [event : Events, late : BOOLEAN]]
    /\ watch \in [Informers -> [step : WatchSteps, replica : Replicas,
                                since : 0..MaxVersion, prefix : Views]]
    /\ view \in [Informers -> Views]
    /\ astray \subseteq Keys
    /\ missed \in [Informers -> SUBSET Keys]
    /\ faults \in 0..MaxFaults

Nothing == [k \in Keys |-> NoObject]

WatchInit ==
    /\ bus = [p \in Replicas |-> <<>>]
    /\ fan = [p \in Replicas |-> <<>>]
    /\ fetched = [p \in Replicas |-> NoEvent]
    /\ affected = [p \in Replicas |-> {}]
    /\ watch \in [Informers -> [step : {"off"}, replica : Replicas, since : {0},
                                prefix : {Nothing}]]
    /\ view = [i \in Informers |-> Nothing]
    /\ astray = {}
    /\ missed = [i \in Informers |-> {}]
    /\ faults = 0

-----------------------------------------------------------------------------
\* Mutant: images that were not scanned are not left out.
populateContainerResultsAll(o) == {row[r] : r \in o.val}

\* Get and List of WorkloadScanReportRepository fill in the reports found for
\* the images of the containers; other repositories return the row.
populateContainerResults(o) == {row[r] : r \in o.val} \ {NoObject}

Read(k) ==
    IF row[k] = NoObject THEN NoObject
    ELSE [obj |-> row[k], found |-> populateContainerResults(row[k])]

\* The payload of a message is stripped of what can be read again.
Stripped(o) == [obj |-> o, found |-> {}]

\* Workload reports whose containers name the image of report r.
FindByImageRef(r) == {k \in Workloads : row[k] # NoObject /\ r \in row[k].val}

\* Keys whose readers see something else when k changes.
Shown(k) == {k} \cup IF k \in Reports THEN FindByImageRef(k) ELSE {}

\* A message reaches every replica, in the order of publication.
Deliver(e, late) ==
    /\ \A p \in Replicas : Len(bus[p]) < MaxBus
    /\ bus' = [p \in Replicas |-> Append(bus[p], e)]
    /\ astray' = IF late THEN astray \cup {e.key} ELSE astray \ {e.key}

\* The request of c is done.  A message that is still to be published is late
\* when it is on an earlier write of the same key and a deletion, or another
\* object under the name, came between.
Done(c) ==
    LET Parts(o, type) == "Deleted" \in {type, req[c].type} \/ o.uid # req[c].obj.uid
        Late(d) == /\ At(d, "publish") /\ req[d].key = req[c].key
                   /\ d \in req[c].before /\ Parts(req[d].obj, req[d].type)
        Marked(a) == IF a.event.key = req[c].key /\ Parts(a.event.obj, "Modified")
                     THEN [a EXCEPT !.late = TRUE] ELSE a
    IN  /\ req' = [d \in Clients |->
              IF d = c THEN Idle
              ELSE [req[d] EXCEPT !.late = @ \/ Late(d), !.before = @ \ {c}]]
        /\ affected' = [p \in Replicas |-> {Marked(a) : a \in affected[p]}]

\* Mutant: nobody turns events of reports into events of workload reports.
PublishPlain(c) ==
    /\ At(c, "publish")
    /\ Deliver([type |-> req[c].type, key |-> req[c].key, obj |-> req[c].obj],
               req[c].late)
    /\ Done(c)
    /\ UNCHANGED <<seq, row, taken, fan, fetched, viewVars, missed, faults>>

\* Action, at the end of Create, GuaranteedUpdate and Delete.
Publish(c) ==
    /\ At(c, "publish")
    /\ Deliver([type |-> req[c].type, key |-> req[c].key, obj |-> req[c].obj],
               req[c].late)
    /\ fan' = IF req[c].key \in Reports
              THEN [p \in Replicas |-> Append(fan[p], req[c].key)] ELSE fan
    /\ Done(c)
    /\ UNCHANGED <<seq, row, taken, fetched, viewVars, missed, faults>>

Fault == faults < MaxFaults /\ faults' = faults + 1

\* The publication fails, which is only logged, or the replica stops first.
PublishLost(c) ==
    /\ Fault
    /\ At(c, "publish")
    /\ astray' = astray \cup Shown(req[c].key)
    /\ Done(c)
    /\ UNCHANGED <<seq, row, taken, bus, fan, fetched, viewVars, missed>>

-----------------------------------------------------------------------------
\* Mutant: the watchers are given what was published.
RehydratePayload(e) == [obj |-> e.obj, found |-> {}]

\* rehydrate: the stored object, if it is the one the message is about.
Rehydrate(e) ==
    IF row[e.key] # NoObject /\ row[e.key].uid = e.obj.uid
    THEN Read(e.key) ELSE Stripped(e.obj)

\* natsWatcher.processMessage up to the broadcast.  Informers that are given
\* the stored object need nothing they were not told before.
ProcessMessage(p) ==
    /\ fetched[p] = NoEvent /\ bus[p] # <<>>
    /\ LET e == Head(bus[p])
           current == e.type # "Deleted" /\ row[e.key] # NoObject
                      /\ row[e.key].uid = e.obj.uid
       IN  /\ fetched' = [fetched EXCEPT ![p] =
                 [type |-> e.type, key |-> e.key,
                  seen |-> IF e.type = "Deleted" THEN NoObject ELSE Rehydrate(e)]]
           /\ missed' = [i \in Informers |->
                 IF current /\ watch[i].step = "on" /\ watch[i].replica = p
                 THEN missed[i] \ {e.key} ELSE missed[i]]
    /\ bus' = [bus EXCEPT ![p] = Tail(@)]
    /\ UNCHANGED <<seq, row, taken, req, fanVars, viewVars,
                   astray, faults>>

\* Informers of I that have listed already are not told of a change of k.
NotTold(I, k) ==
    missed' = [i \in Informers |->
                 IF i \in I /\ watch[i].step # "off" THEN missed[i] \cup {k}
                 ELSE missed[i]]

\* The local broadcaster hands the event to the watches it knows.
Broadcast(p) ==
    /\ fetched[p] # NoEvent
    /\ view' = [i \in Informers |->
          IF watch[i].step = "on" /\ watch[i].replica = p
          THEN [view[i] EXCEPT ![fetched[p].key] = fetched[p].seen] ELSE view[i]]
    /\ NotTold({i \in Informers : watch[i].replica = p /\ watch[i].step # "on"},
               fetched[p].key)
    /\ fetched' = [fetched EXCEPT ![p] = NoEvent]
    /\ UNCHANGED <<seq, row, taken, req, bus, fanVars, watch,
                   astray, faults>>

\* A message is lost on its way, or its handler fails to read the object.
MessageLost(p) ==
    /\ Fault
    /\ fetched[p] = NoEvent /\ bus[p] # <<>>
    /\ NotTold({i \in Informers : watch[i].replica = p}, Head(bus[p]).key)
    /\ bus' = [bus EXCEPT ![p] = Tail(@)]
    /\ UNCHANGED <<seq, row, taken, req, fanVars, fetched, viewVars, astray>>

-----------------------------------------------------------------------------
\* processVulnerabilityReportEvent finds the workload reports ...
FindAffected(p) ==
    /\ fan[p] # <<>> /\ affected[p] = {}
    /\ affected' = [affected EXCEPT ![p] =
          {[event |-> [type |-> "Modified", key |-> k, obj |-> row[k]], late |-> FALSE] :
              k \in FindByImageRef(Head(fan[p]))}]
    /\ fan' = [fan EXCEPT ![p] = Tail(@)]
    /\ UNCHANGED <<seq, row, taken, req, bus, fetched, viewVars,
                   astray, missed, faults>>

\* ... and publishes one event for each of them.
PublishAffected(p) ==
    /\ \E a \in affected[p] :
          /\ Deliver(a.event, a.late)
          /\ affected' = [affected EXCEPT ![p] = @ \ {a}]
    /\ UNCHANGED <<seq, row, taken, req, fan, fetched, viewVars, missed,
                   faults>>

\* A message on a report is lost or FindByImageRef fails.
ReportMessageLost(p) ==
    /\ Fault
    /\ fan[p] # <<>>
    /\ astray' = astray \cup FindByImageRef(Head(fan[p]))
    /\ fan' = [fan EXCEPT ![p] = Tail(@)]
    /\ UNCHANGED <<seq, row, taken, req, bus, fetched, affected, viewVars, missed>>

-----------------------------------------------------------------------------
(* An informer starts with a list and a watch from the list's version, or   *)
(* with a watch that sends the initial list as events.                      *)

Watching(i, step, since, prefix) ==
    watch' = [watch EXCEPT ![i] = [@ EXCEPT !.step = step, !.since = since,
                                            !.prefix = prefix]]

\* GetList without a version: first the rows ...
List(i) ==
    /\ watch[i].step = "off"
    /\ view' = [view EXCEPT ![i] = [k \in Keys |-> Read(k)]]
    /\ Watching(i, "listed", 0, Nothing)
    /\ UNCHANGED <<seq, row, taken, req, bus, fanVars, fetched, astray, missed,
                   faults>>

\* ... then a version drawn for the list.
ListVersion(i) ==
    /\ watch[i].step = "listed"
    /\ nextResourceVersion
    /\ Watching(i, "versioned", seq + 1, Nothing)
    /\ UNCHANGED <<row, taken, req, bus, fanVars, fetched, view,
                   astray, missed, faults>>

\* Watch from a version: the rows with that version or a later one come first.
WatchFrom(i) ==
    /\ watch[i].step = "versioned"
    /\ Watching(i, "prefixed", 0,
                [k \in Keys |-> IF row[k] # NoObject /\ row[k].rv >= watch[i].since
                                THEN Read(k) ELSE NoObject])
    /\ UNCHANGED <<seq, row, taken, req, bus, fanVars, fetched, view, astray, missed, faults>>

\* watchList: all rows come first.  The version drawn for its bookmark names no
\* row and is left out.
WatchList(i) ==
    /\ watch[i].step = "off"
    /\ Watching(i, "prefixed", 0, [k \in Keys |-> Read(k)])
    /\ UNCHANGED <<seq, row, taken, req, bus, fanVars, fetched, view, astray,
                   missed, faults>>

\* WatchWithPrefix: from here on the broadcaster knows the watch.
WatchWithPrefix(i) ==
    /\ watch[i].step = "prefixed"
    /\ view' = [view EXCEPT ![i] =
          [k \in Keys |-> IF watch[i].prefix[k] # NoObject THEN watch[i].prefix[k]
                          ELSE @[k]]]
    /\ Watching(i, "on", 0, Nothing)
    /\ UNCHANGED <<seq, row, taken, req, bus, fanVars, fetched,
                   astray, missed, faults>>

\* The connection ends and the informer watches again from the version it heard
\* of last, which may be any that was drawn; it keeps what it was told.
Rewatch(i) ==
    /\ watch[i].step = "on"
    /\ \E v \in 0..seq : Watching(i, "versioned", v, Nothing)
    /\ UNCHANGED <<seq, row, taken, req, bus, fanVars, fetched, view, astray,
                   missed, faults>>

\* The connection ends; the informer starts over.
StopWatch(i) ==
    /\ watch[i].step = "on"
    /\ Watching(i, "off", 0, Nothing)
    /\ view' = [view EXCEPT ![i] = Nothing]
    /\ missed' = [missed EXCEPT ![i] = {}]
    /\ UNCHANGED <<seq, row, taken, req, bus, fanVars, fetched, astray, faults>>
=============================================================================
