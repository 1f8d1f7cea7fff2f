----------------------------- MODULE WorkQueue -----------------------------
(***************************************************************************)
(* The JetStream work queue as internal/messaging uses it: a stream with   *)
(* work-queue retention, message-id deduplication on publish, one durable  *)
(* consumer shared by the workers, explicit acknowledgement, redelivery    *)
(* when AckWait elapses.  Time is left out: a deduplication window may or  *)
(* may not have passed, a delayed negative acknowledgement is delivered at *)
(* some later moment, AckWait may elapse whenever a message is pending.    *)
(***************************************************************************)
EXTENDS Naturals

CONSTANTS
    Messages,    \* message ids; the id determines subject and payload
    Workers,     \* worker replicas, each handling one message at a time
    MaxDeliver,  \* deliveries after which a failing message is given up
    MaxCopies,   \* bound: copies of one id the stream stores over time
    NoTask       \* a worker that handles nothing

VARIABLES
    published,   \* published[m]: copies of m the stream has accepted so far
    stream,      \* stream[e]: delivery state of a stored copy
    task         \* task[w]: the entry w handles and its NumDelivered

\* A stored message: its id and which copy of that id it is.
Entries == Messages \X (1..MaxCopies)

Delivery == [st : {"absent", "ready", "pending"}, n : 0..MaxDeliver]

Task == [entry : Entries, n : 0..MaxDeliver]

QueueTypeOK ==
    /\ published \in [Messages -> 0..MaxCopies]
    /\ stream \in [Entries -> Delivery]
    /\ task \in [Workers -> Task \cup {NoTask}]

QueueInit ==
    /\ published = [m \in Messages |-> 0]
    /\ stream = [e \in Entries |-> [st |-> "absent", n |-> 0]]
    /\ task = [w \in Workers |-> NoTask]

InStream(e) == stream[e].st # "absent"

HeldBy(w, e) == task[w] # NoTask /\ task[w].entry = e

\* The stream accepts m as a new message.
Store(m) ==
    /\ published[m] < MaxCopies
    /\ published' = [published EXCEPT ![m] = @ + 1]
    /\ stream' = [stream EXCEPT ![<<m, published[m] + 1>>] =
                                    [st |-> "ready", n |-> 0]]

\* Within the deduplication window a known id is dropped, and Publish still
\* succeeds; once the window has passed the id is stored again.
Publish(m) ==
    \/ published[m] > 0 /\ UNCHANGED <<published, stream>>
    \/ Store(m)

\* The consumer hands a message to a free worker.  NumDelivered is compared
\* with MaxDeliver only, so it is counted up to MaxDeliver.
Deliver(w, e) ==
    LET n == IF stream[e].n < MaxDeliver THEN stream[e].n + 1 ELSE MaxDeliver
    IN  /\ task[w] = NoTask
        /\ stream[e].st = "ready"
        /\ stream' = [stream EXCEPT ![e] = [st |-> "pending", n |-> n]]
        /\ task' = [task EXCEPT ![w] = [entry |-> e, n |-> n]]
        /\ UNCHANGED published

\* AckWait has elapsed for a message nobody acknowledged.
Redeliver(e) ==
    /\ stream[e].st = "pending"
    /\ stream' = [stream EXCEPT ![e].st = "ready"]
    /\ UNCHANGED <<published, task>>

\* An acknowledgement removes the message, also when it was redelivered to
\* another worker in the meantime.
Ack(w) ==
    /\ stream' = [stream EXCEPT ![task[w].entry].st = "absent"]
    /\ task' = [task EXCEPT ![w] = NoTask]
    /\ UNCHANGED published

\* NakWithDelay: the message becomes deliverable again, unless it has been
\* acknowledged in the meantime.
Nak(w) ==
    /\ stream' = [stream EXCEPT ![task[w].entry].st =
                                    IF @ = "absent" THEN @ ELSE "ready"]
    /\ task' = [task EXCEPT ![w] = NoTask]
    /\ UNCHANGED published

\* The worker stops, or its acknowledgement is lost: nothing reaches the
\* server and the message stays pending.
Abandon(w) ==
    /\ task' = [task EXCEPT ![w] = NoTask]
    /\ UNCHANGED <<published, stream>>
=============================================================================
