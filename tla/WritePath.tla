----------------------------- MODULE WritePath ----------------------------
(***************************************************************************)
(* The write path: storage, the event log, the indexing queue and the worker that*)
(* keeps the search index in step.                                         *)
(***************************************************************************)
EXTENDS Integers, Sequences, FiniteSets

(***************************************************************************)
(* What the indexing worker does with an event of a key                     *)
(* (notedthat-indexer/src/worker.rs: handle; worker/pipeline.rs), step by   *)
(* step: HEAD, announcement, skip, snapshot, batches, cleanup, outcome.     *)
(* Events reach it through one FIFO mailbox per key, one handler of a key   *)
(* at a time: what KeyedWork promises and IndexScheduler implements.        *)
(*                                                                         *)
(* An ETag names a content, so a body stands for its own ETag.  There is    *)
(* one knowledge base.                                                      *)
(***************************************************************************)
CONSTANTS Keys,       \* object keys
    Bodies,     \* contents of an object
    Chunks,     \* body -> number of chunks it is cut into
    Opaque,     \* bodies the index does not hold: not text, or empty
    Absent,     \* no object
    Unseen,     \* nothing known of a key
    BatchSize,  \* chunks per batch
    MaxFaults   \* bound on failures of storage, embedder, index, log and process

VARIABLES
    store,     \* key -> its object in storage
    points,    \* key -> its points in the index: <<chunk index, ETag>>
    queue,     \* key -> kinds of the events waiting
    depth,     \* permits out: events queued or in a handler
    alive,     \* the worker runs
    pc,        \* key -> where its handler is, "idle" for none
    kind,      \* key -> kind of the event its handler is for
    head,      \* key -> what HEAD found, Unseen before it answered
    next,      \* key -> chunks written so far
    outcome,   \* key -> outcome of its last handler
    seen,      \* LastSeen: key -> version, Unseen when it has no stamp
    said,      \* key -> versions a change event in the log names
    lastSaid,  \* key -> version the newest change event names
    balance,   \* KbRecord.enqueued - KbRecord.completed
    kbFailed,  \* KbRecord.last_outcome_failed
    faults     \* failures so far

ASSUME ChunksAssumption == Chunks \in [Bodies -> Nat]
ASSUME OpaqueAssumption == Opaque \subseteq Bodies
ASSUME VersionAssumption == Absent \notin Bodies /\ Unseen \notin Bodies \cup {Absent}
ASSUME BatchAssumption == BatchSize \in Nat \ {0}
ASSUME FaultsAssumption == MaxFaults \in Nat

Versions == Bodies \cup {Absent}
Kinds == {"upsert", "refresh", "tombstone"}


handlerVars == <<pc, kind, head, next, outcome>>
logVars == <<said, lastSaid>>
healthVars == <<balance, kbFailed>>
pipelineVars == <<store, points, queue, depth, alive, handlerVars, seen, logVars, healthVars, faults>>

PipelineInit ==
    /\ store = [k \in Keys |-> Absent]
    /\ points = [k \in Keys |-> {}]
    /\ queue = [k \in Keys |-> <<>>]
    /\ depth = 0
    /\ alive = TRUE
    /\ pc = [k \in Keys |-> "idle"]
    /\ kind = [k \in Keys |-> "refresh"]
    /\ head = [k \in Keys |-> Unseen]
    /\ next = [k \in Keys |-> 0]
    /\ outcome = [k \in Keys |-> "none"]
    /\ seen = [k \in Keys |-> Unseen]
    /\ said = [k \in Keys |-> {}]
    /\ lastSaid = [k \in Keys |-> Absent]
    /\ balance = 0
    /\ kbFailed = FALSE
    /\ faults = 0

\* Something outside the process fails.
Fault == faults < MaxFaults /\ faults' = faults + 1

\* The points of an object whose indexing is complete.
Wanted(v) == IF v \in Bodies \ Opaque THEN (0 .. Chunks[v] - 1) \X {v} ELSE {}

\* A change event enters the log.
Announced(k, v) ==
    /\ said' = [said EXCEPT ![k] = @ \cup {v}]
    /\ lastSaid' = [lastSaid EXCEPT ![k] = v]

\* The next event of a key starts its handler.
Begin(k) ==
    /\ alive
    /\ pc[k] = "idle"
    /\ queue[k] # <<>>
    /\ queue' = [queue EXCEPT ![k] = Tail(@)]
    /\ kind' = [kind EXCEPT ![k] = Head(queue[k])]
    /\ pc' = [pc EXCEPT ![k] = "head"]
    /\ head' = [head EXCEPT ![k] = Unseen]
    /\ outcome' = [outcome EXCEPT ![k] = "none"]
    /\ UNCHANGED <<store, points, depth, alive, next, seen, logVars, healthVars, faults>>

\* The version HEAD finds is the echo of a change that the write path announced.
IsEcho(k, v) == kind[k] = IF v = Absent THEN "tombstone" ELSE "upsert"

\* What follows the announcement.
AfterHead(v) == IF v = Absent THEN "erase" ELSE "index"

\* handle_upsert, once HEAD has answered: a detected change is announced if it is
\* news, and an announced one is remembered.
Examine(k) ==
    /\ pc[k] = "head"
    /\ head' = [head EXCEPT ![k] = store[k]]
    /\ \/ /\ kind[k] = "refresh"
          /\ seen[k] # store[k]
          /\ seen' = [seen EXCEPT ![k] = store[k]]
          /\ pc' = [pc EXCEPT ![k] = "announce"]
       \/ /\ kind[k] = "refresh" => seen[k] = store[k]
          /\ seen' = IF IsEcho(k, store[k]) THEN [seen EXCEPT ![k] = store[k]] ELSE seen
          /\ pc' = [pc EXCEPT ![k] = AfterHead(store[k])]
    /\ UNCHANGED <<store, points, queue, depth, alive, kind, next, outcome, logVars, healthVars, faults>>

\* Mutant: a detected deletion is remembered and not published.
AnnounceLiveOnly(k) ==
    /\ pc[k] = "announce"
    /\ \/ head[k] # Absent /\ Announced(k, head[k])
       \/ head[k] = Absent /\ UNCHANGED logVars
    /\ pc' = [pc EXCEPT ![k] = AfterHead(head[k])]
    /\ UNCHANGED <<store, points, queue, depth, alive, kind, head, next, outcome, seen, healthVars, faults>>

\* announce: the stamp is recorded already, and a refused publish is only logged.
Announce(k) ==
    /\ pc[k] = "announce"
    /\ \/ Announced(k, head[k]) /\ UNCHANGED faults
       \/ Fault /\ UNCHANGED logVars
    /\ pc' = [pc EXCEPT ![k] = AfterHead(head[k])]
    /\ UNCHANGED <<store, points, queue, depth, alive, kind, head, next, outcome, seen, healthVars>>

\* HEAD of a deleted key fails: the tombstone is taken at its word.
HeadUnavailable(k) ==
    /\ pc[k] = "head"
    /\ kind[k] = "tombstone"
    /\ Fault
    /\ pc' = [pc EXCEPT ![k] = "erase"]
    /\ UNCHANGED <<store, points, queue, depth, alive, kind, head, next, outcome, seen, logVars, healthVars>>

\* indexed_etag: the key has points and every one of them carries the ETag.
IndexedAs(k, v) == points[k] # {} /\ \A p \in points[k] : p[2] = v

\* already_indexed, asked by a refresh and a tombstone.
AlreadyIndexed(k) == kind[k] # "upsert" /\ IndexedAs(k, head[k])

\* index_head up to the snapshot.  Asking the index may fail, which reads as "not
\* indexed".
Decide(k) ==
    /\ pc[k] = "index"
    /\ \/ /\ head[k] \in Opaque
          /\ pc' = [pc EXCEPT ![k] = "erase"]
          /\ UNCHANGED <<outcome, faults>>
       \/ /\ head[k] \notin Opaque
          /\ AlreadyIndexed(k)
          /\ pc' = [pc EXCEPT ![k] = "stamp"]
          /\ outcome' = [outcome EXCEPT ![k] = "skipped"]
          /\ UNCHANGED faults
       \/ /\ head[k] \notin Opaque
          /\ IF AlreadyIndexed(k) THEN Fault ELSE UNCHANGED faults
          /\ pc' = [pc EXCEPT ![k] = "read"]
          /\ UNCHANGED outcome
    /\ UNCHANGED <<store, points, queue, depth, alive, kind, head, next, seen, logVars, healthVars>>

\* stage_snapshot, conditional on the ETag HEAD gave: a change in between is final.
Snapshot(k) ==
    /\ pc[k] = "read"
    /\ \/ /\ store[k] = head[k]
          /\ pc' = [pc EXCEPT ![k] = "write"]
          /\ UNCHANGED outcome
       \/ /\ store[k] # head[k]
          /\ pc' = [pc EXCEPT ![k] = "stamp"]
          /\ outcome' = [outcome EXCEPT ![k] = "failed"]
    /\ next' = [next EXCEPT ![k] = 0]
    /\ UNCHANGED <<store, points, queue, depth, alive, kind, head, seen, logVars, healthVars, faults>>

BatchEnd(k) ==
    IF next[k] + BatchSize < Chunks[head[k]] THEN next[k] + BatchSize ELSE Chunks[head[k]]

\* upsert_points: the points of a batch replace those with the same index.
WithBatch(k) ==
    LET batch == next[k] .. BatchEnd(k) - 1
    IN {p \in points[k] : p[1] \notin batch} \cup (batch \X {head[k]})

\* upsert_batches.
WriteBatch(k) ==
    /\ pc[k] = "write"
    /\ next[k] < Chunks[head[k]]
    /\ points' = [points EXCEPT ![k] = WithBatch(k)]
    /\ next' = [next EXCEPT ![k] = BatchEnd(k)]
    /\ UNCHANGED <<store, queue, depth, alive, pc, kind, head, outcome, seen, logVars, healthVars, faults>>

\* The last batch was written.  A body without chunks leaves the index.
WriteDone(k) ==
    /\ pc[k] = "write"
    /\ next[k] = Chunks[head[k]]
    /\ pc' = [pc EXCEPT ![k] = IF next[k] = 0 THEN "erase" ELSE "cleanup"]
    /\ UNCHANGED <<store, points, queue, depth, alive, kind, head, next, outcome, seen, logVars, healthVars, faults>>

\* Mutant: obsolete points are kept.
KeptAll(k) == points[k]

\* cleanup_obsolete.
Kept(k) == {p \in points[k] : p[1] < next[k]}

Cleanup(k) ==
    /\ pc[k] = "cleanup"
    /\ points' = [points EXCEPT ![k] = Kept(k)]
    /\ pc' = [pc EXCEPT ![k] = "stamp"]
    /\ outcome' = [outcome EXCEPT ![k] = "indexed"]
    /\ UNCHANGED <<store, queue, depth, alive, kind, head, next, seen, logVars, healthVars, faults>>

\* handle_tombstone.
Erase(k) ==
    /\ pc[k] = "erase"
    /\ points' = [points EXCEPT ![k] = {}]
    /\ pc' = [pc EXCEPT ![k] = "stamp"]
    /\ outcome' = [outcome EXCEPT ![k] = "tombstoned"]
    /\ UNCHANGED <<store, queue, depth, alive, kind, head, next, seen, logVars, healthVars, faults>>

\* A step of the pipeline fails or panics.
\* A refused request to the index may have been carried out all the same.
Fail(k) ==
    /\ Fault
    /\ \/ /\ pc[k] \in {"head", "read", "write", "cleanup", "erase"}
          /\ UNCHANGED points
       \/ /\ pc[k] = "write"
          /\ next[k] < Chunks[head[k]]
          /\ points' = [points EXCEPT ![k] = WithBatch(k)]
       \/ /\ pc[k] = "cleanup"
          /\ points' = [points EXCEPT ![k] = Kept(k)]
       \/ /\ pc[k] = "erase"
          /\ points' = [points EXCEPT ![k] = {}]
    /\ pc' = [pc EXCEPT ![k] = "stamp"]
    /\ outcome' = [outcome EXCEPT ![k] = "failed"]
    /\ UNCHANGED <<store, queue, depth, alive, kind, head, next, seen, logVars, healthVars>>

\* Mutant: a failed event is not counted as completed.
StampSuccessOnly(k) ==
    /\ pc[k] = "stamp"
    /\ balance' = IF outcome[k] = "failed" THEN balance ELSE balance - 1
    /\ kbFailed' = (outcome[k] = "failed")
    /\ pc' = [pc EXCEPT ![k] = "tell"]
    /\ UNCHANGED <<store, points, queue, depth, alive, kind, head, next, outcome, seen, logVars, faults>>

\* handle, once the pipeline has ended: IndexHealth::succeeded or failed.
Stamp(k) ==
    /\ pc[k] = "stamp"
    /\ balance' = balance - 1
    /\ kbFailed' = (outcome[k] = "failed")
    /\ pc' = [pc EXCEPT ![k] = "tell"]
    /\ UNCHANGED <<store, points, queue, depth, alive, kind, head, next, outcome, seen, logVars, faults>>

\* The outcome is published, the handler ends and its permit is released.
Tell(k) ==
    /\ pc[k] = "tell"
    /\ pc' = [pc EXCEPT ![k] = "idle"]
    /\ depth' = depth - 1
    /\ UNCHANGED <<store, points, queue, alive, kind, head, next, outcome, seen, logVars, healthVars, faults>>

\* LastSeen::record forgets the oldest key when it is full.
Forget(k) ==
    /\ seen[k] # Unseen
    /\ seen' = [seen EXCEPT ![k] = Unseen]
    /\ UNCHANGED <<store, points, queue, depth, alive, handlerVars, logVars, healthVars, faults>>

\* The worker ends: what is queued or in progress is dropped.
WorkerEnds ==
    /\ alive
    /\ Fault
    /\ alive' = FALSE
    /\ queue' = [k \in Keys |-> <<>>]
    /\ depth' = 0
    /\ pc' = [k \in Keys |-> "idle"]
    /\ UNCHANGED <<store, points, kind, head, next, outcome, seen, logVars, healthVars>>

Handle(k) ==
    \/ Begin(k)
    \/ Examine(k)
    \/ Announce(k)
    \/ HeadUnavailable(k)
    \/ Decide(k)
    \/ Snapshot(k)
    \/ WriteBatch(k)
    \/ WriteDone(k)
    \/ Cleanup(k)
    \/ Erase(k)
    \/ Fail(k)
    \/ Stamp(k)
    \/ Tell(k)
PipelineTypeOK ==
    /\ store \in [Keys -> Versions]
    /\ points \in [Keys -> SUBSET (Nat \X Bodies)]
    /\ queue \in [Keys -> Seq(Kinds)]
    /\ depth \in Nat
    /\ alive \in BOOLEAN
    /\ seen \in [Keys -> Versions \cup {Unseen}]
    /\ said \in [Keys -> SUBSET Versions]
    /\ lastSaid \in [Keys -> Versions]
    /\ balance \in Int
    /\ kbFailed \in BOOLEAN
    /\ faults \in 0 .. MaxFaults

HandlerTypeOK ==
    /\ pc \in [Keys -> {"idle", "head", "announce", "index", "read", "write", "cleanup",
                        "erase", "stamp", "tell"}]
    /\ kind \in [Keys -> Kinds]
    /\ head \in [Keys -> Versions \cup {Unseen}]
    /\ next \in [Keys -> Nat]
    /\ outcome \in [Keys -> {"none", "indexed", "skipped", "tombstoned", "failed"}]

-----------------------------------------------------------------------------
(***************************************************************************)
(* The write path shared by every surface (notedthat-write/src/commit.rs)   *)
(* with the indexing worker behind it: a request changes storage, publishes *)
(* the change, offers an event to the index queue and counts it on the      *)
(* health record.  Requests run concurrently and may be dropped at an       *)
(* await.  Others may change storage behind the server's back; on the fs    *)
(* backend a watcher notices every change, the server's own included.       *)
(***************************************************************************)
CONSTANTS Writers,     \* requests that change objects
    Capacity,    \* pending events of the index queue
    Watched,     \* the fs watcher runs
    MaxChanges,  \* bound on the changes requests make
    MaxEdits     \* bound on the changes others make

VARIABLES
    wpc,      \* writer -> where it is: "idle", "describe", "publish", "offer" or "record"
    wkey,     \* writer -> key it changes
    wver,     \* writer -> version it stored
    dirty,    \* keys the watcher will report
    noting,   \* the bridge has queued an event and not counted it yet
    owed,     \* key -> a change of it reached no queue and no watcher
    full,     \* KbRecord.last_backpressure_at lies within the window
    changes,  \* changes made by requests
    edits     \* changes made by others

ASSUME CapacityAssumption == Capacity \in Nat \ {0}
ASSUME WatchedAssumption == Watched \in BOOLEAN
ASSUME ChangesAssumption == MaxChanges \in Nat /\ MaxEdits \in Nat


writerVars == <<wpc, wkey, wver>>
envVars == <<changes, edits>>
vars == <<pipelineVars, writerVars, dirty, noting, owed, full, envVars>>

Init ==
    /\ PipelineInit
    /\ wpc = [w \in Writers |-> "idle"]
    /\ wkey \in [Writers -> Keys]
    /\ wver = [w \in Writers |-> Absent]
    /\ dirty = {}
    /\ noting = FALSE
    /\ owed = [k \in Keys |-> FALSE]
    /\ full = FALSE
    /\ changes = 0
    /\ edits = 0

\* A change of k is in storage: the watcher will report it.
Changed(k, v) ==
    /\ store' = [store EXCEPT ![k] = v]
    /\ dirty' = IF Watched THEN dirty \cup {k} ELSE dirty

\* An event enters the queue: what was owed to its key is settled, since its
\* handler reads storage later.
Queued(k, e) ==
    /\ queue' = [queue EXCEPT ![k] = Append(@, e)]
    /\ depth' = depth + 1
    /\ owed' = [owed EXCEPT ![k] = FALSE]

\* A request has changed storage.
Stored(w, k, v, then) ==
    /\ wpc[w] = "idle"
    /\ changes < MaxChanges
    /\ changes' = changes + 1
    /\ Changed(k, v)
    /\ wpc' = [wpc EXCEPT ![w] = then]
    /\ wkey' = [wkey EXCEPT ![w] = k]
    /\ wver' = [wver EXCEPT ![w] = v]
    /\ UNCHANGED <<points, queue, depth, alive, handlerVars, seen, logVars, healthVars, faults,
                   noting, owed, full, edits>>

\* commit: EnqueueOnDrop is armed at once.
Put(w, k, b) == Stored(w, k, b, "publish")

\* commit_copy, the copy.
Copy(w, source, k) ==
    /\ store[source] # Absent
    /\ Stored(w, k, store[source], "describe")

\* commit_copy, the HEAD of the destination: whatever it answers, the copy is
\* published.  A request dropped here has armed nothing.
Describe(w) ==
    /\ wpc[w] = "describe"
    /\ \/ wpc' = [wpc EXCEPT ![w] = "publish"] /\ UNCHANGED <<owed, faults>>
       \/ /\ Fault
          /\ wpc' = [wpc EXCEPT ![w] = "idle"]
          /\ owed' = [owed EXCEPT ![wkey[w]] = @ \/ ~Watched]
    /\ UNCHANGED <<store, points, queue, depth, alive, handlerVars, seen, logVars, healthVars,
                   wkey, wver, dirty, noting, full, envVars>>

\* commit_delete: a missing key is published and offered all the same.
Delete(w, k) == Stored(w, k, Absent, "publish")

\* The request is dropped while storage makes the change: nothing is armed yet.
StoreDropped(w, k, v) ==
    /\ wpc[w] = "idle"
    /\ Fault
    /\ Changed(k, v)
    /\ owed' = [owed EXCEPT ![k] = @ \/ ~Watched]
    /\ UNCHANGED <<points, queue, depth, alive, handlerVars, seen, logVars, healthVars,
                   writerVars, noting, full, envVars>>

\* Mutant: no guard is armed, and a request dropped at the publish offers nothing.
PublishUnguarded(w) ==
    /\ wpc[w] = "publish"
    /\ \/ Announced(wkey[w], wver[w]) /\ UNCHANGED faults /\ wpc' = [wpc EXCEPT ![w] = "offer"]
       \/ UNCHANGED logVars /\ Fault /\ wpc' = [wpc EXCEPT ![w] = "idle"]
    /\ UNCHANGED <<store, points, queue, depth, alive, handlerVars, seen, healthVars,
                   wkey, wver, dirty, noting, owed, full, envVars>>

\* publish succeeds; or is refused, or the request is dropped while it awaits, in
\* which case the event may have reached the log.  The offer follows in any case.
Publish(w) ==
    /\ wpc[w] = "publish"
    /\ \/ Announced(wkey[w], wver[w]) /\ UNCHANGED faults
       \/ UNCHANGED logVars /\ Fault
    /\ wpc' = [wpc EXCEPT ![w] = "offer"]
    /\ UNCHANGED <<store, points, queue, depth, alive, handlerVars, seen, healthVars,
                   wkey, wver, dirty, noting, owed, full, envVars>>

EventOf(v) == IF v = Absent THEN "tombstone" ELSE "upsert"

\* offer_to_index, the try_send.
Offer(w) ==
    /\ wpc[w] = "offer"
    /\ \/ /\ alive
          /\ depth < Capacity
          /\ Queued(wkey[w], EventOf(wver[w]))
          /\ wpc' = [wpc EXCEPT ![w] = "record"]
          /\ UNCHANGED full
       \/ /\ alive
          /\ depth >= Capacity
          /\ full' = TRUE
          /\ owed' = [owed EXCEPT ![wkey[w]] = @ \/ ~Watched]
          /\ wpc' = [wpc EXCEPT ![w] = "idle"]
          /\ UNCHANGED <<queue, depth>>
       \/ /\ ~alive
          /\ wpc' = [wpc EXCEPT ![w] = "idle"]
          /\ UNCHANGED <<queue, depth, owed, full>>
    /\ UNCHANGED <<store, points, alive, handlerVars, seen, logVars, healthVars, faults,
                   wkey, wver, dirty, noting, envVars>>

\* offer_to_index, health.enqueued.
Record(w) ==
    /\ wpc[w] = "record"
    /\ balance' = balance + 1
    /\ wpc' = [wpc EXCEPT ![w] = "idle"]
    /\ UNCHANGED <<store, points, queue, depth, alive, handlerVars, seen, logVars, kbFailed, faults,
                   wkey, wver, dirty, noting, owed, full, envVars>>

\* Another program changes an object.
Edit(k, v) ==
    /\ edits < MaxEdits
    /\ edits' = edits + 1
    /\ v # store[k]
    /\ Changed(k, v)
    /\ owed' = [owed EXCEPT ![k] = @ \/ ~Watched]
    /\ UNCHANGED <<points, queue, depth, alive, handlerVars, seen, logVars, healthVars, faults,
                   writerVars, noting, full, changes>>

\* Mutant: the bridge drops a key the queue has no room for.
NoticeDropsWhenFull(k) ==
    /\ k \in dirty
    /\ ~noting
    /\ alive
    /\ dirty' = dirty \ {k}
    /\ IF depth < Capacity
       THEN Queued(k, "refresh") /\ noting' = TRUE
       ELSE UNCHANGED <<queue, depth, owed, noting>>
    /\ UNCHANGED <<store, points, alive, handlerVars, seen, logVars, healthVars, faults,
                   writerVars, full, envVars>>

\* The watcher reports a settled key and the bridge queues it, waiting for room.
Notice(k) ==
    /\ k \in dirty
    /\ ~noting
    /\ alive
    /\ depth < Capacity
    /\ dirty' = dirty \ {k}
    /\ Queued(k, "refresh")
    /\ noting' = TRUE
    /\ UNCHANGED <<store, points, alive, handlerVars, seen, logVars, healthVars, faults,
                   writerVars, full, envVars>>

\* IndexSink::send, health.enqueued.
NoticeRecorded ==
    /\ noting
    /\ balance' = balance + 1
    /\ noting' = FALSE
    /\ UNCHANGED <<store, points, queue, depth, alive, handlerVars, seen, logVars, kbFailed, faults,
                   writerVars, dirty, owed, full, envVars>>

\* BACKPRESSURE_WINDOW passes.
WindowPasses ==
    /\ full
    /\ full' = FALSE
    /\ UNCHANGED <<pipelineVars, writerVars, dirty, noting, owed, envVars>>

Worker(k) ==
    /\ Handle(k)
    /\ UNCHANGED <<writerVars, dirty, noting, owed, full, envVars>>

Next ==
    \/ \E w \in Writers :
        \/ \E k \in Keys, b \in Bodies : Put(w, k, b)
        \/ \E source, k \in Keys : Copy(w, source, k)
        \/ \E k \in Keys : Delete(w, k)
        \/ \E k \in Keys, v \in Versions : StoreDropped(w, k, v)
        \/ Describe(w)
        \/ Publish(w)
        \/ Offer(w)
        \/ Record(w)
    \/ \E k \in Keys :
        \/ \E v \in Versions : Edit(k, v)
        \/ Notice(k)
        \/ Worker(k)
        \/ Forget(k) /\ UNCHANGED <<writerVars, dirty, noting, owed, full, envVars>>
    \/ NoticeRecorded
    \/ WindowPasses
    \/ WorkerEnds /\ UNCHANGED <<writerVars, dirty, noting, owed, full, envVars>>

Spec == Init /\ [][Next]_vars

-----------------------------------------------------------------------------
(* Properties.                                                             *)

WriterTypeOK ==
    /\ wpc \in [Writers -> {"idle", "describe", "publish", "offer", "record"}]
    /\ wkey \in [Writers -> Keys]
    /\ wver \in [Writers -> Versions]
    /\ dirty \in SUBSET Keys
    /\ noting \in BOOLEAN
    /\ owed \in [Keys -> BOOLEAN]
    /\ full \in BOOLEAN
    /\ changes \in 0 .. MaxChanges
    /\ edits \in 0 .. MaxEdits

\* The types, and the capacity that IndexQueueSender::try_send and send respect
\* together however their permits are taken and released.
TypeOK == PipelineTypeOK /\ HandlerTypeOK /\ WriterTypeOK /\ depth <= Capacity

\* The request has changed storage and not offered its event yet.
Unoffered(w) == wpc[w] \in {"describe", "publish", "offer"}

\* Someone still has to look at k, or the worker is gone, or a change of k was
\* refused, or the last handler of k failed and said so.
Accounted(k) ==
    \/ ~alive
    \/ k \in dirty
    \/ owed[k]
    \/ queue[k] # <<>>
    \/ pc[k] \notin {"idle", "stamp", "tell"}
    \/ outcome[k] = "failed"
    \/ \E w \in Writers : wkey[w] = k /\ Unoffered(w)

\* Some batches of a first indexing and no others (see SkipsOnlyWhole).
HalfWritten(k) == points[k] # {} /\ points[k] \subseteq Wanted(store[k])

\* The tombstone of a key was believed without reading storage (see
\* RecreatedIsIndexed).
Believed(k) == outcome[k] = "tombstoned" /\ head[k] = Unseen

\* The index is derived from storage: whatever requests, other programs, the
\* watcher and the worker do, and wherever a request is dropped, the points of a
\* key are those of its stored object unless something accounts for the
\* difference: work that is still to come, a refusal or a reported failure.
DifferencesAccounted ==
    \A k \in Keys :
        points[k] = Wanted(store[k]) \/ Accounted(k) \/ HalfWritten(k) \/ Believed(k)

\* health.rs: "A completion observed before its own enqueue reads as a transient 0,
\* never as a negative or a stuck 1".  Once the counts on their way are added,
\* pending is the number of events queued or in a handler that has not stamped
\* its outcome, one stamp per event.
PendingBalanced ==
    alive =>
        balance + Cardinality({w \in Writers : wpc[w] = "record"}) + (IF noting THEN 1 ELSE 0)
            = depth - Cardinality({k \in Keys : pc[k] = "tell"})

\* object.indexed names an ETag: when it is published, search holds exactly the
\* chunks of that version, whatever an earlier version or a failed handler left.
IndexedIsSearchable ==
    \A k \in Keys : pc[k] \in {"stamp", "tell"} /\ outcome[k] = "indexed" => points[k] = Wanted(head[k])

\* announce: on a watched tree that only other programs change, and whatever stamps
\* are forgotten, the newest change event of a settled key names what is stored.
SettledIsAnnounced ==
    \A k \in Keys : pc[k] = "idle" /\ queue[k] = <<>> /\ k \notin dirty => lastSaid[k] = store[k]

\* worker.rs 394: "a missed announcement is re-detected by the next pass";
\* pipeline.rs 75: what the write path did not announce is "someone else's change,
\* left for the watcher to announce".  As long as only other programs change the tree
\* and no call fails, a version about which a refresh keeps quiet has been announced.
QuietIsAnnounced ==
    [][changes = 0 /\ faults = 0 =>
        \A k \in Keys :
            pc[k] = "head" /\ kind[k] = "refresh" /\ head'[k] # Unseen /\ pc'[k] # "announce"
                => head'[k] \in said[k]]_vars

\* commit.rs 232: the worker's object.indexed for an ETag "always follow[s]
\* object.written in the log".
IndexedFollowsWritten ==
    \A k \in Keys : pc[k] = "tell" /\ outcome[k] = "indexed" => head[k] \in said[k]

\* commit.rs 151: EnqueueOnDrop covers "the future being dropped between the storage
\* change and the enqueue".  A request whose change is stored ends only once its
\* event was queued, or refused by a queue that is full or closed.
EndsOffered ==
    [][\A w \in Writers : Unoffered(w) /\ wpc'[w] = "idle" => ~alive \/ depth >= Capacity]_vars

\* last_seen.rs 8: "The worker sees every Upsert and Tombstone before the echo
\* arrives".  For one change: when its echo is examined, its request has queued
\* its own event.
EchoComesLast ==
    \A k \in Keys, w \in Writers :
        pc[k] = "head" /\ kind[k] = "refresh" /\ wkey[w] = k => ~Unoffered(w)

\* pipeline.rs 289: "An object a failed re-index left half-written answers "not
\* indexed" too".  What a refresh or a tombstone skips is wholly indexed.
SkipsOnlyWhole ==
    \A k \in Keys : pc[k] = "stamp" /\ outcome[k] = "skipped" => points[k] = Wanted(head[k])

\* pipeline.rs 132: "Were the key re-created meanwhile, that write has its own event
\* to index it".  When a tombstone is believed and the object exists, an event of
\* the key is still to come.
RecreatedIsIndexed ==
    \A k \in Keys : pc[k] = "stamp" /\ Believed(k) /\ Wanted(store[k]) # {} =>
        \/ queue[k] # <<>> \/ k \in dirty \/ owed[k]
        \/ \E w \in Writers : wkey[w] = k /\ Unoffered(w)

\* derive_state; the startup comparison has completed, so nothing is stale.
HealthState ==
    IF ~alive \/ kbFailed THEN "failed"
    ELSE IF full THEN "backpressured"
    ELSE IF balance > 0 THEN "indexing"
    ELSE "healthy"

\* docs/API.md 1734, of healthy: "Search reflects every write the indexer has been
\* told about".  Requests and notices that are still on their way, and changes that
\* nobody told the indexer of, are left out.
HealthyIsCurrent ==
    HealthState = "healthy" /\ (\A w \in Writers : wpc[w] = "idle") /\ ~noting =>
        \A k \in Keys : k \in dirty \/ owed[k] \/ points[k] = Wanted(store[k])

-----------------------------------------------------------------------------
(* Liveness.                                                               *)

\* Requests, the bridge and the worker are tasks that the runtime polls, and
\* storage, log, embedder and index answer.
Fairness ==
    /\ \A w \in Writers : /\ WF_vars(Describe(w)) /\ WF_vars(Publish(w))
                         /\ WF_vars(Offer(w)) /\ WF_vars(Record(w))
    /\ \A k \in Keys : WF_vars(Notice(k)) /\ WF_vars(Worker(k))
    /\ WF_vars(NoticeRecorded)

FairSpec == Spec /\ Fairness

\* Once the changes stop, the index holds what is stored, except for a key whose
\* change was refused, and nothing stays pending on the health record, unless a
\* call failed on the way: that is left to the next change or comparison.
Converges ==
    \A k \in Keys : <>[](faults > 0 \/ ((points[k] = Wanted(store[k]) \/ owed[k]) /\ balance = 0))

=============================================================================
