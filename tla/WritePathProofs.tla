--------------------------- MODULE WritePathProofs ---------------------------
(* Proofs about the write path and the indexing worker, for all keys,        *)
(* bodies, writers, capacities and bounds: the types, the queue within its   *)
(* capacity, the pending count of the health record, that the index follows  *)
(* storage and that what is recorded as indexed can be found.                *)
EXTENDS WritePath, TLAPS, FiniteSetTheorems

-----------------------------------------------------------------------------
(* Types.                                                                  *)

\* The version a handler works on.
HeadOK(k) ==
    /\ pc[k] = "announce" => head[k] \in Versions
    /\ pc[k] = "index" => head[k] \in Bodies
    /\ pc[k] \in {"read", "write", "cleanup"} => head[k] \in Bodies \ Opaque
    /\ pc[k] \in {"write", "cleanup"} => next[k] <= Chunks[head[k]]

\* What moves: a request, the bridge or the environment, or a step of the worker.
LEMMA StepFrame ==
    ASSUME Next
    PROVE  \/ UNCHANGED <<handlerVars, points, seen, kbFailed>>
           \/ \E k \in Keys :
                 (Handle(k) \/ Forget(k)) /\ UNCHANGED <<writerVars, dirty, noting, owed, full, envVars>>
           \/ WorkerEnds /\ UNCHANGED <<writerVars, dirty, noting, owed, full, envVars>>
<1>1. ASSUME NEW w \in Writers, NEW k \in Keys, NEW v, NEW t, Stored(w, k, v, t)
      PROVE  UNCHANGED <<handlerVars, points, seen, kbFailed>>
    BY <1>1, Zenon DEF Stored, healthVars
<1>2. ASSUME NEW w \in Writers, Describe(w) \/ Publish(w) \/ Offer(w) \/ Record(w)
      PROVE  UNCHANGED <<handlerVars, points, seen, kbFailed>>
    BY <1>2, Zenon DEF Describe, Publish, Offer, Record, healthVars
<1>3. ASSUME NEW w \in Writers, NEW k \in Keys, NEW v \in Versions, StoreDropped(w, k, v)
      PROVE  UNCHANGED <<handlerVars, points, seen, kbFailed>>
    BY <1>3, Zenon DEF StoreDropped, healthVars
<1>4. ASSUME NEW k \in Keys, Notice(k) \/ \E v \in Versions : Edit(k, v)
      PROVE  UNCHANGED <<handlerVars, points, seen, kbFailed>>
    BY <1>4, Zenon DEF Edit, Notice, healthVars
<1>5. ASSUME NoticeRecorded \/ WindowPasses
      PROVE  UNCHANGED <<handlerVars, points, seen, kbFailed>>
    BY <1>5, Zenon DEF NoticeRecorded, WindowPasses, pipelineVars, healthVars
<1> QED
    BY <1>1, <1>2, <1>3, <1>4, <1>5, Zenon DEF Next, Worker, Put, Copy, Delete

\* A step keeps the types of the handlers.
LEMMA HandlerTypes ==
    ASSUME TypeOK, \A k \in Keys : HeadOK(k), Next
    PROVE  HandlerTypeOK'
<1> USE DEF TypeOK, HandlerTypeOK
<1>1. CASE UNCHANGED <<handlerVars, points, seen, kbFailed>>
    BY <1>1, Zenon DEF handlerVars
<1>2. ASSUME NEW k \in Keys, Begin(k)
      PROVE  HandlerTypeOK'
  <2>1. Head(queue[k]) \in Kinds
      BY <1>2 DEF Begin, PipelineTypeOK, Kinds
  <2> QED
      BY <1>2, <2>1, Zenon DEF Begin
<1>3. ASSUME NEW k \in Keys, Examine(k)
      PROVE  HandlerTypeOK'
    BY <1>3, Zenon DEF Examine, AfterHead, PipelineTypeOK
<1>4. ASSUME NEW k \in Keys, Announce(k) \/ HeadUnavailable(k)
      PROVE  HandlerTypeOK'
    BY <1>4, Zenon DEF Announce, HeadUnavailable, AfterHead
<1>5. ASSUME NEW k \in Keys, Decide(k)
      PROVE  HandlerTypeOK'
  <2>1. UNCHANGED <<kind, head, next>>
      BY <1>5, Zenon DEF Decide
  <2>2. pc' \in {[pc EXCEPT ![k] = "erase"], [pc EXCEPT ![k] = "stamp"], [pc EXCEPT ![k] = "read"]}
      BY <1>5, Zenon DEF Decide
  <2>3. outcome' \in {outcome, [outcome EXCEPT ![k] = "skipped"]}
      BY <1>5, Zenon DEF Decide
  <2> QED
      BY <2>1, <2>2, <2>3, Zenon
<1>6. ASSUME NEW k \in Keys, Snapshot(k)
      PROVE  HandlerTypeOK'
  <2>1. UNCHANGED <<kind, head>> /\ next' = [next EXCEPT ![k] = 0]
      BY <1>6, Zenon DEF Snapshot
  <2>2. pc' \in {[pc EXCEPT ![k] = "write"], [pc EXCEPT ![k] = "stamp"]}
      BY <1>6, Zenon DEF Snapshot
  <2>3. outcome' \in {outcome, [outcome EXCEPT ![k] = "failed"]}
      BY <1>6, Zenon DEF Snapshot
  <2> QED
      BY <2>1, <2>2, <2>3, Zenon
<1>7. ASSUME NEW k \in Keys, WriteBatch(k)
      PROVE  HandlerTypeOK'
  <2>1. BatchEnd(k) \in Nat
      BY <1>7, ChunksAssumption, BatchAssumption DEF WriteBatch, BatchEnd, HeadOK
  <2> QED
      BY <1>7, <2>1, Zenon DEF WriteBatch
<1>8. ASSUME NEW k \in Keys, WriteDone(k) \/ Cleanup(k) \/ Erase(k)
      PROVE  HandlerTypeOK'
    BY <1>8, Zenon DEF WriteDone, Cleanup, Erase
<1>9. ASSUME NEW k \in Keys, Fail(k)
      PROVE  HandlerTypeOK'
    BY <1>9, Zenon DEF Fail
<1>10. ASSUME NEW k \in Keys, Stamp(k) \/ Tell(k) \/ Forget(k)
      PROVE  HandlerTypeOK'
    BY <1>10, Zenon DEF Stamp, Tell, Forget, handlerVars
<1>11. CASE WorkerEnds
    BY <1>11, Zenon DEF WorkerEnds
<1> QED
    BY <1>1, <1>2, <1>3, <1>4, <1>5, <1>6, <1>7, <1>8, <1>9, <1>10, <1>11, StepFrame, Zenon DEF Handle

\* A step keeps what a handler knows of its version.
LEMMA HeadStep ==
    ASSUME TypeOK, \A k \in Keys : HeadOK(k), Next
    PROVE  \A k \in Keys : HeadOK(k)'
<1>1. CASE UNCHANGED <<handlerVars, points, seen, kbFailed>>
    BY <1>1, Zenon DEF handlerVars, HeadOK
<1>2. ASSUME NEW k \in Keys, Handle(k) \/ Forget(k), NEW j \in Keys, j # k
      PROVE  HeadOK(j)'
  <2>1. pc'[j] = pc[j] /\ head'[j] = head[j] /\ next'[j] = next[j]
      BY <1>2, ZenonT(30) DEF Handle, Begin, Examine, Announce, HeadUnavailable, Decide, Snapshot, WriteBatch,
                  WriteDone, Cleanup, Erase, Fail, Stamp, Tell, Forget, handlerVars, TypeOK, HandlerTypeOK
  <2> QED
      BY <2>1, Zenon DEF HeadOK
<1>3. ASSUME NEW k \in Keys, Handle(k) \/ Forget(k)
      PROVE  HeadOK(k)'
  <2> USE DEF TypeOK, HandlerTypeOK, HeadOK
  <2>1. CASE Begin(k) \/ HeadUnavailable(k) \/ Cleanup(k) \/ Erase(k) \/ Fail(k) \/ Stamp(k) \/ Tell(k)
      BY <2>1, Zenon DEF Begin, HeadUnavailable, Cleanup, Erase, Fail, Stamp, Tell
  <2>2. CASE Examine(k)
      BY <2>2, Zenon DEF Examine, AfterHead, PipelineTypeOK, Versions
  <2>3. CASE Announce(k)
      BY <2>3, Zenon DEF Announce, AfterHead, Versions
  <2>4. CASE Decide(k)
      BY <2>4, Zenon DEF Decide
  <2>5. CASE Snapshot(k)
      BY <2>5, ChunksAssumption DEF Snapshot
  <2>6. CASE WriteBatch(k)
      BY <2>6, ChunksAssumption, BatchAssumption DEF WriteBatch, BatchEnd
  <2>7. CASE WriteDone(k)
      BY <2>7, Zenon DEF WriteDone
  <2>8. CASE Forget(k)
      BY <2>8, Zenon DEF Forget, handlerVars
  <2> QED
      BY <1>3, <2>1, <2>2, <2>3, <2>4, <2>5, <2>6, <2>7, <2>8, Zenon DEF Handle
<1>4. CASE WorkerEnds
    BY <1>4, SMTT(30) DEF WorkerEnds, HeadOK
<1> QED
    BY <1>1, <1>2, <1>3, <1>4, StepFrame, Zenon

\* A step keeps the types of the requests, the bridge and the environment.
LEMMA WriterTypes ==
    ASSUME TypeOK, Next
    PROVE  WriterTypeOK'
<1> USE DEF TypeOK, WriterTypeOK
<1>1. CASE UNCHANGED <<writerVars, dirty, noting, owed, full, envVars>>
    BY <1>1, Zenon DEF writerVars, envVars
<1>2. ASSUME NEW w \in Writers, NEW k \in Keys, NEW v \in Versions, NEW t \in {"publish", "describe"},
             Stored(w, k, v, t)
      PROVE  WriterTypeOK'
    BY <1>2, ChangesAssumption DEF Stored, Changed
<1>3. ASSUME NEW w \in Writers, Describe(w) \/ Publish(w) \/ Record(w)
      PROVE  WriterTypeOK'
    BY <1>3, Zenon DEF Describe, Publish, Record, envVars
<1>4. ASSUME NEW w \in Writers, Offer(w)
      PROVE  WriterTypeOK'
  <2>1. UNCHANGED <<wkey, wver, dirty, noting, changes, edits>>
      BY <1>4, Zenon DEF Offer, envVars
  <2>2. wpc' \in {[wpc EXCEPT ![w] = "record"], [wpc EXCEPT ![w] = "idle"]}
      BY <1>4, Zenon DEF Offer
  <2>3. full' \in {full, TRUE}
      BY <1>4, Zenon DEF Offer
  <2>4. owed' \in {owed, [owed EXCEPT ![wkey[w]] = FALSE],
                   [owed EXCEPT ![wkey[w]] = owed[wkey[w]] \/ ~Watched]}
      BY <1>4, Zenon DEF Offer, Queued
  <2> QED
      BY <2>1, <2>2, <2>3, <2>4, Zenon
<1>5. ASSUME NEW w \in Writers, NEW k \in Keys, NEW v \in Versions, StoreDropped(w, k, v)
      PROVE  WriterTypeOK'
    BY <1>5, Zenon DEF StoreDropped, Changed, writerVars, envVars
<1>6. ASSUME NEW k \in Keys, NEW v \in Versions, Edit(k, v)
      PROVE  WriterTypeOK'
    BY <1>6, ChangesAssumption DEF Edit, Changed, writerVars
<1>7. ASSUME NEW k \in Keys, Notice(k)
      PROVE  WriterTypeOK'
    BY <1>7, Zenon DEF Notice, Queued, writerVars, envVars
<1>8. CASE NoticeRecorded \/ WindowPasses
    BY <1>8, Zenon DEF NoticeRecorded, WindowPasses, writerVars, envVars
<1>9. \A k \in Keys : store[k] \in Versions
    BY Zenon DEF PipelineTypeOK
<1> QED
    BY <1>1, <1>2, <1>3, <1>4, <1>5, <1>6, <1>7, <1>8, <1>9, Zenon DEF Next, Worker, Put, Copy, Delete, Versions

\* The points a batch leaves are points.
LEMMA BatchPoints ==
    ASSUME TypeOK, NEW k \in Keys, HeadOK(k), pc[k] = "write"
    PROVE  /\ BatchEnd(k) \in Nat
           /\ BatchEnd(k) <= Chunks[head[k]]
           /\ next[k] <= BatchEnd(k)
           /\ WithBatch(k) \in SUBSET (Nat \X Bodies)
<1>1. head[k] \in Bodies /\ Chunks[head[k]] \in Nat /\ next[k] \in Nat
    BY ChunksAssumption, Zenon DEF HeadOK, TypeOK, HandlerTypeOK
<1>2. BatchEnd(k) \in Nat /\ BatchEnd(k) <= Chunks[head[k]] /\ next[k] <= BatchEnd(k)
    BY <1>1, BatchAssumption DEF BatchEnd, HeadOK
<1>3. points[k] \subseteq Nat \X Bodies
    BY Zenon DEF TypeOK, PipelineTypeOK
<1>4. (next[k] .. BatchEnd(k) - 1) \X {head[k]} \subseteq Nat \X Bodies
    BY <1>1, <1>2
<1> QED
    BY <1>2, <1>3, <1>4, Zenon DEF WithBatch

\* A change event names a version.
LEMMA AnnouncedTypes ==
    ASSUME TypeOK, NEW k \in Keys, NEW v \in Versions, Announced(k, v) \/ UNCHANGED logVars
    PROVE  said' \in [Keys -> SUBSET Versions] /\ lastSaid' \in [Keys -> Versions]
<1> USE DEF TypeOK, PipelineTypeOK
<1>1. CASE UNCHANGED logVars
    BY <1>1, Zenon DEF logVars
<1>2. CASE Announced(k, v)
  <2>1. said[k] \cup {v} \in SUBSET Versions
      BY Zenon
  <2>2. said' \in [Keys -> SUBSET Versions]
      BY <1>2, <2>1, Zenon DEF Announced
  <2>3. lastSaid' \in [Keys -> Versions]
      BY <1>2, Zenon DEF Announced
  <2> QED
      BY <2>2, <2>3, Zenon
<1> QED
    BY <1>1, <1>2, Zenon

\* A step keeps the types of storage, index, queue, log and health record, given
\* that a handler that ends holds a permit.
LEMMA PipelineTypes ==
    ASSUME TypeOK, \A k \in Keys : HeadOK(k), \A k \in Keys : pc[k] = "tell" => depth > 0, Next
    PROVE  PipelineTypeOK' /\ depth' <= Capacity
<1> USE DEF TypeOK, PipelineTypeOK
<1>1. ASSUME NEW w \in Writers, NEW k \in Keys, NEW v \in Versions, NEW t, Stored(w, k, v, t)
      PROVE  PipelineTypeOK' /\ depth' <= Capacity
    BY <1>1, Zenon DEF Stored, Changed, logVars, healthVars
<1>2. ASSUME NEW w \in Writers, Describe(w)
      PROVE  PipelineTypeOK' /\ depth' <= Capacity
    BY <1>2, FaultsAssumption DEF Describe, Fault, logVars, healthVars
<1>3. ASSUME NEW w \in Writers, Publish(w)
      PROVE  PipelineTypeOK' /\ depth' <= Capacity
  <2>1. wkey[w] \in Keys /\ wver[w] \in Versions
      BY Zenon DEF WriterTypeOK
  <2>2. UNCHANGED <<store, points, queue, depth, alive, seen, balance, kbFailed>>
      BY <1>3, Zenon DEF Publish, healthVars
  <2>3. said' \in [Keys -> SUBSET Versions] /\ lastSaid' \in [Keys -> Versions]
      BY <1>3, <2>1, AnnouncedTypes, Zenon DEF Publish
  <2>4. faults' \in 0 .. MaxFaults
      BY <1>3, FaultsAssumption DEF Publish, Fault
  <2> QED
      BY <2>2, <2>3, <2>4, Zenon
<1>4. ASSUME NEW w \in Writers, Offer(w)
      PROVE  PipelineTypeOK' /\ depth' <= Capacity
  <2>1. wkey[w] \in Keys /\ EventOf(wver[w]) \in Kinds
      BY SMTT(30) DEF WriterTypeOK, EventOf, Kinds
  <2>2. UNCHANGED <<store, points, alive, seen, said, lastSaid, balance, kbFailed, faults>>
      BY <1>4, SMTT(30) DEF Offer, logVars, healthVars
  <2>3. Append(queue[wkey[w]], EventOf(wver[w])) \in Seq(Kinds)
      BY <2>1, SMTT(30)
  <2>4. queue' \in [Keys -> Seq(Kinds)]
      BY <1>4, <2>1, <2>3, Zenon DEF Offer, Queued
  <2>5. depth' \in Nat /\ depth' <= Capacity
      BY <1>4, CapacityAssumption DEF Offer, Queued
  <2> QED
      BY <2>2, <2>4, <2>5, Zenon
<1>5. ASSUME NEW w \in Writers, NEW k \in Keys, NEW v \in Versions, StoreDropped(w, k, v)
      PROVE  PipelineTypeOK' /\ depth' <= Capacity
    BY <1>5, FaultsAssumption DEF StoreDropped, Changed, Fault, logVars, healthVars
<1>6. ASSUME NEW k \in Keys, NEW v \in Versions, Edit(k, v)
      PROVE  PipelineTypeOK' /\ depth' <= Capacity
    BY <1>6, Zenon DEF Edit, Changed, logVars, healthVars
<1>7. ASSUME NEW k \in Keys, Notice(k)
      PROVE  PipelineTypeOK' /\ depth' <= Capacity
    BY <1>7, CapacityAssumption DEF Notice, Queued, Kinds, logVars, healthVars
<1>8. ASSUME NEW w \in Writers, Record(w)
      PROVE  PipelineTypeOK' /\ depth' <= Capacity
    BY <1>8 DEF Record, logVars
<1>9. CASE NoticeRecorded
    BY <1>9 DEF NoticeRecorded, logVars
<1>10. CASE WindowPasses
    BY <1>10, Zenon DEF WindowPasses, pipelineVars, logVars, healthVars
<1>11. CASE WorkerEnds
  <2>1. UNCHANGED <<store, points, seen, said, lastSaid, balance, kbFailed>>
      BY <1>11, Zenon DEF WorkerEnds, logVars, healthVars
  <2>2. queue' \in [Keys -> Seq(Kinds)]
      BY <1>11 DEF WorkerEnds
  <2>5. alive' \in BOOLEAN
      BY <1>11, Zenon DEF WorkerEnds
  <2>4. depth' \in Nat /\ depth' <= Capacity
      BY <1>11, CapacityAssumption DEF WorkerEnds
  <2>3. faults' \in 0 .. MaxFaults
      BY <1>11, FaultsAssumption DEF WorkerEnds, Fault
  <2> QED
      BY <2>1, <2>2, <2>3, <2>4, <2>5, Zenon
<1>12. ASSUME NEW k \in Keys, Forget(k)
      PROVE  PipelineTypeOK' /\ depth' <= Capacity
    BY <1>12, Zenon DEF Forget, logVars, healthVars
<1>13. ASSUME NEW k \in Keys, Handle(k)
      PROVE  PipelineTypeOK' /\ depth' <= Capacity
  <2>1. CASE Begin(k)
      BY <2>1 DEF Begin, logVars, healthVars
  <2>2. CASE Examine(k)
    <3>1. seen' \in {seen, [seen EXCEPT ![k] = store[k]]}
        BY <2>2, Zenon DEF Examine
    <3>2. UNCHANGED <<store, points, queue, depth, alive, said, lastSaid, balance, kbFailed, faults>>
        BY <2>2, Zenon DEF Examine, logVars, healthVars
    <3> QED
        BY <3>1, <3>2, Zenon
  <2>3. CASE Announce(k)
    <3>1. UNCHANGED <<store, points, queue, depth, alive, seen, balance, kbFailed>>
        BY <2>3, Zenon DEF Announce, healthVars
    <3>2. head[k] \in Versions
        BY <2>3, Zenon DEF Announce, HeadOK
    <3>3. said' \in [Keys -> SUBSET Versions] /\ lastSaid' \in [Keys -> Versions]
        BY <2>3, <3>2, AnnouncedTypes, Zenon DEF Announce
    <3>4. faults' \in 0 .. MaxFaults
        BY <2>3, FaultsAssumption DEF Announce, Fault
    <3> QED
        BY <3>1, <3>3, <3>4, Zenon
  <2>4. CASE HeadUnavailable(k) \/ Decide(k)
    <3>1. UNCHANGED <<store, points, queue, depth, alive, seen, said, lastSaid, balance, kbFailed>>
        BY <2>4, SMTT(30) DEF HeadUnavailable, Decide, logVars, healthVars
    <3>2. faults' \in 0 .. MaxFaults
        BY <2>4, FaultsAssumption, SMTT(30) DEF HeadUnavailable, Decide, Fault
    <3> QED
        BY <3>1, <3>2, SMTT(30)
  <2>5. CASE Snapshot(k) \/ WriteDone(k)
      BY <2>5, SMTT(30) DEF Snapshot, WriteDone, logVars, healthVars
  <2>6. CASE WriteBatch(k)
    <3>1. WithBatch(k) \in SUBSET (Nat \X Bodies)
        BY <2>6, BatchPoints, Zenon DEF WriteBatch
    <3> QED
        BY <2>6, <3>1, SMTT(30) DEF WriteBatch, logVars, healthVars
  <2>7. CASE Cleanup(k)
    <3>1. Kept(k) \in SUBSET (Nat \X Bodies)
        BY Zenon DEF Kept
    <3> QED
        BY <2>7, <3>1, Zenon DEF Cleanup, logVars, healthVars
  <2>8. CASE Erase(k)
      BY <2>8, Zenon DEF Erase, logVars, healthVars
  <2>9. CASE Fail(k)
    <3>1. UNCHANGED <<store, queue, depth, alive, seen, said, lastSaid, balance, kbFailed>>
        BY <2>9, SMTT(30) DEF Fail, logVars, healthVars
    <3>2. faults' \in 0 .. MaxFaults
        BY <2>9, FaultsAssumption, SMTT(30) DEF Fail, Fault
    <3>3. Kept(k) \in SUBSET (Nat \X Bodies)
        BY Zenon DEF Kept
    <3>4. pc[k] = "write" => WithBatch(k) \in SUBSET (Nat \X Bodies)
        BY BatchPoints, Zenon
    <3>5. points' \in [Keys -> SUBSET (Nat \X Bodies)]
        BY <2>9, <3>3, <3>4, Zenon DEF Fail
    <3> QED
        BY <3>1, <3>2, <3>5, SMTT(30)
  <2>10. CASE Stamp(k)
      BY <2>10 DEF Stamp, logVars
  <2>11. CASE Tell(k)
      BY <2>11, CapacityAssumption DEF Tell, logVars, healthVars
  <2> QED
      BY <1>13, <2>1, <2>2, <2>3, <2>4, <2>5, <2>6, <2>7, <2>8, <2>9, <2>10, <2>11, Zenon DEF Handle
<1>14. \A k \in Keys : store[k] \in Versions
    BY Zenon
<1> QED
    BY <1>1, <1>2, <1>3, <1>4, <1>5, <1>6, <1>7, <1>8, <1>9, <1>10, <1>11, <1>12, <1>13, <1>14, Zenon
    DEF Next, Worker, Put, Copy, Delete, Versions

-----------------------------------------------------------------------------
(* Permits.                                                                *)

\* The events that hold a permit: those queued, and the one in a handler.
Slots ==
    {s \in Keys \X Nat : IF s[2] = 0 THEN pc[s[1]] # "idle" ELSE s[2] <= Len(queue[s[1]])}

SlotInv == IsFiniteSet(Slots) /\ depth = Cardinality(Slots)

\* A handler holds a permit.
LEMMA HandlerHoldsPermit ==
    ASSUME TypeOK, SlotInv, NEW k \in Keys, pc[k] # "idle"
    PROVE  depth > 0
<1>1. <<k, 0>> \in Slots
    BY Zenon DEF Slots
<1>2. Cardinality(Slots) \in Nat /\ (Cardinality(Slots) = 0 <=> Slots = {})
    BY FS_CardinalityType, FS_EmptySet, Zenon DEF SlotInv
<1> QED
    BY <1>1, <1>2 DEF SlotInv

\* An event that enters the queue takes one permit more.
LEMMA QueuedTakesPermit ==
    ASSUME TypeOK, SlotInv, NEW k \in Keys, NEW e, Queued(k, e), UNCHANGED pc
    PROVE  SlotInv'
<1> DEFINE new == <<k, Len(queue[k]) + 1>>
<1>1. queue[k] \in Seq(Kinds) /\ Len(queue[k]) \in Nat
    BY DEF TypeOK, PipelineTypeOK
<1>2. Len(queue'[k]) = Len(queue[k]) + 1 /\ \A j \in Keys : j # k => queue'[j] = queue[j]
    BY <1>1 DEF Queued, TypeOK, PipelineTypeOK
<1>3. new \notin Slots
    BY <1>1 DEF Slots
<1>4. Slots' = Slots \cup {new}
  <2>1. ASSUME NEW s \in Keys \X Nat
        PROVE  s \in Slots' <=> s \in Slots \cup {new}
      BY <1>1, <1>2 DEF Slots
  <2>2. new \in Keys \X Nat
      BY <1>1
  <2> QED
      BY <2>1, <2>2, Zenon DEF Slots
<1>5. IsFiniteSet(Slots \cup {new}) /\ Cardinality(Slots \cup {new}) = Cardinality(Slots) + 1
    BY <1>3, FS_AddElement, Zenon DEF SlotInv
<1> QED
    BY <1>4, <1>5, Zenon DEF SlotInv, Queued

\* A handler that starts takes over the permit of its event.
LEMMA BeginKeepsPermit ==
    ASSUME TypeOK, SlotInv, NEW k \in Keys, Begin(k)
    PROVE  SlotInv'
<1> DEFINE old == <<k, Len(queue[k])>>
           new == <<k, 0>>
<1>1. queue[k] \in Seq(Kinds) /\ queue[k] # <<>> /\ Len(queue[k]) \in Nat \ {0}
    BY DEF TypeOK, PipelineTypeOK, Begin
<1>2. Len(queue'[k]) = Len(queue[k]) - 1 /\ \A j \in Keys : j # k => queue'[j] = queue[j]
    BY <1>1 DEF Begin, TypeOK, PipelineTypeOK
<1>3. pc[k] = "idle" /\ pc'[k] # "idle" /\ \A j \in Keys : j # k => pc'[j] = pc[j]
    BY Zenon DEF Begin, TypeOK, HandlerTypeOK
<1>4. old \in Slots /\ new \notin Slots /\ old # new
    BY <1>1, <1>3 DEF Slots
<1>5. Slots' = (Slots \ {old}) \cup {new}
  <2>1. ASSUME NEW s \in Keys \X Nat
        PROVE  s \in Slots' <=> s \in (Slots \ {old}) \cup {new}
      BY <1>1, <1>2, <1>3 DEF Slots
  <2>2. new \in Keys \X Nat
      BY Zenon
  <2> QED
      BY <2>1, <2>2, Zenon DEF Slots
<1>6. IsFiniteSet(Slots \ {old}) /\ Cardinality(Slots \ {old}) = Cardinality(Slots) - 1
    BY <1>4, FS_RemoveElement, Zenon DEF SlotInv
<1>7. new \notin Slots \ {old}
    BY <1>4, Zenon
<1>8. /\ IsFiniteSet((Slots \ {old}) \cup {new})
      /\ Cardinality((Slots \ {old}) \cup {new}) = Cardinality(Slots \ {old}) + 1
    BY <1>6, <1>7, FS_AddElement, Zenon
<1>9. Cardinality(Slots) \in Nat
    BY FS_CardinalityType, Zenon DEF SlotInv
<1> QED
    BY <1>5, <1>6, <1>8, <1>9 DEF SlotInv, Begin

\* A handler that ends releases its permit.
LEMMA TellReleasesPermit ==
    ASSUME TypeOK, SlotInv, NEW k \in Keys, Tell(k)
    PROVE  SlotInv'
<1> DEFINE old == <<k, 0>>
<1>1. pc[k] # "idle" /\ pc'[k] = "idle" /\ \A j \in Keys : j # k => pc'[j] = pc[j]
    BY Zenon DEF Tell, TypeOK, HandlerTypeOK
<1>2. old \in Slots
    BY <1>1, Zenon DEF Slots
<1>3. Slots' = Slots \ {old}
  <2>1. ASSUME NEW s \in Keys \X Nat
        PROVE  s \in Slots' <=> s \in Slots \ {old}
      BY <1>1 DEF Slots, Tell
  <2> QED
      BY <2>1, Zenon DEF Slots
<1>4. IsFiniteSet(Slots \ {old}) /\ Cardinality(Slots \ {old}) = Cardinality(Slots) - 1
    BY <1>2, FS_RemoveElement, Zenon DEF SlotInv
<1> QED
    BY <1>3, <1>4, Zenon DEF SlotInv, Tell

\* Every other step leaves the permits alone.
LEMMA SlotsUnchanged ==
    ASSUME SlotInv, UNCHANGED <<queue, depth>>, \A k \in Keys : pc'[k] = "idle" <=> pc[k] = "idle"
    PROVE  SlotInv'
<1>1. Slots' = Slots
    BY Zenon DEF Slots
<1> QED
    BY <1>1, Zenon DEF SlotInv

\* depth is the number of events queued or handled.
LEMMA SlotStep ==
    ASSUME TypeOK, SlotInv, Next
    PROVE  SlotInv'
<1>1. ASSUME NEW w \in Writers, Offer(w)
      PROVE  SlotInv'
  <2>1. wkey[w] \in Keys
      BY SMTT(30) DEF TypeOK, WriterTypeOK
  <2>2. UNCHANGED pc
      BY <1>1, SMTT(30) DEF Offer, handlerVars
  <2>3. CASE Queued(wkey[w], EventOf(wver[w]))
      BY <2>1, <2>2, <2>3, QueuedTakesPermit, Zenon
  <2>4. CASE UNCHANGED <<queue, depth>>
      BY <2>2, <2>4, SlotsUnchanged, Zenon
  <2> QED
      BY <1>1, <2>3, <2>4, Zenon DEF Offer
<1>2. ASSUME NEW k \in Keys, Notice(k)
      PROVE  SlotInv'
    BY <1>2, QueuedTakesPermit, Zenon DEF Notice, handlerVars
<1>3. ASSUME NEW k \in Keys, Handle(k) \/ Forget(k), ~Begin(k), ~Tell(k)
      PROVE  SlotInv'
  <2>1. UNCHANGED <<queue, depth>>
      BY <1>3, Zenon DEF Handle, Examine, Announce, HeadUnavailable, Decide, Snapshot, WriteBatch, WriteDone,
                  Cleanup, Erase, Fail, Stamp, Forget
  <2>2. \A j \in Keys : pc'[j] = "idle" <=> pc[j] = "idle"
      BY <1>3, Zenon DEF Handle, Examine, Announce, HeadUnavailable, Decide, Snapshot, WriteBatch, WriteDone,
                  Cleanup, Erase, Fail, Stamp, Forget, AfterHead, handlerVars, TypeOK, HandlerTypeOK
  <2> QED
      BY <2>1, <2>2, SlotsUnchanged, Zenon
<1>4. CASE WorkerEnds
  <2>1. Slots' = {}
      BY <1>4 DEF WorkerEnds, Slots
  <2> QED
      BY <1>4, <2>1, FS_EmptySet, Zenon DEF WorkerEnds, SlotInv
<1>5. ASSUME NEW w \in Writers, NEW k \in Keys, NEW v, NEW t, Stored(w, k, v, t) \/ StoreDropped(w, k, v)
      PROVE  SlotInv'
    BY <1>5, SlotsUnchanged, Zenon DEF Stored, StoreDropped, handlerVars
<1>6. ASSUME NEW w \in Writers, Describe(w) \/ Publish(w) \/ Record(w)
      PROVE  SlotInv'
    BY <1>6, SlotsUnchanged, Zenon DEF Describe, Publish, Record, handlerVars
<1>7. ASSUME NEW k \in Keys, NEW v, Edit(k, v)
      PROVE  SlotInv'
    BY <1>7, SlotsUnchanged, Zenon DEF Edit, handlerVars
<1>8. CASE NoticeRecorded \/ WindowPasses
    BY <1>8, SlotsUnchanged, Zenon DEF NoticeRecorded, WindowPasses, pipelineVars, handlerVars
<1> QED
    BY <1>1, <1>2, <1>3, <1>4, <1>5, <1>6, <1>7, <1>8, BeginKeepsPermit, TellReleasesPermit, SMTT(30)
    DEF Next, Worker, Put, Copy, Delete

-----------------------------------------------------------------------------
(* The types hold.                                                         *)

TypeInv == TypeOK /\ SlotInv /\ \A k \in Keys : HeadOK(k)

\* Initially.
LEMMA TypeInit ==
    ASSUME Init
    PROVE  TypeInv
<1> USE DEF Init, PipelineInit
<1>1. PipelineTypeOK
  <2>1. alive \in BOOLEAN /\ kbFailed \in BOOLEAN
      BY Zenon
  <2>2. store \in [Keys -> Versions] /\ points \in [Keys -> SUBSET (Nat \X Bodies)]
      BY SMTT(30) DEF Versions
  <2>3. queue \in [Keys -> Seq(Kinds)]
      OBVIOUS
  <2>4. /\ seen \in [Keys -> Versions \cup {Unseen}]
        /\ said \in [Keys -> SUBSET Versions]
        /\ lastSaid \in [Keys -> Versions]
      BY Zenon DEF Versions
  <2>5. depth \in Nat /\ balance \in Int /\ faults \in 0 .. MaxFaults
      BY FaultsAssumption
  <2> QED
      BY <2>1, <2>2, <2>3, <2>4, <2>5, Zenon DEF PipelineTypeOK
<1>2. HandlerTypeOK
    BY Zenon DEF HandlerTypeOK, Kinds
<1>5. WriterTypeOK
  <2>1. noting \in BOOLEAN /\ full \in BOOLEAN
      BY Zenon
  <2>2. owed \in [Keys -> BOOLEAN]
      BY Zenon
  <2>3. wpc \in [Writers -> {"idle", "describe", "publish", "offer", "record"}]
      BY Zenon
  <2>4. wkey \in [Writers -> Keys] /\ wver \in [Writers -> Versions] /\ dirty \in SUBSET Keys
      BY Zenon DEF Versions
  <2>5. changes \in 0 .. MaxChanges /\ edits \in 0 .. MaxEdits
      BY ChangesAssumption
  <2> QED
      BY <2>1, <2>2, <2>3, <2>4, <2>5, Zenon DEF WriterTypeOK
<1>6. depth <= Capacity
    BY CapacityAssumption
<1>3. Slots = {}
    BY DEF Slots
<1>4. SlotInv
    BY <1>3, FS_EmptySet, Zenon DEF SlotInv
<1> QED
    BY <1>1, <1>2, <1>4, <1>5, <1>6, Zenon DEF TypeInv, TypeOK, HeadOK

\* The inductive invariant behind the types: depth counts the events that hold a
\* permit, and a handler that writes points has the version of an object.
THEOREM TypeInvariant == Spec => []TypeInv
<1>1. TypeInv /\ [Next]_vars => TypeInv'
  <2> SUFFICES ASSUME TypeInv, [Next]_vars
               PROVE  TypeInv'
      BY Zenon
  <2>1. CASE Next
    <3>1. \A k \in Keys : pc[k] = "tell" => depth > 0
        BY HandlerHoldsPermit, Zenon DEF TypeInv
    <3> QED
        BY <2>1, <3>1, HandlerTypes, HeadStep, WriterTypes, PipelineTypes, SlotStep, Zenon DEF TypeInv, TypeOK
  <2>2. CASE UNCHANGED vars
      BY <2>2, Zenon DEF vars, pipelineVars, handlerVars, logVars, healthVars, writerVars, envVars, TypeInv, TypeOK,
                  PipelineTypeOK, HandlerTypeOK, WriterTypeOK, SlotInv, Slots, HeadOK
  <2> QED
      BY <2>1, <2>2, Zenon
<1> QED
    BY <1>1, TypeInit, PTL DEF Spec

\* The types of the write path and the worker, and the queue within its capacity,
\* for every capacity and every number of keys and writers.
THEOREM QueueWithinCapacity == Spec => []TypeOK
    BY TypeInvariant, PTL DEF TypeInv

-----------------------------------------------------------------------------
(* The pending count of the health record.                                 *)

\* The requests about to count their event, and the handlers that have stamped
\* their outcome and still hold their permit.
Recording == {w \in Writers : wpc[w] = "record"}
Telling == {k \in Keys : pc[k] = "tell"}

PendingInv == IsFiniteSet(Recording) /\ IsFiniteSet(Telling) /\ PendingBalanced

\* Cardinality of a finite set with one element more ...
LEMMA OneMore ==
    ASSUME NEW S, IsFiniteSet(S), NEW x, x \notin S
    PROVE  /\ IsFiniteSet(S \cup {x})
           /\ Cardinality(S \cup {x}) = Cardinality(S) + 1
           /\ Cardinality(S) \in Nat
    BY FS_AddElement, FS_CardinalityType, Zenon

\* ... and with one less.
LEMMA OneLess ==
    ASSUME NEW S, IsFiniteSet(S), NEW x \in S
    PROVE  /\ IsFiniteSet(S \ {x})
           /\ Cardinality(S \ {x}) = Cardinality(S) - 1
           /\ Cardinality(S) \in Nat
    BY FS_RemoveElement, FS_CardinalityType, SMTT(30)

\* A step that changes none of the counts.
LEMMA PendingUnchanged ==
    ASSUME PendingInv, alive' => alive, UNCHANGED <<balance, noting, depth>>,
           Recording' = Recording, Telling' = Telling
    PROVE  PendingInv'
    BY Zenon DEF PendingInv, PendingBalanced, Recording, Telling

\* pending counts every event once: on its way to the record, queued or in a
\* handler that has not stamped its outcome.
LEMMA PendingStep ==
    ASSUME TypeInv, PendingInv, Next
    PROVE  PendingInv'
<1> USE DEF TypeInv, TypeOK
<1>1. /\ Cardinality(Recording) \in Nat /\ Cardinality(Telling) \in Nat
      /\ balance \in Int /\ depth \in Nat /\ noting \in BOOLEAN
    BY FS_CardinalityType, Zenon DEF PendingInv, PipelineTypeOK, WriterTypeOK
<1>2. alive => balance + Cardinality(Recording) + (IF noting THEN 1 ELSE 0) = depth - Cardinality(Telling)
    BY ZenonT(30) DEF PendingInv, PendingBalanced, Recording, Telling
<1>3. ASSUME NEW w \in Writers, NEW k \in Keys, NEW v, NEW t \in {"publish", "describe"},
             Stored(w, k, v, t) \/ StoreDropped(w, k, v)
      PROVE  PendingInv'
  <2>1. Recording' = Recording
      BY <1>3, SMTT(30) DEF Stored, StoreDropped, Recording, WriterTypeOK, writerVars
  <2> QED
      BY <1>3, <2>1, PendingUnchanged, SMTT(30) DEF Stored, StoreDropped, Telling, handlerVars, healthVars
<1>4. ASSUME NEW w \in Writers, Describe(w) \/ Publish(w)
      PROVE  PendingInv'
  <2>1. Recording' = Recording
      BY <1>4, Zenon DEF Describe, Publish, Recording, WriterTypeOK
  <2> QED
      BY <1>4, <2>1, PendingUnchanged, SMTT(30) DEF Describe, Publish, Telling, handlerVars, healthVars
<1>5. ASSUME NEW w \in Writers, Offer(w)
      PROVE  PendingInv'
  <2>1. UNCHANGED <<balance, noting, alive, pc>> /\ w \notin Recording
      BY <1>5, Zenon DEF Offer, handlerVars, healthVars, Recording
  <2>2. Telling' = Telling
      BY <2>1, Zenon DEF Telling
  <2>3. CASE wpc' = [wpc EXCEPT ![w] = "idle"] /\ depth' = depth
    <3>1. Recording' = Recording
        BY <1>5, <2>3, SMTT(30) DEF Offer, Recording, WriterTypeOK
    <3> QED
        BY <2>1, <2>2, <2>3, <3>1, PendingUnchanged, Zenon
  <2>4. CASE wpc' = [wpc EXCEPT ![w] = "record"] /\ depth' = depth + 1
    <3>1. Recording' = Recording \cup {w}
        BY <2>4, Zenon DEF Recording, WriterTypeOK
    <3>2. IsFiniteSet(Recording') /\ Cardinality(Recording') = Cardinality(Recording) + 1
        BY <2>1, <3>1, OneMore, Zenon DEF PendingInv
    <3>3. alive' => balance' + Cardinality(Recording') + (IF noting' THEN 1 ELSE 0)
                        = depth' - Cardinality(Telling')
        BY <1>1, <1>2, <2>1, <2>2, <2>4, <3>2, SMTT(30)
    <3> QED
        BY <2>2, <3>2, <3>3, Zenon DEF PendingInv, PendingBalanced, Recording, Telling
  <2> QED
      BY <1>5, <2>3, <2>4, SMTT(30) DEF Offer, Queued
<1>6. ASSUME NEW w \in Writers, Record(w)
      PROVE  PendingInv'
  <2>1. UNCHANGED <<noting, alive, pc, depth>> /\ w \in Recording /\ balance' = balance + 1
      BY <1>6, Zenon DEF Record, handlerVars, Recording
  <2>2. Telling' = Telling
      BY <2>1, Zenon DEF Telling
  <2>3. Recording' = Recording \ {w}
      BY <1>6, Zenon DEF Record, Recording, WriterTypeOK
  <2>4. IsFiniteSet(Recording') /\ Cardinality(Recording') = Cardinality(Recording) - 1
      BY <2>1, <2>3, OneLess, Zenon DEF PendingInv
  <2>5. alive' => balance' + Cardinality(Recording') + (IF noting' THEN 1 ELSE 0)
                      = depth' - Cardinality(Telling')
      BY <1>1, <1>2, <2>1, <2>2, <2>4, SMTT(30)
  <2> QED
      BY <2>2, <2>4, <2>5, Zenon DEF PendingInv, PendingBalanced, Recording, Telling
<1>7. ASSUME NEW k \in Keys, Notice(k)
      PROVE  PendingInv'
  <2>1. UNCHANGED <<balance, alive, pc, wpc>> /\ ~noting /\ noting' = TRUE /\ depth' = depth + 1
      BY <1>7, Zenon DEF Notice, Queued, handlerVars, healthVars, writerVars
  <2>2. Telling' = Telling /\ Recording' = Recording
      BY <2>1, Zenon DEF Telling, Recording
  <2>3. alive' => balance' + Cardinality(Recording') + 1 = depth' - Cardinality(Telling')
      BY <1>1, <1>2, <2>1, <2>2, SMTT(30)
  <2> QED
      BY <2>1, <2>2, <2>3, Zenon DEF PendingInv, PendingBalanced, Recording, Telling
<1>8. CASE NoticeRecorded
  <2>1. UNCHANGED <<alive, pc, wpc, depth>> /\ noting /\ noting' = FALSE /\ balance' = balance + 1
      BY <1>8, Zenon DEF NoticeRecorded, handlerVars, writerVars
  <2>2. Telling' = Telling /\ Recording' = Recording
      BY <2>1, Zenon DEF Telling, Recording
  <2>3. alive' => balance' + Cardinality(Recording') + 0 = depth' - Cardinality(Telling')
      BY <1>1, <1>2, <2>1, <2>2, SMTT(30)
  <2> QED
      BY <2>1, <2>2, <2>3, Zenon DEF PendingInv, PendingBalanced, Recording, Telling
<1>9. ASSUME NEW k \in Keys, NEW v, Edit(k, v)
      PROVE  PendingInv'
    BY <1>9, PendingUnchanged, Zenon DEF Edit, Telling, Recording, handlerVars, healthVars, writerVars
<1>10. CASE WindowPasses
    BY <1>10, PendingUnchanged, SMTT(30) DEF WindowPasses, pipelineVars, Telling, Recording, handlerVars, healthVars, writerVars
<1>11. CASE WorkerEnds /\ UNCHANGED <<writerVars, dirty, noting, owed, full, envVars>>
  <2>1. Telling' = {} /\ Recording' = Recording /\ ~alive'
      BY <1>11, Zenon DEF WorkerEnds, Telling, Recording, writerVars
  <2> QED
      BY <2>1, FS_EmptySet, Zenon DEF PendingInv, PendingBalanced
<1>12. ASSUME NEW k \in Keys, Handle(k) \/ Forget(k), ~Stamp(k), ~Tell(k),
              UNCHANGED <<writerVars, dirty, noting, owed, full, envVars>>
       PROVE  PendingInv'
  <2>1. UNCHANGED <<balance, alive, depth>>
      BY <1>12, Zenon DEF Handle, Begin, Examine, Announce, HeadUnavailable, Decide, Snapshot, WriteBatch, WriteDone,
                   Cleanup, Erase, Fail, Forget, healthVars
  <2>2. \A j \in Keys : pc'[j] = "tell" <=> pc[j] = "tell"
      BY <1>12, Zenon DEF Handle, Begin, Examine, Announce, HeadUnavailable, Decide, Snapshot, WriteBatch, WriteDone,
                   Cleanup, Erase, Fail, Forget, AfterHead, handlerVars, HandlerTypeOK
  <2>3. Telling' = Telling
      BY <2>2, Zenon DEF Telling
  <2>4. Recording' = Recording /\ UNCHANGED noting
      BY <1>12, SMTT(30) DEF Recording, writerVars
  <2> QED
      BY <2>1, <2>3, <2>4, PendingUnchanged, Zenon
<1>13. ASSUME NEW k \in Keys, Stamp(k), UNCHANGED <<writerVars, dirty, noting, owed, full, envVars>>
       PROVE  PendingInv'
  <2>1. UNCHANGED <<noting, alive, depth, wpc>> /\ balance' = balance - 1 /\ k \notin Telling
      BY <1>13, Zenon DEF Stamp, writerVars, Telling
  <2>2. Recording' = Recording
      BY <2>1, Zenon DEF Recording
  <2>3. Telling' = Telling \cup {k}
      BY <1>13, Zenon DEF Stamp, Telling, HandlerTypeOK
  <2>4. IsFiniteSet(Telling') /\ Cardinality(Telling') = Cardinality(Telling) + 1
      BY <2>1, <2>3, OneMore, Zenon DEF PendingInv
  <2>5. alive' => balance' + Cardinality(Recording') + (IF noting' THEN 1 ELSE 0)
                      = depth' - Cardinality(Telling')
      BY <1>1, <1>2, <2>1, <2>2, <2>4, SMTT(30)
  <2> QED
      BY <2>2, <2>4, <2>5, Zenon DEF PendingInv, PendingBalanced, Recording, Telling
<1>14. ASSUME NEW k \in Keys, Tell(k), UNCHANGED <<writerVars, dirty, noting, owed, full, envVars>>
       PROVE  PendingInv'
  <2>1. UNCHANGED <<noting, alive, balance, wpc>> /\ depth' = depth - 1 /\ k \in Telling
      BY <1>14, Zenon DEF Tell, writerVars, healthVars, Telling
  <2>2. Recording' = Recording
      BY <2>1, Zenon DEF Recording
  <2>3. Telling' = Telling \ {k}
      BY <1>14, Zenon DEF Tell, Telling, HandlerTypeOK
  <2>4. IsFiniteSet(Telling') /\ Cardinality(Telling') = Cardinality(Telling) - 1
      BY <2>1, <2>3, OneLess, Zenon DEF PendingInv
  <2>5. alive' => balance' + Cardinality(Recording') + (IF noting' THEN 1 ELSE 0)
                      = depth' - Cardinality(Telling')
      BY <1>1, <1>2, <2>1, <2>2, <2>4
  <2> QED
      BY <2>2, <2>4, <2>5, Zenon DEF PendingInv, PendingBalanced, Recording, Telling
<1> QED
    BY <1>3, <1>4, <1>5, <1>6, <1>7, <1>8, <1>9, <1>10, <1>11, <1>12, <1>13, <1>14, Zenon
    DEF Next, Worker, Handle, Put, Copy, Delete

\* health.rs: whatever the order in which an event is counted, handled and
\* stamped, and however many requests and bridges share the queue, pending is
\* exact up to the counts that are on their way.
THEOREM PendingIsBalanced == Spec => []PendingBalanced
<1>1. Init => PendingInv
  <2> SUFFICES ASSUME Init
               PROVE  PendingInv
      BY Zenon
  <2>1. Recording = {} /\ Telling = {}
      BY Zenon DEF Init, PipelineInit, Recording, Telling
  <2>2. IsFiniteSet(Recording) /\ IsFiniteSet(Telling) /\ Cardinality(Recording) = 0 /\ Cardinality(Telling) = 0
      BY <2>1, FS_EmptySet, Zenon
  <2>3. balance = 0 /\ depth = 0 /\ noting = FALSE
      BY Zenon DEF Init, PipelineInit
  <2>4. balance + Cardinality(Recording) + 0 = depth - Cardinality(Telling)
      BY <2>2, <2>3
  <2> QED
      BY <2>2, <2>3, <2>4, Zenon DEF PendingInv, PendingBalanced, Recording, Telling
<1>2. TypeInv /\ PendingInv /\ [Next]_vars => PendingInv'
  <2> SUFFICES ASSUME TypeInv, PendingInv, [Next]_vars
               PROVE  PendingInv'
      BY Zenon
  <2>1. CASE UNCHANGED vars
      BY <2>1, PendingUnchanged, Zenon DEF vars, pipelineVars, handlerVars, healthVars, writerVars, Recording, Telling
  <2> QED
      BY <2>1, PendingStep, Zenon
<1>3. PendingInv => PendingBalanced
    BY SMTT(30) DEF PendingInv
<1> QED
    BY <1>1, <1>2, <1>3, TypeInvariant, PTL DEF Spec


\* Somebody will look at k again: the worker is gone, the watcher or the queue has
\* it, its change was refused, or an unwatched request has still to offer its event.
Covered(k) ==
    \/ ~alive
    \/ k \in dirty
    \/ owed[k]
    \/ queue[k] # <<>>
    \/ ~Watched /\ \E w \in Writers : wkey[w] = k /\ Unoffered(w)

\* The points below next are those of head.
PrefixWritten(k) ==
    /\ \A p \in points[k] : p[1] < next[k] => p[2] = head[k]
    /\ \A i \in Nat : i < next[k] => <<i, head[k]>> \in points[k]

\* What a handler has done by the step it is at.
ProgressOK(k) ==
    /\ pc[k] = "head" => head[k] = Unseen
    /\ pc[k] \in {"write", "cleanup"} => PrefixWritten(k)
    /\ pc[k] = "cleanup" => next[k] = Chunks[head[k]]
    /\ pc[k] = "erase" => head[k] = Unseen \/ Wanted(head[k]) = {}

\* A point is a chunk of the version it names.
PointsOK(k) == \A p \in points[k] : p[2] \in Bodies \ Opaque /\ p[1] < Chunks[p[2]]

\* What the outcome "indexed" says.
OutcomeOK(k) ==
    pc[k] \in {"stamp", "tell"} /\ outcome[k] = "indexed" => points[k] = Wanted(head[k])

\* A handler works on what is stored, or somebody will look again.
FreshOK(k) ==
    pc[k] \in {"announce", "index", "read", "write", "cleanup", "erase"} =>
        Covered(k) \/ head[k] = store[k] \/ (pc[k] = "erase" /\ head[k] = Unseen)

\* Between handlers the difference is accounted for.
SettledOK(k) ==
    pc[k] \in {"idle", "stamp", "tell"} =>
        \/ Covered(k)
        \/ outcome[k] = "failed"
        \/ points[k] = Wanted(store[k])
        \/ HalfWritten(k)
        \/ Believed(k)

DataInv == \A k \in Keys : ProgressOK(k) /\ PointsOK(k) /\ OutcomeOK(k)
StoreInv == \A k \in Keys : FreshOK(k) /\ SettledOK(k)

\* Points of the version a handler writes: what a batch, the cleanup and a
\* complete indexing leave behind.
LEMMA PointFacts ==
    ASSUME TypeInv, DataInv, NEW k \in Keys
    PROVE  /\ \A p \in points[k] : p[1] \in Nat /\ p[2] \in Bodies /\ p = <<p[1], p[2]>>
           /\ next[k] \in Nat
           /\ pc[k] \in {"read", "write", "cleanup"} =>
                head[k] \in Bodies \ Opaque /\ Chunks[head[k]] \in Nat
    BY ChunksAssumption DEF TypeInv, TypeOK, PipelineTypeOK, HandlerTypeOK, HeadOK

\* What is not indexed text has no points.
LEMMA NothingWanted ==
    ASSUME NEW v, v \notin Bodies \ Opaque
    PROVE  Wanted(v) = {}
    BY Zenon DEF Wanted

\* The points of a version that is indexed text.
LEMMA WantedElements ==
    ASSUME NEW v \in Bodies \ Opaque, NEW i, NEW u
    PROVE  <<i, u>> \in Wanted(v) <=> i \in Nat /\ i < Chunks[v] /\ u = v
<1>1. Chunks[v] \in Nat
    BY ChunksAssumption, SMTT(30)
<1> QED
    BY <1>1 DEF Wanted

\* What a batch leaves: chunks of their versions, and those of head below its end.
LEMMA BatchLeaves ==
    ASSUME TypeInv, DataInv, NEW k \in Keys, pc[k] = "write"
    PROVE  /\ \A p \in WithBatch(k) : p[2] \in Bodies \ Opaque /\ p[1] < Chunks[p[2]]
           /\ \A p \in WithBatch(k) : p[1] < BatchEnd(k) => p[2] = head[k]
           /\ \A i \in Nat : i < BatchEnd(k) => <<i, head[k]>> \in WithBatch(k)
<1> DEFINE batch == next[k] .. BatchEnd(k) - 1
<1>1. /\ BatchEnd(k) \in Nat /\ BatchEnd(k) <= Chunks[head[k]] /\ next[k] <= BatchEnd(k)
      /\ head[k] \in Bodies \ Opaque /\ Chunks[head[k]] \in Nat /\ next[k] \in Nat
    BY BatchPoints, PointFacts, Zenon DEF TypeInv
<1>2. \A p \in points[k] : p[1] \in Nat
    BY PointFacts, Zenon
<1>3. PrefixWritten(k) /\ PointsOK(k)
    BY SMTT(30) DEF DataInv, ProgressOK
<1>4. \A p \in WithBatch(k) :
          \/ p \in points[k] /\ p[1] \notin batch
          \/ p[1] \in batch /\ p[2] = head[k]
    BY Zenon DEF WithBatch
<1>5. \A i \in batch : <<i, head[k]>> \in WithBatch(k)
    BY Zenon DEF WithBatch
<1>6. \A i \in Nat : i < next[k] => <<i, head[k]>> \in WithBatch(k)
  <2>1. \A i \in Nat : i < next[k] => <<i, head[k]>> \in points[k]
      BY <1>3, SMTT(30) DEF PrefixWritten
  <2>2. \A i \in Nat : i < next[k] => i \notin batch
      BY <1>1
  <2> QED
      BY <2>1, <2>2, Zenon DEF WithBatch
<1>7. \A i \in Nat : i < BatchEnd(k) => i < next[k] \/ i \in batch
    BY <1>1, SMTT(30)
<1>8. \A p \in WithBatch(k) : p[2] \in Bodies \ Opaque /\ p[1] < Chunks[p[2]]
    BY <1>1, <1>3, <1>4, SMTT(30) DEF PointsOK
<1>9. \A p \in WithBatch(k) : p[1] < BatchEnd(k) => p[2] = head[k]
    BY <1>1, <1>2, <1>3, <1>4, <1>7, Zenon DEF PrefixWritten
<1> QED
    BY <1>5, <1>6, <1>7, <1>8, <1>9, Zenon

\* After the last batch, the points that the cleanup keeps are those of head.
LEMMA KeptIsWanted ==
    ASSUME TypeInv, DataInv, NEW k \in Keys, pc[k] = "cleanup"
    PROVE  Kept(k) = Wanted(head[k])
<1>1. head[k] \in Bodies \ Opaque /\ Chunks[head[k]] \in Nat /\ next[k] = Chunks[head[k]] /\ PrefixWritten(k)
    BY PointFacts, Zenon DEF DataInv, ProgressOK
<1>2. ASSUME NEW p \in Kept(k)
      PROVE  p \in Wanted(head[k])
  <2>1. p \in points[k] /\ p[1] < Chunks[head[k]] /\ p[2] = head[k]
      BY <1>1, Zenon DEF Kept, PrefixWritten
  <2>2. p[1] \in Nat /\ p = <<p[1], p[2]>>
      BY <2>1, PointFacts, Zenon
  <2> QED
      BY <1>1, <2>1, <2>2, WantedElements
<1>3. ASSUME NEW p \in Wanted(head[k])
      PROVE  p \in Kept(k)
  <2>1. p[1] \in Nat /\ p[1] < Chunks[head[k]] /\ p = <<p[1], head[k]>>
      BY <1>1 DEF Wanted
  <2>2. p \in points[k]
      BY <1>1, <2>1, Zenon DEF PrefixWritten
  <2> QED
      BY <1>1, <2>1, <2>2, Zenon DEF Kept
<1> QED
    BY <1>2, <1>3, Zenon

\* A version that every point names has all of them among its chunks.
LEMMA AgreedIsSubset ==
    ASSUME TypeInv, DataInv, NEW k \in Keys, NEW v, IndexedAs(k, v)
    PROVE  points[k] # {} /\ points[k] \subseteq Wanted(v)
<1>1. v \in Bodies \ Opaque
    BY Zenon DEF IndexedAs, DataInv, PointsOK
<1>2. ASSUME NEW p \in points[k]
      PROVE  p \in Wanted(v)
  <2>1. p[2] = v /\ p[1] < Chunks[v]
      BY Zenon DEF IndexedAs, DataInv, PointsOK
  <2>2. p[1] \in Nat /\ p = <<p[1], p[2]>>
      BY PointFacts, Zenon
  <2> QED
      BY <1>1, <2>1, <2>2, WantedElements, SMTT(30)
<1> QED
    BY <1>2, Zenon DEF IndexedAs

\* The keys whose handler does not move.
LEMMA OthersKept ==
    ASSUME TypeInv, NEW k \in Keys, Handle(k) \/ Forget(k), NEW j \in Keys, j # k
    PROVE  /\ pc'[j] = pc[j] /\ head'[j] = head[j] /\ next'[j] = next[j] /\ outcome'[j] = outcome[j]
           /\ points'[j] = points[j] /\ queue'[j] = queue[j]
    BY Zenon DEF Handle, Begin, Examine, Announce, HeadUnavailable, Decide, Snapshot, WriteBatch, WriteDone,
           Cleanup, Erase, Fail, Stamp, Tell, Forget, handlerVars,
           TypeInv, TypeOK, PipelineTypeOK, HandlerTypeOK

\* A step keeps what the handlers have done, the points and the outcomes.
LEMMA DataStep ==
    ASSUME TypeInv, DataInv, Next
    PROVE  DataInv'
<1>1. CASE UNCHANGED <<handlerVars, points, seen, kbFailed>>
    BY <1>1, Zenon DEF handlerVars, DataInv, ProgressOK, PointsOK, OutcomeOK, PrefixWritten
<1>2. CASE WorkerEnds
    BY <1>2, Zenon DEF WorkerEnds, DataInv, ProgressOK, PointsOK, OutcomeOK
<1>3. ASSUME NEW k \in Keys, Handle(k) \/ Forget(k), NEW j \in Keys, j # k
      PROVE  (ProgressOK(j) /\ PointsOK(j) /\ OutcomeOK(j))'
  <2>1. /\ pc'[j] = pc[j] /\ head'[j] = head[j] /\ next'[j] = next[j]
        /\ outcome'[j] = outcome[j] /\ points'[j] = points[j]
      BY <1>3, OthersKept, Zenon
  <2>2. ProgressOK(j) /\ PointsOK(j) /\ OutcomeOK(j)
      BY Zenon DEF DataInv
  <2>3. ProgressOK(j)'
      BY <2>1, <2>2, Zenon DEF ProgressOK, PrefixWritten
  <2>4. PointsOK(j)' /\ OutcomeOK(j)'
      BY <2>1, <2>2, ZenonT(30) DEF PointsOK, OutcomeOK
  <2> QED
      BY <2>3, <2>4, Zenon
<1>4. ASSUME NEW k \in Keys, Handle(k) \/ Forget(k)
      PROVE  (ProgressOK(k) /\ PointsOK(k) /\ OutcomeOK(k))'
  <2>0. ProgressOK(k) /\ PointsOK(k) /\ OutcomeOK(k) /\ HeadOK(k)
      BY SMTT(30) DEF DataInv, TypeInv
  <2>t. k \in DOMAIN pc /\ k \in DOMAIN head /\ k \in DOMAIN next /\ k \in DOMAIN outcome /\ k \in DOMAIN points
      BY Zenon DEF TypeInv, TypeOK, PipelineTypeOK, HandlerTypeOK
  <2>1. CASE Begin(k)
    <3>1. pc'[k] = "head" /\ head'[k] = Unseen /\ points' = points
        BY <2>1, <2>t, Zenon DEF Begin
    <3> QED
        BY <2>0, <3>1, Zenon DEF ProgressOK, PointsOK, OutcomeOK
  <2>2. CASE Examine(k)
    <3>1. /\ pc'[k] \in {"announce", AfterHead(store[k])} /\ head'[k] = store[k] /\ points' = points
        BY <2>2, <2>t, SMTT(30) DEF Examine
    <3>2. pc'[k] = "erase" => Wanted(head'[k]) = {}
        BY <3>1, VersionAssumption, NothingWanted, Zenon DEF AfterHead
    <3> QED
        BY <2>0, <3>1, <3>2, Zenon DEF ProgressOK, PointsOK, OutcomeOK, AfterHead
  <2>3. CASE Announce(k)
    <3>1. /\ pc'[k] = AfterHead(head[k]) /\ head' = head /\ points' = points
        BY <2>3, <2>t, Zenon DEF Announce
    <3>2. pc'[k] = "erase" => Wanted(head'[k]) = {}
        BY <3>1, VersionAssumption, NothingWanted, Zenon DEF AfterHead
    <3> QED
        BY <2>0, <3>1, <3>2, Zenon DEF ProgressOK, PointsOK, OutcomeOK, AfterHead
  <2>4. CASE HeadUnavailable(k)
    <3>1. pc[k] = "head" /\ pc'[k] = "erase" /\ head' = head /\ points' = points
        BY <2>4, <2>t, Zenon DEF HeadUnavailable
    <3> QED
        BY <2>0, <3>1, Zenon DEF ProgressOK, PointsOK, OutcomeOK
  <2>5. CASE Decide(k)
    <3>1. /\ head' = head /\ points' = points
          /\ \/ pc'[k] = "erase" /\ head[k] \in Opaque
             \/ pc'[k] = "stamp" /\ outcome'[k] = "skipped"
             \/ pc'[k] = "read"
        BY <2>5, <2>t, Zenon DEF Decide
    <3>2. head[k] \in Opaque => Wanted(head[k]) = {}
        BY NothingWanted, Zenon
    <3> QED
        BY <2>0, <3>1, <3>2, ZenonT(30) DEF ProgressOK, PointsOK, OutcomeOK
  <2>6. CASE Snapshot(k)
    <3>1. /\ head' = head /\ points' = points /\ next'[k] = 0
          /\ pc'[k] = "write" \/ (pc'[k] = "stamp" /\ outcome'[k] = "failed")
        BY <2>6, <2>t, Zenon DEF Snapshot
    <3>2. PrefixWritten(k)'
        BY <3>1, PointFacts, SMTT(30) DEF PrefixWritten
    <3> QED
        BY <2>0, <3>1, <3>2, Zenon DEF ProgressOK, PointsOK, OutcomeOK
  <2>7. CASE WriteBatch(k)
    <3>1. /\ pc[k] = "write" /\ pc'[k] = "write" /\ head' = head
          /\ points'[k] = WithBatch(k) /\ next'[k] = BatchEnd(k)
        BY <2>7, <2>t, ZenonT(30) DEF WriteBatch
    <3>2. PrefixWritten(k)' /\ PointsOK(k)'
        BY <3>1, BatchLeaves, Zenon DEF PrefixWritten, PointsOK
    <3> QED
        BY <3>1, <3>2, Zenon DEF ProgressOK, OutcomeOK
  <2>8. CASE WriteDone(k)
    <3>1. /\ pc[k] = "write" /\ next[k] = Chunks[head[k]]
          /\ pc'[k] = (IF next[k] = 0 THEN "erase" ELSE "cleanup")
          /\ head' = head /\ points' = points /\ next' = next
        BY <2>8, <2>t, Zenon DEF WriteDone
    <3>2. next[k] = 0 => Wanted(head[k]) = {}
        BY <3>1, SMTT(30) DEF Wanted
    <3>3. pc'[k] = "cleanup" => PrefixWritten(k)'
        BY <2>0, <3>1, Zenon DEF ProgressOK, PrefixWritten
    <3> QED
        BY <2>0, <3>1, <3>2, <3>3, Zenon DEF ProgressOK, PointsOK, OutcomeOK
  <2>9. CASE Cleanup(k)
    <3>1. /\ pc[k] = "cleanup" /\ pc'[k] = "stamp" /\ head' = head /\ points'[k] = Kept(k)
        BY <2>9, <2>t, Zenon DEF Cleanup
    <3>2. points'[k] = Wanted(head'[k]) /\ points'[k] \subseteq points[k]
        BY <3>1, KeptIsWanted, ZenonT(30) DEF Kept
    <3> QED
        BY <2>0, <3>1, <3>2, Zenon DEF ProgressOK, PointsOK, OutcomeOK
  <2>10. CASE Erase(k)
    <3>1. pc'[k] = "stamp" /\ outcome'[k] = "tombstoned" /\ points'[k] = {}
        BY <2>10, <2>t, SMTT(30) DEF Erase
    <3> QED
        BY <3>1, Zenon DEF ProgressOK, PointsOK, OutcomeOK
  <2>11. CASE Fail(k)
    <3>1. /\ pc'[k] = "stamp" /\ outcome'[k] = "failed"
          /\ \/ points'[k] \subseteq points[k]
             \/ pc[k] = "write" /\ points'[k] = WithBatch(k)
        BY <2>11, <2>t, SMTT(30) DEF Fail, Kept
    <3>2. PointsOK(k)'
        BY <2>0, <3>1, BatchLeaves, Zenon DEF PointsOK
    <3> QED
        BY <3>1, <3>2, Zenon DEF ProgressOK, OutcomeOK
  <2>12. CASE Stamp(k) \/ Tell(k)
    <3>1. /\ pc[k] \in {"stamp", "tell"} /\ pc'[k] \in {"tell", "idle"}
          /\ head' = head /\ points' = points /\ outcome' = outcome
        BY <2>12, <2>t, Zenon DEF Stamp, Tell
    <3> QED
        BY <2>0, <3>1, Zenon DEF ProgressOK, PointsOK, OutcomeOK
  <2>13. CASE Forget(k)
      BY <2>0, <2>13, Zenon DEF Forget, handlerVars, ProgressOK, PointsOK, OutcomeOK, PrefixWritten
  <2> QED
      BY <1>4, <2>1, <2>2, <2>3, <2>4, <2>5, <2>6, <2>7, <2>8, <2>9, <2>10, <2>11, <2>12, <2>13, Zenon DEF Handle
<1> QED
    BY <1>1, <1>2, <1>3, <1>4, StepFrame, Zenon DEF DataInv

\* An event that enters the queue covers its key.
LEMMA QueuedCovers ==
    ASSUME TypeInv, NEW k \in Keys, NEW e, Queued(k, e)
    PROVE  queue'[k] # <<>>
<1>1. queue[k] \in Seq(Kinds)
    BY Zenon DEF TypeInv, TypeOK, PipelineTypeOK
<1>2. queue'[k] = Append(queue[k], e)
    BY Zenon DEF Queued, TypeInv, TypeOK, PipelineTypeOK
<1>3. Append(queue[k], e) # <<>>
    BY <1>1
<1> QED
    BY <1>2, <1>3, Zenon

\* Only a handler that starts takes the cover off a key, and only what covers it
\* changes what is stored under it.
LEMMA CoverageKept ==
    ASSUME TypeInv, Next, NEW k \in Keys
    PROVE  Covered(k)' \/ (store'[k] = store[k] /\ ~Covered(k)) \/ Begin(k)
<1> USE DEF TypeInv, TypeOK, PipelineTypeOK, WriterTypeOK
<1> DEFINE Kept1 == Covered(k)' \/ (store'[k] = store[k] /\ ~Covered(k))
<1>1. ASSUME NEW w \in Writers, NEW j \in Keys, NEW v \in Versions, NEW t \in {"publish", "describe"},
             Stored(w, j, v, t)
      PROVE  Kept1
  <2>1. CASE j = k /\ Watched
      BY <1>1, <2>1, Zenon DEF Stored, Changed, Covered
  <2>2. CASE j = k /\ ~Watched
    <3>1. wkey'[w] = k /\ Unoffered(w)'
        BY <1>1, <2>2, SMTT(30) DEF Stored, Unoffered
    <3> QED
        BY <2>2, <3>1, ZenonT(30) DEF Covered
  <2>3. CASE j # k
    <3>1. store'[k] = store[k] /\ (k \in dirty => k \in dirty')
        BY <1>1, <2>3, SMTT(30) DEF Stored, Changed
    <3>2. \A u \in Writers : wkey[u] = k /\ Unoffered(u) => wkey'[u] = k /\ Unoffered(u)'
        BY <1>1, SMTT(30) DEF Stored, Unoffered
    <3> QED
        BY <1>1, <3>1, <3>2, SMTT(30) DEF Stored, Covered
  <2> QED
      BY <2>1, <2>2, <2>3, SMTT(30)
<1>2. ASSUME NEW w \in Writers, Describe(w)
      PROVE  Kept1
  <2>1. CASE wpc' = [wpc EXCEPT ![w] = "publish"] /\ UNCHANGED owed
    <3>1. \A u \in Writers : Unoffered(u) => Unoffered(u)'
        BY <2>1, Zenon DEF Unoffered
    <3> QED
        BY <1>2, <2>1, <3>1, Zenon DEF Describe, Covered
  <2>2. CASE owed' = [owed EXCEPT ![wkey[w]] = owed[wkey[w]] \/ ~Watched] /\ wpc' = [wpc EXCEPT ![w] = "idle"]
    <3>1. owed[k] => owed'[k]
        BY <2>2, Zenon
    <3>2. wkey[w] = k /\ ~Watched => owed'[k]
        BY <2>2, Zenon
    <3>3. \A u \in Writers : u # w /\ Unoffered(u) => Unoffered(u)'
        BY <2>2, Zenon DEF Unoffered
    <3>4. UNCHANGED <<store, wkey, dirty, queue, alive>>
        BY <1>2, Zenon DEF Describe
    <3>5. CASE Covered(k)'
        BY <3>5, Zenon
    <3>6. CASE Covered(k) /\ ~Covered(k)'
      <4>1. ~Watched /\ \E u \in Writers : wkey[u] = k /\ Unoffered(u)
          BY <3>1, <3>4, <3>6, Zenon DEF Covered
      <4>2. PICK u \in Writers : wkey[u] = k /\ Unoffered(u)
          BY <4>1, Zenon
      <4> QED
          BY <3>2, <3>3, <3>4, <3>6, <4>1, <4>2, Zenon DEF Covered
    <3> QED
        BY <3>4, <3>5, <3>6, Zenon
  <2> QED
      BY <1>2, <2>1, <2>2, Zenon DEF Describe
<1>3. ASSUME NEW w \in Writers, Publish(w) \/ Record(w)
      PROVE  Kept1
  <2>1. \A u \in Writers : Unoffered(u) => Unoffered(u)'
      BY <1>3, Zenon DEF Publish, Record, Unoffered
  <2> QED
      BY <1>3, <2>1, Zenon DEF Publish, Record, Covered
<1>4. ASSUME NEW w \in Writers, Offer(w)
      PROVE  Kept1
  <2>1. UNCHANGED <<store, alive, dirty, wkey>> /\ wkey[w] \in Keys
      BY <1>4, Zenon DEF Offer
  <2>2. \A u \in Writers : u # w /\ Unoffered(u) => Unoffered(u)'
      BY <1>4, Zenon DEF Offer, Unoffered
  <2>3. CASE Queued(wkey[w], EventOf(wver[w]))
    <3>1. wkey[w] = k => queue'[k] # <<>>
        BY <2>1, <2>3, QueuedCovers, Zenon
    <3>2. wkey[w] # k => queue'[k] = queue[k] /\ owed'[k] = owed[k]
        BY <2>1, <2>3, Zenon DEF Queued
    <3> QED
        BY <2>1, <2>2, <3>1, <3>2, Zenon DEF Covered
  <2>4. CASE owed' = [owed EXCEPT ![wkey[w]] = owed[wkey[w]] \/ ~Watched] /\ UNCHANGED queue
    <3>1. owed[k] => owed'[k]
        BY <2>1, <2>4, Zenon
    <3>2. wkey[w] = k /\ ~Watched => owed'[k]
        BY <2>1, <2>4, Zenon
    <3> QED
        BY <2>1, <2>2, <2>4, <3>1, <3>2, Zenon DEF Covered
  <2>5. CASE ~alive
      BY <2>1, <2>5, Zenon DEF Covered
  <2> QED
      BY <1>4, <2>3, <2>4, <2>5, Zenon DEF Offer
<1>5. ASSUME NEW j \in Keys, NEW v \in Versions, Edit(j, v) \/ \E w \in Writers : StoreDropped(w, j, v)
      PROVE  Kept1
  <2>1. UNCHANGED <<alive, queue, wpc, wkey>>
      BY <1>5, Zenon DEF StoreDropped, Edit, writerVars
  <2>2. CASE j = k
    <3>1. Watched => k \in dirty'
        BY <1>5, <2>2, Zenon DEF StoreDropped, Edit, Changed
    <3>2. ~Watched => owed'[k]
        BY <1>5, <2>2, Zenon DEF StoreDropped, Edit
    <3> QED
        BY <3>1, <3>2, Zenon DEF Covered
  <2>3. CASE j # k
    <3>1. store'[k] = store[k] /\ (k \in dirty => k \in dirty') /\ owed'[k] = owed[k]
        BY <1>5, <2>3, Zenon DEF StoreDropped, Edit, Changed
    <3> QED
        BY <2>1, <3>1, Zenon DEF Covered, Unoffered
  <2> QED
      BY <2>2, <2>3, Zenon
<1>6. ASSUME NEW j \in Keys, Notice(j)
      PROVE  Kept1
  <2>1. UNCHANGED <<store, alive, wpc, wkey>>
      BY <1>6, Zenon DEF Notice, writerVars
  <2>2. j = k => queue'[k] # <<>>
      BY <1>6, QueuedCovers, Zenon DEF Notice
  <2>3. j # k => queue'[k] = queue[k] /\ owed'[k] = owed[k] /\ (k \in dirty => k \in dirty')
      BY <1>6, Zenon DEF Notice, Queued
  <2> QED
      BY <2>1, <2>2, <2>3, Zenon DEF Covered, Unoffered
<1>7. CASE NoticeRecorded \/ WindowPasses
    BY <1>7, Zenon DEF NoticeRecorded, WindowPasses, pipelineVars, writerVars, Covered, Unoffered
<1>8. CASE WorkerEnds
    BY <1>8, Zenon DEF WorkerEnds, Covered
<1>9. ASSUME NEW j \in Keys, Handle(j) \/ Forget(j), UNCHANGED <<writerVars, dirty, noting, owed, full, envVars>>
      PROVE  Kept1 \/ Begin(k)
  <2>1. UNCHANGED <<store, alive>>
      BY <1>9, Zenon DEF Handle, Begin, Examine, Announce, HeadUnavailable, Decide, Snapshot, WriteBatch, WriteDone,
                  Cleanup, Erase, Fail, Stamp, Tell, Forget
  <2>2. queue'[k] = queue[k] \/ Begin(k)
      BY <1>9, Zenon DEF Handle, Begin, Examine, Announce, HeadUnavailable, Decide, Snapshot, WriteBatch, WriteDone,
                  Cleanup, Erase, Fail, Stamp, Tell, Forget
  <2> QED
      BY <1>9, <2>1, <2>2, Zenon DEF Covered, Unoffered, writerVars
<1>10. \A j \in Keys : store[j] \in Versions
    BY Zenon
<1> QED
    BY <1>1, <1>2, <1>3, <1>4, <1>5, <1>6, <1>7, <1>8, <1>9, <1>10, Zenon DEF Next, Worker, Put, Copy, Delete, Versions

\* A step of the handler of an uncovered key.
LEMMA UncoveredStep ==
    ASSUME TypeInv, DataInv, NEW k \in Keys, FreshOK(k), SettledOK(k), Handle(k) \/ Forget(k),
           store'[k] = store[k], ~Covered(k)
    PROVE  FreshOK(k)' /\ SettledOK(k)'
<1>0. ProgressOK(k) /\ HeadOK(k)
    BY Zenon DEF DataInv, TypeInv
<1>t. k \in DOMAIN pc /\ k \in DOMAIN head /\ k \in DOMAIN outcome /\ k \in DOMAIN points
    BY Zenon DEF TypeInv, TypeOK, PipelineTypeOK, HandlerTypeOK
<1>1. CASE Begin(k)
  <2>1. pc'[k] = "head"
      BY <1>1, <1>t, Zenon DEF Begin
  <2> QED
      BY <2>1, Zenon DEF FreshOK, SettledOK
<1>2. CASE Examine(k)
  <2>1. head'[k] = store'[k] /\ pc'[k] \in {"announce", "erase", "index"}
      BY <1>2, <1>t, Zenon DEF Examine, AfterHead
  <2> QED
      BY <2>1, Zenon DEF FreshOK, SettledOK
<1>3. CASE Announce(k)
  <2>1. head' = head /\ pc[k] = "announce" /\ pc'[k] \in {"erase", "index"}
      BY <1>3, <1>t, Zenon DEF Announce, AfterHead
  <2> QED
      BY <2>1, Zenon DEF FreshOK, SettledOK
<1>4. CASE HeadUnavailable(k)
  <2>1. head' = head /\ pc[k] = "head" /\ pc'[k] = "erase"
      BY <1>4, <1>t, Zenon DEF HeadUnavailable
  <2> QED
      BY <1>0, <2>1, Zenon DEF FreshOK, SettledOK, ProgressOK
<1>5. CASE Decide(k)
  <2>1. head' = head /\ points' = points /\ pc[k] = "index" /\ head[k] = store[k]
      BY <1>5, Zenon DEF Decide, FreshOK
  <2>2. CASE pc'[k] \in {"erase", "read"}
      BY <2>1, <2>2, Zenon DEF FreshOK, SettledOK
  <2>3. CASE pc'[k] = "stamp" /\ AlreadyIndexed(k)
    <3>1. points[k] # {} /\ points[k] \subseteq Wanted(head[k])
        BY <2>3, AgreedIsSubset, Zenon DEF AlreadyIndexed
    <3>2. HalfWritten(k)'
        BY <2>1, <3>1, Zenon DEF HalfWritten
    <3> QED
        BY <2>3, <3>2, Zenon DEF FreshOK, SettledOK
  <2> QED
      BY <1>5, <1>t, <2>2, <2>3, Zenon DEF Decide
<1>6. CASE Snapshot(k)
  <2>1. /\ head' = head /\ pc[k] = "read"
        /\ pc'[k] = "write" \/ (pc'[k] = "stamp" /\ outcome'[k] = "failed")
      BY <1>6, <1>t, Zenon DEF Snapshot
  <2> QED
      BY <2>1, Zenon DEF FreshOK, SettledOK
<1>7. CASE WriteBatch(k) \/ WriteDone(k)
  <2>1. head' = head /\ pc[k] = "write" /\ pc'[k] \in {"write", "erase", "cleanup"}
      BY <1>7, <1>t, Zenon DEF WriteBatch, WriteDone
  <2> QED
      BY <2>1, Zenon DEF FreshOK, SettledOK
<1>8. CASE Cleanup(k)
  <2>1. pc[k] = "cleanup" /\ pc'[k] = "stamp" /\ points'[k] = Kept(k)
      BY <1>8, <1>t, Zenon DEF Cleanup
  <2>2. head[k] = store[k]
      BY <2>1, Zenon DEF FreshOK
  <2>3. points'[k] = Wanted(store'[k])
      BY <2>1, <2>2, KeptIsWanted, Zenon
  <2> QED
      BY <2>1, <2>3, Zenon DEF FreshOK, SettledOK
<1>9. CASE Erase(k)
  <2>1. pc[k] = "erase" /\ pc'[k] = "stamp" /\ points'[k] = {} /\ outcome'[k] = "tombstoned" /\ head' = head
      BY <1>9, <1>t, Zenon DEF Erase
  <2>2. CASE head[k] = Unseen
    <3>1. Believed(k)'
        BY <2>1, <2>2, Zenon DEF Believed
    <3> QED
        BY <2>1, <3>1, Zenon DEF FreshOK, SettledOK
  <2>3. CASE head[k] # Unseen
    <3>1. points'[k] = Wanted(store'[k])
        BY <1>0, <2>1, <2>3, Zenon DEF ProgressOK, FreshOK
    <3> QED
        BY <2>1, <3>1, Zenon DEF FreshOK, SettledOK
  <2> QED
      BY <2>2, <2>3, Zenon
<1>10. CASE Fail(k)
  <2>1. pc'[k] = "stamp" /\ outcome'[k] = "failed"
      BY <1>10, <1>t, Zenon DEF Fail
  <2> QED
      BY <2>1, Zenon DEF FreshOK, SettledOK
<1>11. CASE Stamp(k) \/ Tell(k)
  <2>1. /\ pc[k] \in {"stamp", "tell"} /\ pc'[k] \in {"tell", "idle"}
        /\ head' = head /\ points' = points /\ outcome' = outcome
      BY <1>11, <1>t, Zenon DEF Stamp, Tell
  <2> QED
      BY <2>1, Zenon DEF FreshOK, SettledOK, HalfWritten, Believed
<1>12. CASE Forget(k)
    BY <1>12, Zenon DEF Forget, handlerVars, FreshOK, SettledOK, HalfWritten, Believed
<1> QED
    BY <1>1, <1>2, <1>3, <1>4, <1>5, <1>6, <1>7, <1>8, <1>9, <1>10, <1>11, <1>12, Zenon DEF Handle

\* A step leaves every key fresh and settled.
LEMMA StoreStep ==
    ASSUME TypeInv, DataInv, StoreInv, Next
    PROVE  StoreInv'
<1> SUFFICES ASSUME NEW k \in Keys
             PROVE  FreshOK(k)' /\ SettledOK(k)'
    BY Zenon DEF StoreInv
<1>0. FreshOK(k) /\ SettledOK(k)
    BY Zenon DEF StoreInv
<1>1. CASE Covered(k)'
    BY <1>1, Zenon DEF FreshOK, SettledOK
<1>2. CASE Begin(k)
  <2>1. pc'[k] = "head"
      BY <1>2, Zenon DEF Begin, TypeInv, TypeOK, HandlerTypeOK
  <2> QED
      BY <2>1, Zenon DEF FreshOK, SettledOK
<1>3. CASE store'[k] = store[k] /\ ~Covered(k) /\ ~Covered(k)'
  <2>1. CASE UNCHANGED <<handlerVars, points, seen, kbFailed>>
      BY <1>0, <1>3, <2>1, Zenon DEF handlerVars, FreshOK, SettledOK, HalfWritten, Believed
  <2>2. CASE WorkerEnds
      BY <1>3, <2>2, Zenon DEF WorkerEnds, Covered
  <2>3. ASSUME NEW j \in Keys, Handle(j) \/ Forget(j), j # k
        PROVE  FreshOK(k)' /\ SettledOK(k)'
    <3>1. /\ pc'[k] = pc[k] /\ head'[k] = head[k] /\ outcome'[k] = outcome[k] /\ points'[k] = points[k]
        BY <2>3, OthersKept, Zenon
    <3> QED
        BY <1>0, <1>3, <3>1, Zenon DEF FreshOK, SettledOK, HalfWritten, Believed
  <2>4. CASE Handle(k) \/ Forget(k)
      BY <1>0, <1>3, <2>4, UncoveredStep, Zenon
  <2> QED
      BY <2>1, <2>2, <2>3, <2>4, StepFrame, Zenon
<1> QED
    BY <1>1, <1>2, <1>3, CoverageKept, Zenon

\* The inductive invariant behind the index.
LEMMA IndexInvariant == Spec => [](DataInv /\ StoreInv)
<1>1. Init => DataInv /\ StoreInv
  <2> SUFFICES ASSUME Init, NEW k \in Keys
               PROVE  ProgressOK(k) /\ PointsOK(k) /\ OutcomeOK(k) /\ FreshOK(k) /\ SettledOK(k)
      BY Zenon DEF DataInv, StoreInv
  <2>1. pc[k] = "idle" /\ points[k] = {} /\ store[k] = Absent
      BY Zenon DEF Init, PipelineInit
  <2>2. Wanted(Absent) = {}
      BY VersionAssumption, NothingWanted, Zenon
  <2> QED
      BY <2>1, <2>2, Zenon DEF ProgressOK, PointsOK, OutcomeOK, FreshOK, SettledOK
<1>2. TypeInv /\ DataInv /\ StoreInv /\ [Next]_vars => (DataInv /\ StoreInv)'
  <2> SUFFICES ASSUME TypeInv, DataInv, StoreInv, [Next]_vars
               PROVE  (DataInv /\ StoreInv)'
      BY Zenon
  <2>1. CASE UNCHANGED vars
      BY <2>1, Zenon DEF vars, pipelineVars, handlerVars, writerVars, DataInv, StoreInv, ProgressOK, PointsOK, OutcomeOK,
                  PrefixWritten, FreshOK, SettledOK, Covered, HalfWritten, Believed, Unoffered
  <2> QED
      BY <2>1, DataStep, StoreStep, Zenon
<1> QED
    BY <1>1, <1>2, TypeInvariant, PTL DEF Spec

\* commit.rs, worker.rs: for all keys, bodies, batch sizes and writers, watched or
\* not, and whatever fails or is dropped, the index differs from storage only
\* where something accounts for it.
THEOREM IndexFollowsStorage == Spec => []DifferencesAccounted
<1>1. StoreInv => DifferencesAccounted
  <2> SUFFICES ASSUME StoreInv, NEW k \in Keys
               PROVE  points[k] = Wanted(store[k]) \/ Accounted(k) \/ HalfWritten(k) \/ Believed(k)
      BY Zenon DEF DifferencesAccounted
  <2>1. FreshOK(k) /\ SettledOK(k)
      BY Zenon DEF StoreInv
  <2> QED
      BY <2>1, Zenon DEF SettledOK, Covered, Accounted
<1> QED
    BY <1>1, IndexInvariant, PTL

\* worker.rs handle: when object.indexed is published for a version, the index holds
\* exactly the chunks of that version.
THEOREM IndexedMeansSearchable == Spec => []IndexedIsSearchable
<1>1. DataInv => IndexedIsSearchable
    BY Zenon DEF DataInv, OutcomeOK, IndexedIsSearchable
<1> QED
    BY <1>1, IndexInvariant, PTL
=============================================================================
