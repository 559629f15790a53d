--------------------------- MODULE IndexScheduler ---------------------------
(***************************************************************************)
(* The indexing queue (notedthat-indexer/src/queue.rs) and the scheduler    *)
(* of the indexer worker (worker.rs: run_loop, start_ready, drain, Lanes).  *)
(*                                                                         *)
(* Producers hand events over with try_send (the write path) or send (the   *)
(* reconciler and the filesystem bridge).  An event carries a permit of the *)
(* queue's semaphore until its handler has ended.  The worker sorts events  *)
(* into one FIFO lane per key and runs at most Concurrency handlers, never  *)
(* two for one key.  What a handler does is in WritePath; here a handler    *)
(* only starts and ends.                                                    *)
(*                                                                         *)
(* An event is [key, n]: the n-th event sent for that key.  The number is   *)
(* not in the code; it lets the properties speak of order and of loss.      *)
(***************************************************************************)
EXTENDS Naturals, Sequences, FiniteSets

CONSTANTS
    Keys,         \* (KbSlug, ObjectPath) pairs
    Producers,    \* tasks that use the waiting send
    Capacity,     \* pending-event limit of the queue
    Concurrency,  \* index_concurrency, a NonZeroUsize
    MaxSends      \* bound on the events sent per key

ASSUME CapacityAssumption == Capacity \in Nat \ {0}
ASSUME ConcurrencyAssumption == Concurrency \in Nat \ {0}
ASSUME MaxSendsAssumption == MaxSends \in Nat
ASSUME ProducersAssumption == IsFiniteSet(Producers)

VARIABLES
    inFlight,      \* events whose permit is out (QueuedEvent._permit)
    producer,      \* producer -> state of its send call
    waiters,       \* producers queued on the semaphore, first come first
    chan,          \* the unbounded channel
    rxOpen,        \* the receiver has not been dropped
    sendersGone,   \* every IndexQueueSender has been dropped
    waiting,       \* Lanes.waiting: key -> lane, for keys with a lane
    active,        \* Lanes.active
    ready,         \* Lanes.ready
    running,       \* FuturesUnordered: the events being handled
    receiverOpen,  \* run_loop's receiver_open
    shutdown,      \* the worker's cancellation token
    phase,         \* where the worker task is
    exit,          \* how it ended
    sent,          \* key -> number of events accepted by the channel
    started,       \* key -> number of the last event a handler started
    handled,       \* key -> number of the last event handled to its end
    sentAtShutdown \* sent, when the token was cancelled

queueVars == <<inFlight, producer, waiters, chan, rxOpen, sendersGone>>
laneVars == <<waiting, active, ready, running>>
workerVars == <<receiverOpen, shutdown, phase, exit>>
history == <<sent, started, handled, sentAtShutdown>>
vars == <<queueVars, laneVars, workerVars, history>>

Events == [key : Keys, n : Nat]
NoLanes == [k \in {} |-> <<>>]
Elements(s) == {s[i] : i \in DOMAIN s}
Without(s, i) == SubSeq(s, 1, i - 1) \o SubSeq(s, i + 1, Len(s))

Init ==
    /\ inFlight = {}
    /\ producer = [p \in Producers |-> [state |-> "idle"]]
    /\ waiters = <<>>
    /\ chan = <<>>
    /\ rxOpen = TRUE
    /\ sendersGone = FALSE
    /\ waiting = NoLanes
    /\ active = {}
    /\ ready = <<>>
    /\ running = {}
    /\ receiverOpen = TRUE
    /\ shutdown = FALSE
    /\ phase = "run"
    /\ exit = "none"
    /\ sent = [k \in Keys |-> 0]
    /\ started = [k \in Keys |-> 0]
    /\ handled = [k \in Keys |-> 0]
    /\ sentAtShutdown = [k \in Keys |-> 0]

-----------------------------------------------------------------------------
(* The queue.  Released permits go to the waiters, in order, before a       *)
(* try_send can take one (tokio's semaphore is fair).                       *)

Granted == {p \in Producers : producer[p].state = "granted"}
PermitsOut == Cardinality(inFlight) + Cardinality(Granted)

\* Sends of key k accepted or still waiting: what MaxSends bounds.
Offered(k) ==
    sent[k] + Cardinality({p \in Producers : producer[p].state # "idle" /\ producer[p].key = k})

\* tx.send of an event for key k, with its permit.
Push(k) ==
    LET e == [key |-> k, n |-> sent[k] + 1] IN
    /\ chan' = Append(chan, e)
    /\ inFlight' = inFlight \cup {e}
    /\ sent' = [sent EXCEPT ![k] = @ + 1]

\* try_send that is accepted.  Full and Closed leave the queue as it was.
TrySend(k) ==
    /\ ~sendersGone
    /\ Offered(k) < MaxSends
    /\ PermitsOut < Capacity
    /\ waiters = <<>>
    /\ rxOpen
    /\ Push(k)
    /\ UNCHANGED <<producer, waiters, rxOpen, sendersGone, laneVars, workerVars,
                   started, handled, sentAtShutdown>>

\* send, up to acquire_owned().await.
SendBegin(p, k) ==
    /\ ~sendersGone
    /\ Offered(k) < MaxSends
    /\ producer[p].state = "idle"
    /\ producer' = [producer EXCEPT ![p] = [state |-> "waiting", key |-> k]]
    /\ waiters' = Append(waiters, p)
    /\ UNCHANGED <<inFlight, chan, rxOpen, sendersGone, laneVars, workerVars, history>>

\* The semaphore hands a free permit to the first waiter.
Grant ==
    /\ waiters # <<>>
    /\ PermitsOut < Capacity
    /\ producer' = [producer EXCEPT ![Head(waiters)] = [state |-> "granted", key |-> @.key]]
    /\ waiters' = Tail(waiters)
    /\ UNCHANGED <<inFlight, chan, rxOpen, sendersGone, laneVars, workerVars, history>>

\* send, from the permit on: tx.send fails when the receiver is gone, and the
\* permit is dropped with the event.
SendFinish(p) ==
    /\ producer[p].state = "granted"
    /\ producer' = [producer EXCEPT ![p] = [state |-> "idle"]]
    /\ \/ /\ rxOpen
          /\ Push(producer[p].key)
       \/ /\ ~rxOpen
          /\ UNCHANGED <<chan, inFlight, sent>>
    /\ UNCHANGED <<waiters, rxOpen, sendersGone, laneVars, workerVars, started, handled,
                   sentAtShutdown>>

\* The send future is dropped while it waits (a cancelled pass).
SendCancel(p) ==
    /\ producer[p].state \in {"waiting", "granted"}
    /\ producer' = [producer EXCEPT ![p] = [state |-> "idle"]]
    /\ IF producer[p].state = "waiting"
       THEN \E i \in DOMAIN waiters :
              /\ waiters[i] = p
              /\ waiters' = Without(waiters, i)
       ELSE UNCHANGED waiters
    /\ UNCHANGED <<inFlight, chan, rxOpen, sendersGone, laneVars, workerVars, history>>

DropSenders ==
    /\ ~sendersGone
    /\ \A p \in Producers : producer[p].state = "idle"
    /\ sendersGone' = TRUE
    /\ UNCHANGED <<inFlight, producer, waiters, chan, rxOpen, laneVars, workerVars, history>>

-----------------------------------------------------------------------------
(* Lanes.                                                                  *)

LaneOf(k) == IF k \in DOMAIN waiting THEN waiting[k] ELSE <<>>

WithLane(k, lane) ==
    [j \in (DOMAIN waiting) \cup {k} |-> IF j = k THEN lane ELSE waiting[j]]

WithoutLane(k) == [j \in (DOMAIN waiting) \ {k} |-> waiting[j]]

\* Mutant: the newest event of a key is handled first.
AcceptAtFront(e) ==
    LET lane == <<e>> \o LaneOf(e.key) IN
    /\ waiting' = WithLane(e.key, lane)
    /\ ready' = IF Len(lane) = 1 /\ e.key \notin active THEN Append(ready, e.key) ELSE ready
    /\ UNCHANGED <<active, running>>

\* Lanes::accept.
Accept(e) ==
    LET lane == Append(LaneOf(e.key), e) IN
    /\ waiting' = WithLane(e.key, lane)
    /\ ready' = IF Len(lane) = 1 /\ e.key \notin active THEN Append(ready, e.key) ELSE ready
    /\ UNCHANGED <<active, running>>

\* start_ready has another handler to start.  It runs before the loop looks at
\* anything else, so every other step of the worker waits for it.
CanStart == Cardinality(running) < Concurrency /\ ready # <<>>

\* One turn of start_ready: Lanes::start_next and running.push.
StartNext ==
    /\ phase \in {"run", "drain"}
    /\ CanStart
    /\ LET key == Head(ready)
           lane == waiting[key]
           e == Head(lane)
       IN /\ ready' = Tail(ready)
          /\ waiting' = IF Tail(lane) = <<>> THEN WithoutLane(key)
                                             ELSE WithLane(key, Tail(lane))
          /\ active' = active \cup {key}
          /\ running' = running \cup {e}
          /\ started' = [started EXCEPT ![key] = e.n]
    /\ UNCHANGED <<queueVars, workerVars, sent, handled, sentAtShutdown>>

\* Mutant: a handler that ends does not make its key ready again.
FinishForgetsLane(e) ==
    /\ phase \in {"run", "drain"}
    /\ ~CanStart
    /\ e \in running
    /\ running' = running \ {e}
    /\ inFlight' = inFlight \ {e}
    /\ active' = active \ {e.key}
    /\ handled' = [handled EXCEPT ![e.key] = e.n]
    /\ UNCHANGED <<producer, waiters, chan, rxOpen, sendersGone, waiting, ready, workerVars,
                   sent, started, sentAtShutdown>>

\* A handler ends, its permit is released, and Lanes::finish runs.
Finish(e) ==
    /\ phase \in {"run", "drain"}
    /\ ~CanStart
    /\ e \in running
    /\ running' = running \ {e}
    /\ inFlight' = inFlight \ {e}
    /\ active' = active \ {e.key}
    /\ ready' = IF e.key \in DOMAIN waiting THEN Append(ready, e.key) ELSE ready
    /\ handled' = [handled EXCEPT ![e.key] = e.n]
    /\ UNCHANGED <<producer, waiters, chan, rxOpen, sendersGone, waiting, workerVars,
                   sent, started, sentAtShutdown>>

-----------------------------------------------------------------------------
(* The worker task.                                                        *)

\* rx.recv yields an event.
Recv ==
    /\ phase = "run"
    /\ ~CanStart
    /\ receiverOpen
    /\ chan # <<>>
    /\ Accept(Head(chan))
    /\ chan' = Tail(chan)
    /\ UNCHANGED <<inFlight, producer, waiters, rxOpen, sendersGone, workerVars, history>>

\* rx.recv yields None.
RecvClosed ==
    /\ phase = "run"
    /\ ~CanStart
    /\ receiverOpen
    /\ chan = <<>>
    /\ sendersGone
    /\ receiverOpen' = FALSE
    /\ UNCHANGED <<queueVars, laneVars, shutdown, phase, exit, history>>

\* The server cancels the worker's token.
Shutdown ==
    /\ ~shutdown
    /\ shutdown' = TRUE
    /\ sentAtShutdown' = sent
    /\ UNCHANGED <<queueVars, laneVars, receiverOpen, phase, exit, sent, started, handled>>

\* The loop sees the token.
SeeShutdown ==
    /\ phase = "run"
    /\ ~CanStart
    /\ shutdown
    /\ phase' = "collect"
    /\ UNCHANGED <<queueVars, laneVars, receiverOpen, shutdown, exit, history>>

\* Mutant: the drain begins with whatever the lanes hold.
CollectNothing ==
    /\ phase = "collect"
    /\ phase' = "drain"
    /\ UNCHANGED <<queueVars, laneVars, receiverOpen, shutdown, exit, history>>

\* while let Ok(queued) = rx.try_recv(): no handler starts in between.
Collect ==
    /\ phase = "collect"
    /\ \/ /\ chan # <<>>
          /\ Accept(Head(chan))
          /\ chan' = Tail(chan)
          /\ UNCHANGED phase
       \/ /\ chan = <<>>
          /\ phase' = "drain"
          /\ UNCHANGED <<chan, laneVars>>
    /\ UNCHANGED <<inFlight, producer, waiters, rxOpen, sendersGone, receiverOpen,
                   shutdown, exit, history>>

\* The task ends: lanes, handlers and receiver are dropped, and with them every
\* event they hold and its permit.
Stop(how) ==
    /\ phase' = "stopped"
    /\ exit' = how
    /\ rxOpen' = FALSE
    /\ chan' = <<>>
    /\ inFlight' = {}
    /\ waiting' = NoLanes
    /\ active' = {}
    /\ ready' = <<>>
    /\ running' = {}
    /\ UNCHANGED <<producer, waiters, sendersGone, receiverOpen, shutdown, history>>

\* The loop breaks with nothing left to do, or drain returns.
StopClean ==
    /\ \/ phase = "run" /\ ~receiverOpen
       \/ phase = "drain"
    /\ DOMAIN waiting = {}
    /\ running = {}
    /\ Stop("clean")

\* DRAIN_TIMEOUT elapses.
DrainTimeout ==
    /\ phase = "drain"
    /\ ~CanStart
    /\ running # {}
    /\ Stop("timeout")

\* A panic outside a pipeline unwinds the task while it polls a handler.
Panic ==
    /\ phase \in {"run", "drain"}
    /\ ~CanStart
    /\ running # {}
    /\ Stop("panic")

Next ==
    \/ \E k \in Keys : TrySend(k)
    \/ \E p \in Producers, k \in Keys : SendBegin(p, k)
    \/ Grant
    \/ \E p \in Producers : SendFinish(p)
    \/ \E p \in Producers : SendCancel(p)
    \/ DropSenders
    \/ StartNext
    \/ \E e \in running : Finish(e)
    \/ Recv
    \/ RecvClosed
    \/ Shutdown
    \/ SeeShutdown
    \/ Collect
    \/ StopClean
    \/ DrainTimeout
    \/ Panic

Spec == Init /\ [][Next]_vars

\* What the runtime guarantees: the worker task is polled while it has something
\* to do, a handler ends (every backend call is bounded by a timeout), the
\* semaphore serves its queue and a granted producer is polled.  Nothing forces
\* a send, a cancellation, a shutdown, a panic or a timeout.
Fairness ==
    /\ WF_vars(StartNext)
    /\ WF_vars(\E e \in running : Finish(e))
    /\ WF_vars(Recv)
    /\ WF_vars(SeeShutdown)
    /\ WF_vars(Collect)
    /\ WF_vars(StopClean)
    /\ WF_vars(Grant)
    /\ \A p \in Producers : WF_vars(SendFinish(p))

FairSpec == Spec /\ Fairness

-----------------------------------------------------------------------------
(* Properties.                                                             *)

TypeOK ==
    /\ inFlight \in SUBSET Events
    /\ producer \in [Producers -> {[state |-> "idle"]}
                                  \cup [state : {"waiting", "granted"}, key : Keys]]
    /\ waiters \in Seq(Producers)
    /\ chan \in Seq(Events)
    /\ rxOpen \in BOOLEAN
    /\ sendersGone \in BOOLEAN
    /\ DOMAIN waiting \subseteq Keys
    /\ waiting \in [DOMAIN waiting -> Seq(Events)]
    /\ active \in SUBSET Keys
    /\ ready \in Seq(Keys)
    /\ running \in SUBSET Events
    /\ receiverOpen \in BOOLEAN
    /\ shutdown \in BOOLEAN
    /\ phase \in {"run", "collect", "drain", "stopped"}
    /\ exit \in {"none", "clean", "timeout", "panic"}
    /\ sent \in [Keys -> Nat]
    /\ started \in [Keys -> Nat]
    /\ handled \in [Keys -> Nat]
    /\ sentAtShutdown \in [Keys -> Nat]

\* worker.rs 461: "A key is in `ready` exactly when its lane holds events and no
\* handler for it is running" - once each, so start_next's two expects never
\* fire and no lane is forgotten with events in it.
ReadyExactly ==
    /\ \A k \in DOMAIN waiting : waiting[k] # <<>>
    /\ Elements(ready) = (DOMAIN waiting) \ active
    /\ \A i, j \in DOMAIN ready : ready[i] = ready[j] => i = j

\* worker.rs 455: "Events for one key run one at a time": whatever finishes,
\* arrives or restarts, two handlers never share a key, and active is the set of
\* keys being handled.
OneHandlerPerKey ==
    /\ \A d, e \in running : d.key = e.key => d = e
    /\ active = {e.key : e \in running}

\* index_concurrency bounds the handlers that run at once.
ConcurrencyBound == Cardinality(running) <= Concurrency

Laned == UNION {Elements(waiting[k]) : k \in DOMAIN waiting}

\* queue.rs: a permit is out exactly for the events in the channel, in a lane or
\* in a handler, so depth() is what is pending and the permits bound the lanes.
PermitPerEvent == inFlight = Elements(chan) \cup Laned \cup running

\* queue.rs: the pending-event limit holds over channel, lanes and handlers
\* together, counting the permits granted to senders not polled yet.
PendingBound == PermitsOut <= Capacity

\* The event is still somewhere in the worker's hands and not started.
Queued(k, n) ==
    \/ \E i \in DOMAIN chan : chan[i] = [key |-> k, n |-> n]
    \/ k \in DOMAIN waiting /\ \E i \in DOMAIN waiting[k] : waiting[k][i].n = n

\* Until the worker ends, every event the channel accepted has been started or
\* is queued: none is lost between channel, lane and ready list.
NothingLost ==
    phase # "stopped" =>
        \A k \in Keys : \A n \in (started[k] + 1) .. sent[k] : Queued(k, n)

\* Handlers of one key start in the order its events were sent, skipping none,
\* and only after the one before has ended.
StartsInOrder ==
    [][\A k \in Keys : started'[k] # started[k] =>
          /\ started'[k] = started[k] + 1
          /\ handled[k] = started[k]]_vars

\* run_loop, drain: a worker that ended without a timeout or a panic handled
\* every event accepted before its token was cancelled.
CleanExitHandledAll ==
    exit = "clean" /\ shutdown => \A k \in Keys : handled[k] >= sentAtShutdown[k]

\* Every accepted event is handled, or the worker ends.
AcceptedIsHandled ==
    \A k \in Keys : \A n \in 1 .. MaxSends :
        (sent[k] >= n) ~> (handled[k] >= n \/ phase = "stopped")

\* A producer blocked in send gets an answer, also when the worker ends first.
SendReturns ==
    \A p \in Producers : (producer[p].state = "waiting") ~> (producer[p].state = "idle")

\* A cancelled worker ends.
ShutdownEnds == shutdown ~> (phase = "stopped")

-----------------------------------------------------------------------------
(* What the queue and the worker promise together.                         *)

\* The numbers accepted for a key and not yet started: what its lane and its
\* events in the channel hold (NothingLost), oldest first.
Mailbox(k) ==
    IF phase = "stopped" THEN <<>> ELSE [i \in 1 .. sent[k] - started[k] |-> started[k] + i]

Serving(k) == IF \E e \in running : e.key = k
              THEN (CHOOSE e \in running : e.key = k).n
              ELSE 0

Abstract == INSTANCE KeyedWork WITH
    mailbox <- [k \in Keys |-> Mailbox(k)],
    serving <- [k \in Keys |-> Serving(k)],
    taken <- sent,
    open <- phase # "stopped"

\* queue.rs and worker.rs together implement one mailbox per key, served in
\* order and one item at a time.
ImplementsKeyedWork == Abstract!Spec
=============================================================================
