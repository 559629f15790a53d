---------------------------- MODULE ServerLife ----------------------------
(***************************************************************************)
(* The server process: its tasks from startup to shutdown, and the bounds on*)
(* each request it serves.                                                 *)
(***************************************************************************)
EXTENDS Naturals, Sequences, FiniteSets

(***************************************************************************)
(* The life of one server process: the startup sequence, which fails at    *)
(* the first step that fails, the tasks it starts, the connections it       *)
(* accepts, the reconciliation passes of the s3 backend, and the staged     *)
(* shutdown that ends them in order (run.rs, run/serve.rs,                  *)
(* run/reconcile.rs, run/metrics.rs).                                       *)
(*                                                                         *)
(* `stage` is where run() and serve() stand.  `tasks` are the spawned tasks *)
(* that still run, `senders` of the indexing queue among them.  The indexer *)
(* itself is IndexScheduler; here it only takes events in and drains.      *)
(***************************************************************************)
CONSTANTS KbList,         \* the declared knowledge bases, in slug order
    Conns,          \* connections a client may open
    Configs,        \* the configurations a run starts from
    MaxQueue,       \* bound: events in the queue
    MaxFaults       \* bound: startup steps, passes and drains that fail

VARIABLES
    cfg,            \* [storage, watch, reconcile, metrics, events]
    stage, result,
    tasks,          \* spawned tasks still running
    stopping,       \* shutdown_token is cancelled
    drain,          \* the indexer's: none, asked, clean or abandoned
    conns,          \* each connection: what it is on
    passes,         \* Reconciler: [slot, stopped, todo, at]; at: the startup task's base
    stale, compared,\* IndexHealth, and the bases a pass has compared since boot
    queue,          \* events accepted and not taken in by the worker
    faults

vars == <<cfg, stage, result, tasks, stopping, drain, conns, passes, stale, compared,
          queue, faults>>

Startup == <<"staging", "root", "events", "backends", "recorder", "conditional",
             "provision", "authenticator", "worker", "changes", "metrics", "listener">>
Shutdown == <<"connections", "join_metrics", "join_readiness", "join_sampler",
              "stop_watch", "stop_passes", "join_worker", "exited">>
After(order, s) == order[1 + CHOOSE i \in DOMAIN order : order[i] = s]

Free == "free"
Receiving == {"worker", "worker_drain"} \cap tasks # {}
Kbs == {KbList[i] : i \in DOMAIN KbList}

Init ==
    /\ cfg \in Configs
    /\ stage = "staging" /\ result = "none"
    /\ tasks = {}
    /\ stopping = FALSE /\ drain = "none"
    /\ conns = [c \in Conns |-> "none"]
    /\ passes = [slot |-> [kb \in Kbs |-> Free], stopped |-> FALSE,
                  todo |-> <<>>, at |-> Free]
    /\ stale = [kb \in Kbs |-> FALSE] /\ compared = [kb \in Kbs |-> FALSE]
    /\ queue = 0 /\ faults = 0

(***************************************************************************)
(* Startup.  A step that does not apply to the configuration cannot fail.  *)
(***************************************************************************)
RootIsClaimed == cfg.storage = "fs"
BrokerIsReached == cfg.events = "nats"
RecorderIsInstalled == cfg.metrics
MetricsAreServed == cfg.metrics
IssuerIsReached == cfg.oidc
TreeIsWatched == cfg.storage = "fs" /\ cfg.watch

Needed(s) ==
    CASE s = "root" -> RootIsClaimed
      [] s = "events" -> BrokerIsReached
      [] s = "recorder" -> RecorderIsInstalled
      [] s = "metrics" -> MetricsAreServed
      [] s = "conditional" -> cfg.storage = "s3"
      [] s = "authenticator" -> IssuerIsReached
      [] s = "worker" -> FALSE
      [] s = "changes" -> TreeIsWatched
      [] OTHER -> TRUE

Spawned(s) ==
    CASE s = "worker" -> {"worker"}
      [] s = "changes" -> {"readiness", "sampler"}
                            \cup (IF TreeIsWatched THEN {"watch"} ELSE {})
                            \cup (IF cfg.storage = "s3" /\ cfg.reconcile THEN {"startup_pass"} ELSE {})
      [] s = "metrics" -> IF MetricsAreServed THEN {"metrics"} ELSE {}
      [] s = "listener" -> {"signal"}
      [] OTHER -> {}

\* The startup pass marks every knowledge base before it compares the first.
StartsPass(s) == s = "changes" /\ cfg.storage = "s3" /\ cfg.reconcile

StartStep ==
    /\ stage \in {Startup[i] : i \in DOMAIN Startup}
    /\ tasks' = tasks \cup Spawned(stage)
    /\ stage' = IF stage = "listener" THEN "serving" ELSE After(Startup, stage)
    /\ passes' = IF StartsPass(stage) THEN [passes EXCEPT !.todo = KbList] ELSE passes
    /\ stale' = [kb \in Kbs |-> stale[kb] \/ StartsPass(stage)]
    /\ UNCHANGED <<cfg, result, stopping, drain, conns, compared, queue, faults>>

\* Before the background tasks of serve() run there is nothing to stop: the
\* error is returned at once.  A listener that cannot be bound goes through
\* the whole shutdown.
StartFailsUncancelled ==
    /\ faults < MaxFaults
    /\ stage \in {Startup[i] : i \in DOMAIN Startup}
    /\ Needed(stage)
    /\ result' = "error" /\ faults' = faults + 1
    /\ stage' = IF stage \in {"metrics", "listener"} THEN "join_metrics" ELSE "exited"
    /\ UNCHANGED <<cfg, tasks, stopping, drain, conns, passes, stale, compared, queue>>

StartFails ==
    /\ faults < MaxFaults
    /\ stage \in {Startup[i] : i \in DOMAIN Startup}
    /\ Needed(stage)
    /\ result' = "error" /\ faults' = faults + 1
    /\ stage' = IF stage \in {"metrics", "listener"} THEN "join_metrics" ELSE "exited"
    /\ stopping' = (stage \in {"metrics", "listener"})
    /\ UNCHANGED <<cfg, tasks, drain, conns, passes, stale, compared, queue>>

(***************************************************************************)
(* Connections: the accept loop of run/serve.rs.  A connection is idle, on *)
(* a request, or on an event stream, which ends when its client leaves.    *)
(***************************************************************************)
Accept(c) ==
    /\ stage = "serving"
    /\ conns[c] = "none"
    /\ conns' = [conns EXCEPT ![c] = "idle"]
    /\ UNCHANGED <<cfg, stage, result, tasks, stopping, drain, passes, stale, compared, queue, faults>>

RequestHead(c) ==
    /\ conns[c] = "idle"
    /\ \E kind \in {"request"} \cup (IF cfg.events = "none" THEN {} ELSE {"stream"}) :
          conns' = [conns EXCEPT ![c] = kind]
    /\ UNCHANGED <<cfg, stage, result, tasks, stopping, drain, passes, stale, compared, queue, faults>>

\* A write enqueues its event, or is refused 503 when the queue is full; the
\* connection then closes if the server is stopping (graceful_shutdown).
WriteRequest(c) ==
    /\ conns[c] = "request"
    /\ queue' = IF queue < MaxQueue /\ Receiving THEN queue + 1 ELSE queue
    /\ conns' = [conns EXCEPT ![c] = IF stopping THEN "none" ELSE "idle"]
    /\ UNCHANGED <<cfg, stage, result, tasks, stopping, drain, passes, stale, compared, faults>>

\* POST .../index/reconcile: refused when the base's pass is running or the
\* tracker is closed; otherwise the pass holds the slot from here.
Trigger(c, kb) ==
    /\ conns[c] = "request" /\ cfg.storage = "s3"
    /\ passes' = IF passes.slot[kb] # Free \/ passes.stopped THEN passes
                 ELSE [passes EXCEPT !.slot = [passes.slot EXCEPT ![kb] = "begun"]]
    /\ conns' = [conns EXCEPT ![c] = IF stopping THEN "none" ELSE "idle"]
    /\ UNCHANGED <<cfg, stage, result, tasks, stopping, drain, stale, compared, queue, faults>>

\* An idle connection is closed by the header-read timeout or the shutdown.
CloseIdle(c) ==
    /\ conns[c] = "idle"
    /\ conns' = [conns EXCEPT ![c] = "none"]
    /\ UNCHANGED <<cfg, stage, result, tasks, stopping, drain, passes, stale, compared, queue, faults>>

ClientLeaves(c) ==
    /\ conns[c] = "stream"
    /\ conns' = [conns EXCEPT ![c] = "none"]
    /\ UNCHANGED <<cfg, stage, result, tasks, stopping, drain, passes, stale, compared, queue, faults>>

(***************************************************************************)
(* Reconciliation passes (run/reconcile.rs).  A slot is free, "begun" (its *)
(* task is spawned and not polled yet) or "sending" (index and bucket are  *)
(* read and differences go to the queue).  The startup task takes one base *)
(* after another and leaves a base to a requested pass that holds it.      *)
(***************************************************************************)
Slot(kb, s) == [passes EXCEPT !.slot = [passes.slot EXCEPT ![kb] = s],
                              !.at = IF s = Free /\ passes.at = kb THEN Free ELSE passes.at]

StartupTakes ==
    /\ "startup_pass" \in tasks /\ passes.at = Free /\ passes.todo # <<>>
    /\ LET kb == Head(passes.todo) IN
          passes' = IF passes.slot[kb] # Free THEN [passes EXCEPT !.todo = Tail(passes.todo)]
                    ELSE [Slot(kb, "begun") EXCEPT !.todo = Tail(passes.todo), !.at = kb]
    /\ UNCHANGED <<cfg, stage, result, tasks, stopping, drain, conns, stale, compared, queue, faults>>

StartupEnds ==
    /\ "startup_pass" \in tasks /\ passes.at = Free /\ passes.todo = <<>>
    /\ tasks' = tasks \ {"startup_pass"}
    /\ UNCHANGED <<cfg, stage, result, stopping, drain, conns, passes, stale, compared, queue, faults>>

\* The select is biased: a pass that was never polled ends without a send.
PassReads(kb) ==
    /\ passes.slot[kb] = "begun" /\ ~passes.stopped
    /\ passes' = Slot(kb, "sending")
    /\ UNCHANGED <<cfg, stage, result, tasks, stopping, drain, conns, stale, compared, queue, faults>>

\* The index or the bucket could not be read: nothing sent, nothing recorded.
PassSkippedIsRecorded(kb) ==
    /\ passes.slot[kb] = "begun" /\ faults < MaxFaults
    /\ passes' = Slot(kb, Free)
    /\ stale' = [stale EXCEPT ![kb] = FALSE]
    /\ faults' = faults + 1
    /\ UNCHANGED <<cfg, stage, result, tasks, stopping, drain, conns, compared, queue>>

PassSkipped(kb) ==
    /\ passes.slot[kb] = "begun" /\ faults < MaxFaults
    /\ passes' = Slot(kb, Free)
    /\ faults' = faults + 1
    /\ UNCHANGED <<cfg, stage, result, tasks, stopping, drain, conns, stale, compared, queue>>

\* IndexSink::send waits for room; without a receiver the pass ends.
PassSends(kb) ==
    /\ passes.slot[kb] = "sending"
    /\ queue < MaxQueue \/ ~Receiving
    /\ queue' = IF Receiving THEN queue + 1 ELSE queue
    /\ passes' = IF Receiving THEN passes ELSE Slot(kb, Free)
    /\ UNCHANGED <<cfg, stage, result, tasks, stopping, drain, conns, stale, compared, faults>>

PassCompletes(kb) ==
    /\ passes.slot[kb] = "sending"
    /\ passes' = Slot(kb, Free)
    /\ stale' = [stale EXCEPT ![kb] = FALSE]
    /\ compared' = [compared EXCEPT ![kb] = TRUE]
    /\ UNCHANGED <<cfg, stage, result, tasks, stopping, drain, conns, queue, faults>>

\* The startup task breaks out of its loop; a requested pass just ends.
PassCancelled(kb) ==
    /\ passes.stopped /\ passes.slot[kb] # Free
    /\ passes' = [Slot(kb, Free) EXCEPT !.todo = IF passes.at = kb THEN <<>> ELSE passes.todo]
    /\ UNCHANGED <<cfg, stage, result, tasks, stopping, drain, conns, stale, compared, queue, faults>>

(***************************************************************************)
(* The other background tasks.                                             *)
(***************************************************************************)
\* The fs bridge enqueues what the watcher reports (TreeWatch has the rest).
WatchSends ==
    /\ "watch" \in tasks /\ queue < MaxQueue /\ Receiving
    /\ queue' = queue + 1
    /\ UNCHANGED <<cfg, stage, result, tasks, stopping, drain, conns, passes, stale, compared, faults>>

\* The readiness loops, the queue sampler and the metrics listener.
TaskSeesToken(t) ==
    /\ t \in tasks \cap {"readiness", "sampler", "metrics"} /\ stopping
    /\ tasks' = tasks \ {t}
    /\ UNCHANGED <<cfg, stage, result, stopping, drain, conns, passes, stale, compared, queue, faults>>

WorkerTakes ==
    /\ "worker" \in tasks /\ queue > 0
    /\ queue' = queue - 1
    /\ UNCHANGED <<cfg, stage, result, tasks, stopping, drain, conns, passes, stale, compared, faults>>

\* The worker's own view of its cancellation: it takes in what is queued at
\* that moment, runs it and returns; what is sent later is never received.
WorkerCollects ==
    /\ "worker" \in tasks /\ drain = "asked"
    /\ queue' = 0
    /\ tasks' = (tasks \ {"worker"}) \cup {"worker_drain"}
    /\ UNCHANGED <<cfg, stage, result, stopping, drain, conns, passes, stale, compared, faults>>

\* Drained, or the senders are gone (a startup that failed).
WorkerReturns ==
    /\ "worker_drain" \in tasks \/ ("worker" \in tasks /\ stage = "exited" /\ drain = "none")
    /\ tasks' = tasks \ {"worker", "worker_drain"}
    /\ UNCHANGED <<cfg, stage, result, stopping, drain, conns, passes, stale, compared, queue, faults>>

\* A panic outside a file's own guard; its join reports it and goes on.
WorkerPanics ==
    /\ "worker" \in tasks /\ faults < MaxFaults
    /\ tasks' = tasks \ {"worker"} /\ faults' = faults + 1
    /\ UNCHANGED <<cfg, stage, result, stopping, drain, conns, passes, stale, compared, queue>>

(***************************************************************************)
(* Shutdown: the token, the listener, then every task before the indexer.  *)
(***************************************************************************)
Signal ==
    /\ stage = "serving" /\ "signal" \in tasks
    /\ stopping' = TRUE
    /\ tasks' = tasks \ {"signal"}
    /\ UNCHANGED <<cfg, stage, result, drain, conns, passes, stale, compared, queue, faults>>

StopAccepting ==
    /\ stage = "serving" /\ stopping
    /\ stage' = "connections"
    /\ UNCHANGED <<cfg, result, tasks, stopping, drain, conns, passes, stale, compared, queue, faults>>

ConnectionsDrained ==
    /\ stage = "connections" /\ \A c \in Conns : conns[c] = "none"
    /\ stage' = "join_metrics" /\ result' = "ok"
    /\ UNCHANGED <<cfg, tasks, stopping, drain, conns, passes, stale, compared, queue, faults>>

Joined(s) == CASE s = "join_metrics" -> "metrics"
               [] s = "join_readiness" -> "readiness"
               [] s = "join_sampler" -> "sampler"

JoinTask ==
    /\ stage \in {"join_metrics", "join_readiness", "join_sampler"}
    /\ Joined(stage) \notin tasks
    /\ stage' = After(Shutdown, stage)
    /\ UNCHANGED <<cfg, result, tasks, stopping, drain, conns, passes, stale, compared, queue, faults>>

\* FsWatch::stop: the watcher is told, and its bridge runs out.
StopWatchDetached ==
    /\ stage = "stop_watch"
    /\ stage' = "stop_passes"
    /\ UNCHANGED <<cfg, result, tasks, stopping, drain, conns, passes, stale, compared, queue, faults>>

StopWatch ==
    /\ stage = "stop_watch"
    /\ tasks' = tasks \ {"watch"}
    /\ stage' = "stop_passes"
    /\ UNCHANGED <<cfg, result, stopping, drain, conns, passes, stale, compared, queue, faults>>

\* Reconciler::stop cancels and closes, then waits for every tracked task.
StopPasses ==
    /\ stage = "stop_passes" /\ ~passes.stopped
    /\ passes' = [passes EXCEPT !.stopped = TRUE]
    /\ UNCHANGED <<cfg, stage, result, tasks, stopping, drain, conns, stale, compared, queue, faults>>

PassesStopped ==
    /\ stage = "stop_passes" /\ passes.stopped
    /\ "startup_pass" \notin tasks /\ \A kb \in Kbs : passes.slot[kb] = Free
    /\ stage' = "join_worker" /\ drain' = "asked"
    /\ UNCHANGED <<cfg, result, tasks, stopping, conns, passes, stale, compared, queue, faults>>

\* drain_indexer: joined, or abandoned after INDEXER_JOIN_TIMEOUT.
JoinWorker ==
    /\ stage = "join_worker" /\ {"worker", "worker_drain"} \cap tasks = {}
    /\ stage' = "exited" /\ drain' = "clean"
    /\ UNCHANGED <<cfg, result, tasks, stopping, conns, passes, stale, compared, queue, faults>>

AbandonWorker ==
    /\ stage = "join_worker" /\ Receiving /\ faults < MaxFaults
    /\ stage' = "exited" /\ drain' = "abandoned" /\ faults' = faults + 1
    /\ UNCHANGED <<cfg, result, tasks, stopping, conns, passes, stale, compared, queue>>

Serve == StartStep \/ StopAccepting \/ ConnectionsDrained \/ JoinTask \/ StopWatch \/ StopPasses
           \/ PassesStopped \/ JoinWorker
Handle(c) == WriteRequest(c) \/ (stopping /\ CloseIdle(c))
Pass(kb) == PassReads(kb) \/ PassCompletes(kb) \/ PassCancelled(kb)
Worker == WorkerTakes \/ WorkerCollects \/ WorkerReturns
Background == StartupTakes \/ StartupEnds \/ \E t \in tasks : TaskSeesToken(t)

Next ==
    \/ Serve \/ Worker \/ Background
    \/ \E c \in Conns : Accept(c) \/ RequestHead(c) \/ WriteRequest(c) \/ CloseIdle(c) \/ ClientLeaves(c)
                          \/ \E kb \in Kbs : Trigger(c, kb)
    \/ \E kb \in Kbs : Pass(kb) \/ PassSkipped(kb) \/ PassSends(kb)
    \/ WatchSends \/ Signal \/ StartFails \/ WorkerPanics \/ AbandonWorker

Spec == Init /\ [][Next]_vars

\* The runtime keeps polling every task, and handlers end because the request
\* bounds end them.  No fairness for clients, signals and faults.
Fairness ==
    /\ WF_vars(Serve) /\ WF_vars(Worker) /\ WF_vars(Background)
    /\ \A c \in Conns : WF_vars(Handle(c))
    /\ \A kb \in Kbs : WF_vars(Pass(kb))

FairSpec == Spec /\ Fairness

TypeOK ==
    /\ cfg \in Configs
    /\ stage \in {Startup[i] : i \in DOMAIN Startup} \cup {Shutdown[i] : i \in DOMAIN Shutdown} \cup {"serving"}
    /\ result \in {"none", "ok", "error"} /\ drain \in {"none", "asked", "clean", "abandoned"}
    /\ conns \in [Conns -> {"none", "idle", "request", "stream"}]
    /\ passes.slot \in [Kbs -> {Free, "begun", "sending"}]
    /\ queue \in 0..MaxQueue

(***************************************************************************)
(* Once the worker has taken in what was queued, nothing arrives behind    *)
(* it: every request, pass, watcher and sampler is gone before the drain   *)
(* ("draining that queue while one still runs would be chasing a live      *)
(* producer", run/reconcile.rs:128).  And a process that has left serve()  *)
(* has nothing running but a worker it abandoned, or one whose senders a   *)
(* failed startup has just dropped.                                        *)
(***************************************************************************)
ShutdownIsOrderly ==
    /\ "worker_drain" \in tasks => queue = 0
    /\ stage = "exited" => /\ tasks \subseteq {"worker", "worker_drain"}
                           /\ drain = "clean" => tasks = {}
                           /\ \A c \in Conns : conns[c] = "none"

(***************************************************************************)
(* With startup reconciliation on, a knowledge base nobody has compared    *)
(* since boot reports stale, whichever pass skipped it, failed or was      *)
(* left to another (D62, D67).                                             *)
(***************************************************************************)
StaleUntilCompared ==
    cfg.storage = "s3" /\ cfg.reconcile /\ stage \notin {Startup[i] : i \in 1..10} /\ stage # "exited"
        => \A kb \in Kbs : stale[kb] \/ compared[kb]

(***************************************************************************)
(* A signal, or a listener that could not be bound, ends the process: no   *)
(* join waits on a task nothing told to stop, and only an open event       *)
(* stream holds it up.                                                     *)
(***************************************************************************)
ShutdownEnds ==
    (stopping \/ result = "error") ~> (stage = "exited" \/ \E c \in Conns : conns[c] = "stream")

(***************************************************************************)
(* The same of a server with an event log: the grace period to configure   *)
(* is "the longest allowed in-flight request plus the 31-second indexer    *)
(* drain" (docs/CONFIGURATION.md:1043), so a signal ends it whatever its   *)
(* clients do.                                                             *)
(***************************************************************************)
ShutdownIsBounded == stopping ~> (stage = "exited")

-----------------------------------------------------------------------------
(***************************************************************************)
(* One request on the product listener, from the metrics layer through the *)
(* bounds to its handler and the metered backends (api-http bounds.rs and  *)
(* metrics.rs, server run/metered.rs).  Every layer is a future the one    *)
(* outside it may drop: when the client leaves, when the body stalls, when *)
(* the handler is late.  What each layer holds must be given back then.    *)
(***************************************************************************)
CONSTANTS Requests,
    MaxInFlight,    \* NOTEDTHAT_MAX_REQUESTS_IN_FLIGHT
    Calls(_),       \* the metered backends the handler of a request may call
    None

VARIABLES
    req,            \* each request's own state, see Absent
    permits,        \* permits left in the listener's semaphore
    gauge,          \* notedthat_http_requests_in_flight
    counted         \* notedthat_http_requests_total, by status

boundsVars == <<req, permits, gauge, counted>>

\* pc: where bound() is; body: the client's sending of it; got: what the
\* handler has read of it; verdict: the oneshot between the two; call and
\* came: the backend call the handler awaits; log: what the calls recorded.
Absent == [pc |-> "new", reads |-> FALSE, body |-> "none", got |-> None, verdict |-> None,
           call |-> None, began |-> None, log |-> <<>>, answer |-> None]

BoundsInit ==
    /\ req = [r \in Requests |-> Absent]
    /\ permits = MaxInFlight /\ gauge = 0
    /\ counted = [s \in {"200", "4xx", "408", "503", "504"} |-> 0]

Inside(r) == req[r].pc \in {"body", "timed"}

(***************************************************************************)
(* Metered calls.  The guard starts as "cancelled" and is recorded when it *)
(* is dropped, whether the call returned or its future was dropped; only a *)
(* publish is counted after its await.                                     *)
(***************************************************************************)
StorageResults == {"ok", "not_found", "not_modified", "precondition_failed", "range_not_satisfiable",
                   "bucket_not_found", "backend_unavailable", "other"}
StorageOutcome(came) ==
    CASE came \in {"ok", "not_found"} -> came
      [] came \in {"not_modified", "precondition_failed", "range_not_satisfiable"} -> "precondition"
      [] came = "backend_unavailable" -> "unavailable"
      [] OTHER -> "error"
StorageErrorKind(came) ==
    IF came \in {"bucket_not_found", "backend_unavailable", "other"} THEN came ELSE None

VectorResults == {"ok", "not_found", "backend"}
VectorOutcome(came) == IF came = "backend" THEN "unavailable" ELSE came
VectorErrorKind(came) == IF came = "backend" THEN "backend" ELSE None

EmbedResults == {"ok", "transport", "http", "malformed", "count_mismatch", "dimension_mismatch",
                 "index_out_of_range", "duplicate_index", "retries_exhausted"}
EmbedOutcome(came) == IF came = "ok" THEN "ok" ELSE "error"
EmbedErrorKind(came) == IF came = "ok" THEN None ELSE came

Results(b) == CASE b = "storage" -> StorageResults
                [] b = "vector" -> VectorResults
                [] b = "embedder" -> EmbedResults
                [] b = "publisher" -> {"ok", "refused"}

StorageCall(came) ==
    [of |-> "storage", outcome |-> StorageOutcome(came), kind |-> StorageErrorKind(came)]
VectorStoreCall(came) ==
    [of |-> "vector", outcome |-> VectorOutcome(came), kind |-> VectorErrorKind(came)]
EmbeddingCall(came) ==
    [of |-> "embedder", outcome |-> EmbedOutcome(came), kind |-> EmbedErrorKind(came)]
PublishCall(came) == [of |-> "publisher", outcome |-> came, kind |-> None]

Finished(b, came) ==
    CASE b = "storage" -> StorageCall(came)
      [] b = "vector" -> VectorStoreCall(came)
      [] b = "embedder" -> EmbeddingCall(came)
      [] b = "publisher" -> PublishCall(came)

\* What dropping the handler records of the call it awaits.
Dropped(q) == IF q.call \in {None, "publisher"} THEN <<>>
              ELSE <<[of |-> q.call, outcome |-> "cancelled", kind |-> None]>>

(***************************************************************************)
(* bound(): a permit or 503 at once; then the two spans.                   *)
(***************************************************************************)
\* What is left of a request: how its body and its calls ended.
Ended(q, status) == [q EXCEPT !.pc = "done", !.answer = status, !.got = None, !.verdict = None,
                              !.call = None, !.log = q.log \o Dropped(q)]

\* Every way out of bound() gives the permit back and leaves the gauge.
Answer(r, q, status) ==
    /\ req' = [req EXCEPT ![r] = Ended(q, status)]
    /\ permits' = permits + 1 /\ gauge' = gauge - 1
    /\ counted' = [counted EXCEPT ![status] = @ + 1]

Arrive(r, declared, reads) ==
    /\ req[r].pc = "new"
    /\ IF permits = 0
       THEN /\ req' = [req EXCEPT ![r].pc = "done", ![r].answer = "503"]
            /\ counted' = [counted EXCEPT !["503"] = @ + 1]
            /\ UNCHANGED <<permits, gauge>>
       ELSE /\ req' = [req EXCEPT ![r] = [Absent EXCEPT !.pc = IF declared THEN "body" ELSE "timed",
                                                        !.reads = reads,
                                                        !.body = IF declared THEN "sending" ELSE "none"]]
            /\ permits' = permits - 1 /\ gauge' = gauge + 1
            /\ UNCHANGED counted

\* The client finishes its body, or its body fails.
ClientSends(r) ==
    /\ Inside(r) /\ req[r].body = "sending"
    /\ \E b \in {"sent", "broken"} : req' = [req EXCEPT ![r].body = b]
    /\ UNCHANGED <<permits, gauge, counted>>

\* hyper drops the whole stack of futures.
RequestLeavesHoldingPermit(r) ==
    /\ Inside(r)
    /\ req' = [req EXCEPT ![r] = Ended(@, "left")]
    /\ gauge' = gauge - 1
    /\ UNCHANGED <<permits, counted>>

RequestLeaves(r) ==
    /\ Inside(r)
    /\ req' = [req EXCEPT ![r] = Ended(@, "left")]
    /\ permits' = permits + 1 /\ gauge' = gauge - 1
    /\ UNCHANGED counted

\* watch_body: polled by the handler's read.  A stalled body is an error to
\* the reader, never an end.
HandlerReads(r) ==
    /\ Inside(r) /\ req[r].reads /\ req[r].got = None /\ req[r].call = None /\ req[r].body # "none"
    /\ req' = [req EXCEPT ![r] =
                 CASE @.body = "sending" -> [@ EXCEPT !.body = "stalled", !.got = "error", !.verdict = "Idle"]
                   [] @.body = "sent" -> [@ EXCEPT !.got = "whole", !.verdict = "Complete"]
                   [] @.body = "broken" -> [@ EXCEPT !.got = "error", !.verdict = "Complete"]]
    /\ UNCHANGED <<permits, gauge, counted>>

\* A handler that reads no body drops it, sooner or later: the watcher goes
\* without a verdict and the server's own clock starts.
HandlerDropsBody(r) ==
    /\ Inside(r) /\ ~req[r].reads /\ req[r].body # "none" /\ req[r].verdict = None
    /\ req' = [req EXCEPT ![r].verdict = "Dropped"]
    /\ UNCHANGED <<permits, gauge, counted>>

\* A handler whose body failed answers with an error and calls nobody; one
\* that answers before it has read its body refuses.
Served(q) == IF q.reads /\ q.body # "none" /\ q.got # "whole" THEN {"4xx"} ELSE {"200", "4xx"}

HandlerCalls(r, b) ==
    /\ Inside(r) /\ req[r].call = None /\ req[r].began = None /\ req[r].got # "error"
    /\ req' = [req EXCEPT ![r].call = b, ![r].began = b]
    /\ UNCHANGED <<permits, gauge, counted>>

CallReturns(r) ==
    /\ Inside(r) /\ req[r].call # None
    /\ \E came \in Results(req[r].call) :
          req' = [req EXCEPT ![r] = [@ EXCEPT !.call = None, !.log = <<Finished(req[r].call, came)>>]]
    /\ UNCHANGED <<permits, gauge, counted>>

\* The select's other branch: it asks for the verdict again before it
\* believes the handler.
HandlerAnswersUnasked(r) ==
    /\ Inside(r) /\ req[r].call = None
    /\ \E status \in Served(req[r]) : Answer(r, req[r], status)

HandlerAnswers(r) ==
    /\ Inside(r) /\ req[r].call = None
    /\ IF req[r].pc = "body" /\ req[r].verdict = "Idle" THEN Answer(r, req[r], "408")
       ELSE \E status \in Served(req[r]) : Answer(r, req[r], status)

\* The select's first branch: the body's verdict.
SeeVerdictOfTheBody(r) ==
    /\ req[r].pc = "body" /\ req[r].verdict \in {"Complete", "Idle"}
    /\ IF req[r].verdict = "Idle" THEN Answer(r, req[r], "408")
       ELSE req' = [req EXCEPT ![r].pc = "timed"] /\ UNCHANGED <<permits, gauge, counted>>

SeeVerdict(r) ==
    /\ req[r].pc = "body" /\ req[r].verdict # None
    /\ IF req[r].verdict = "Idle" THEN Answer(r, req[r], "408")
       ELSE req' = [req EXCEPT ![r].pc = "timed"] /\ UNCHANGED <<permits, gauge, counted>>

Timeout(r) == req[r].pc = "timed" /\ Answer(r, req[r], "504")

BoundsNext == \E r \in Requests :
    \/ \E declared, reads \in BOOLEAN : Arrive(r, declared, reads)
    \/ ClientSends(r) \/ RequestLeaves(r) \/ HandlerReads(r) \/ HandlerDropsBody(r) \/ CallReturns(r)
    \/ \E b \in Calls(r) : HandlerCalls(r, b)
    \/ HandlerAnswers(r) \/ SeeVerdict(r) \/ Timeout(r)

BoundsSpec == BoundsInit /\ [][BoundsNext]_boundsVars

\* The select is polled and its clock runs; a backend may never answer.
BoundsFairness == \A r \in Requests : WF_boundsVars(SeeVerdict(r)) /\ WF_boundsVars(Timeout(r))
BoundsFairSpec == BoundsSpec /\ BoundsFairness

CountedOnce(q) ==
    /\ q.pc = "done" => Len(q.log) = IF q.began = None THEN 0 ELSE 1
    /\ \A i \in DOMAIN q.log : q.log[i].kind # None => q.log[i].outcome \in {"error", "unavailable"}

(***************************************************************************)
(* However a request ends - answered, refused, timed out, abandoned - its  *)
(* permit is back in the semaphore, the gauge has left it, and each        *)
(* storage, vector and embedding call it began is counted exactly once, in *)
(* an error series only when its outcome is a failure (D69, D71).          *)
(***************************************************************************)
EverythingIsGivenBack ==
    LET inside == Cardinality({r \in Requests : Inside(r)}) IN
    /\ permits = MaxInFlight - inside /\ gauge = inside
    /\ \A r \in Requests : req[r].began # "publisher" => CountedOnce(req[r])

(***************************************************************************)
(* What SPECIFICATIONS.md says of every metered call, publishes included.  *)
(***************************************************************************)
EveryPublishIsCounted == \A r \in Requests : CountedOnce(req[r])

(***************************************************************************)
(* A body that stalled under a handler reading it is answered 408 and      *)
(* never with the handler's own answer; a success was given on the whole   *)
(* body.  Between the read and the answer stand the select, the handler's  *)
(* error path and the client.                                              *)
(***************************************************************************)
StalledBodiesAre408 == \A r \in Requests : LET q == req[r] IN
    /\ q.body = "stalled" /\ q.pc = "done" => q.answer \in {"408", "left"}
    /\ q.answer = "200" /\ q.reads /\ q.body # "none" => q.body = "sent"

(***************************************************************************)
(* From the moment a declared body has ended, failed, stalled or been      *)
(* dropped - or at once, when none was declared - a request ends whatever  *)
(* its backends do.                                                        *)
(***************************************************************************)
RequestsAreBounded == \A r \in Requests :
    Inside(r) /\ (req[r].body = "none" \/ req[r].verdict # None) ~> req[r].pc = "done"

=============================================================================
