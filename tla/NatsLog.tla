-------------------------------- MODULE NatsLog --------------------------------
(***************************************************************************)
(* The event log on a JetStream stream: the settings it accepts             *)
(* (notedthat-nats/src/config.rs, notedthat-events/src/config.rs), how a    *)
(* starting server brings the stream in line (notedthat-nats/src/stream.rs),*)
(* and publishing and subscribing (notedthat-events/src/nats.rs) over a     *)
(* connection that loses messages and acknowledgements.                     *)
(***************************************************************************)
EXTENDS Integers, Sequences, FiniteSets

CONSTANTS
    None,           \* an unset setting, no stream, no position
    Kbs,            \* knowledge bases
    Watched,        \* the one the subscriber follows
    Settings,       \* settings a server may be started with
    Found,          \* streams an operator may have made by hand, and None
    Timeout,        \* TIMEOUT: how long an acknowledgement may take
    DefaultWindow,  \* DEFAULT_NATS_DUPLICATE_WINDOW_SECS
    MaxEvents,      \* bound on the events published
    MaxStarts,      \* bound on the starts of the server
    MaxNow          \* bound on the clock

\* Mutant: a window as long as one acknowledgement may take is enough.
MinWindowOnce == Timeout

\* MIN_NATS_DUPLICATE_WINDOW_SECS.
MinWindow == 2 * Timeout

VARIABLES
    now,     \* the broker's and the server's clock
    stream,  \* the stream's configuration, None while there is none
    log,     \* every message it ever held, by sequence: kb, event, readable, at
    dropped, \* how many of them retention has dropped, the oldest first
    server,  \* the server: state, how it started, and the event it publishes
    starts,  \* starts so far
    sent,    \* events published so far
    sub      \* the subscriber

brokerVars == <<now, stream, log, dropped>>
vars == <<brokerVars, server, starts, sent, sub>>

\* A logical publish: the event, when the present attempt was sent, whether it
\* is the retry, and whether the attempt is still on its way to the broker, or
\* its acknowledgement back (the sequence).
NoPublish == [event |-> 0, kb |-> None, readable |-> TRUE, at |-> 0, retry |-> FALSE, way |-> FALSE, ack |-> 0, result |-> "none"]
Down == [state |-> "down", why |-> "none", publish |-> NoPublish]
NoSub == [state |-> "idle", pos |-> None, since |-> 0, cursor |-> 0, got |-> {}, missed |-> {}]

\* A stream reports (0, 0) before its first message and (n + 1, n) once all
\* its messages are gone.
LastSequence == Len(log)
FirstSequence == IF log = <<>> THEN 0 ELSE dropped + 1

WithinMaxAge(window, age) == IF age = 0 \/ window < age THEN window ELSE age

\* NatsConnectConfig::from_settings: the settings of every stream.
ConnectAccepted(s) ==
    /\ s.replicas = None \/ s.replicas \in 1..5
    /\ s.window = None \/ s.window >= MinWindow

\* NatsConfig::with_connection: the event log's own.
Accepted(s) ==
    /\ ConnectAccepted(s)
    /\ s.age >= MinWindow
    /\ s.window = None \/ s.window <= s.age

OrElse(x, default) == IF x = None THEN default ELSE x

\* StreamSpec::config.
Config(s) ==
    [ours |-> TRUE, limits |-> TRUE, age |-> s.age, storage |-> OrElse(s.storage, "file"),
     replicas |-> OrElse(s.replicas, 1),
     window |-> OrElse(s.window, WithinMaxAge(DefaultWindow, s.age))]

\* Mutant: a window nobody configured is kept although the retention shrinks.
ApplyToKeepingWindow(s, found) ==
    [found EXCEPT !.age = s.age, !.replicas = OrElse(s.replicas, @), !.window = OrElse(s.window, @)]

\* StreamSpec::apply_to.
ApplyTo(s, found) ==
    [found EXCEPT !.age = s.age, !.replicas = OrElse(s.replicas, @),
                  !.window = OrElse(s.window, WithinMaxAge(@, s.age))]

\* What the broker takes: a duplicate window within the retention.
BrokerTakes(config) == config.age = 0 \/ config.window <= config.age

\* ensure_stream: what start answers, and the stream it leaves.
EnsureStream(s) ==
    LET found == IF stream = None THEN Config(s) ELSE stream
        refused(why) == [why |-> why, stream |-> stream]
    IN IF ~BrokerTakes(found) THEN refused("broker")
       ELSE IF ~found.ours THEN refused("mismatch")
       ELSE IF s.storage # None /\ found.storage # s.storage THEN refused("storage")
       ELSE IF ~found.limits THEN refused("retention")
       ELSE IF ~BrokerTakes(ApplyTo(s, found)) THEN refused("broker")
       ELSE [why |-> "started", stream |-> ApplyTo(s, found)]

Start(s) ==
    /\ server.state = "down"
    /\ starts < MaxStarts
    /\ starts' = starts + 1
    /\ LET e == EnsureStream(s)
           why == IF Accepted(s) THEN e.why ELSE "settings"
       IN /\ server' = [Down EXCEPT !.why = why, !.state = IF why = "started" THEN "up" ELSE "down"]
          /\ stream' = IF Accepted(s) THEN e.stream ELSE stream
    /\ UNCHANGED <<now, log, dropped, sent, sub>>

\* The server stops; whatever it was waiting for is forgotten.
Stop ==
    /\ server.state = "up"
    /\ server' = Down
    /\ sub' = [sub EXCEPT !.state = "idle"]
    /\ UNCHANGED <<brokerVars, starts, sent>>

\* publish, up to the first publish_once.  An event written by another build
\* may not be readable by this one.
Publish(kb, readable) ==
    /\ server.state = "up" /\ server.publish.event = 0
    /\ sent < MaxEvents
    /\ sent' = sent + 1
    /\ server' = [server EXCEPT !.publish = [NoPublish EXCEPT !.event = sent + 1, !.kb = kb,
                                               !.readable = readable, !.at = now, !.way = TRUE]]
    /\ UNCHANGED <<brokerVars, starts, sub>>

\* The broker stores a copy, unless it stored that message id within its
\* window, and acknowledges either with the sequence of the stored one.
Copies(event) == {i \in 1..Len(log) : log[i].event = event}
Remembered(event) == {i \in Copies(event) : now - log[i].at < stream.window}

Arrive ==
    LET p == server.publish
        seen == Remembered(p.event)
    IN /\ p.way
       /\ log' = IF seen # {} THEN log
                 ELSE Append(log, [kb |-> p.kb, event |-> p.event, readable |-> p.readable, at |-> now])
       /\ server' = [server EXCEPT !.publish.way = FALSE,
                                   !.publish.ack = IF seen # {} THEN CHOOSE i \in seen : TRUE ELSE LastSequence + 1]
       /\ UNCHANGED <<now, stream, dropped, starts, sent, sub>>

\* The attempt, or its acknowledgement, is lost.
Lose ==
    /\ server.publish.way \/ (server.publish.ack # 0 /\ server.publish.result = "none")
    /\ server' = [server EXCEPT !.publish.way = FALSE, !.publish.ack = 0]
    /\ UNCHANGED <<brokerVars, starts, sent, sub>>

\* publish returns the acknowledged sequence.
Acked ==
    /\ server.publish.ack # 0 /\ server.publish.result = "none"
    /\ now < server.publish.at + Timeout
    /\ server' = [server EXCEPT !.publish.result = "ok"]
    /\ UNCHANGED <<brokerVars, starts, sent, sub>>

\* The acknowledgement took too long: once more under the same message id,
\* then Unavailable.  A copy still on its way is behind no other.
TimesOut ==
    LET p == server.publish IN
    /\ p.event # 0 /\ p.result = "none" /\ now >= p.at + Timeout
    /\ server' = [server EXCEPT !.publish = IF p.retry THEN NoPublish
                    ELSE [p EXCEPT !.retry = TRUE, !.at = now, !.way = TRUE, !.ack = 0]]
    /\ UNCHANGED <<brokerVars, starts, sent, sub>>

\* Any other failure of an attempt is Unavailable at once; and the caller has its answer.
PublishEnds ==
    /\ server.publish.event # 0
    /\ server.publish.result = "ok" \/ ~server.publish.way
    /\ server' = [server EXCEPT !.publish = NoPublish]
    /\ UNCHANGED <<brokerVars, starts, sent, sub>>

\* is_gone.
IsGone(after, first, end) == (after < end /\ after + 1 < first) \/ after > end

\* subscribe reads the bounds first, and refuses a position it cannot honour:
\* the client then starts over without one.
ReadBounds ==
    /\ server.state = "up" /\ sub.state = "idle"
    /\ sub' = IF sub.pos # None /\ IsGone(sub.pos, FirstSequence, LastSequence)
              THEN NoSub
              ELSE [sub EXCEPT !.state = "checked", !.cursor = IF sub.pos = None THEN LastSequence ELSE sub.pos]
    /\ UNCHANGED <<brokerVars, server, starts, sent>>

\* Mutant: a client that had caught up is given what comes from now on.
CreateConsumerNew ==
    /\ sub.state = "checked"
    /\ sub' = [sub EXCEPT !.state = "open", !.since = IF sub.pos = None THEN LastSequence ELSE @,
                          !.cursor = LastSequence]
    /\ UNCHANGED <<brokerVars, server, starts, sent>>

\* create_consumer: one past the position, or with none from now.
CreateConsumer ==
    /\ sub.state = "checked"
    /\ sub' = [sub EXCEPT !.state = "open", !.since = IF sub.pos = None THEN LastSequence ELSE @,
                          !.cursor = IF sub.pos = None THEN LastSequence ELSE sub.pos]
    /\ UNCHANGED <<brokerVars, server, starts, sent>>

\* The consumer's next message of the knowledge base; decode skips one it
\* cannot read, which leaves the position of the client where it was.
Pending == {i \in dropped + 1..LastSequence : log[i].kb = Watched /\ i > sub.cursor}

Deliver ==
    /\ sub.state = "open"
    /\ Pending # {}
    /\ LET i == CHOOSE i \in Pending : \A j \in Pending : i <= j
       IN sub' = IF log[i].readable
                 THEN [sub EXCEPT !.cursor = i, !.pos = i, !.got = @ \union {i}]
                 ELSE [sub EXCEPT !.cursor = i]
    /\ UNCHANGED <<brokerVars, server, starts, sent>>

\* The connection fails, or the client goes: it comes back with its position.
Detach ==
    /\ sub.state \in {"checked", "open"}
    /\ sub' = [sub EXCEPT !.state = "idle"]
    /\ UNCHANGED <<brokerVars, server, starts, sent>>

\* The broker drops what is older than the retention.  What a subscriber whose
\* position was accepted is still to be given, it misses without being told.
Expire ==
    /\ dropped < LastSequence /\ stream.age # 0
    /\ now - log[dropped + 1].at >= stream.age
    /\ dropped' = dropped + 1
    /\ sub' = IF sub.state # "idle" /\ log[dropped + 1].kb = Watched /\ dropped + 1 > sub.cursor
              THEN [sub EXCEPT !.missed = @ \union {dropped + 1}] ELSE sub
    /\ UNCHANGED <<now, stream, log, server, starts, sent>>

\* Timers are prompt: the clock does not pass an acknowledgement's timeout.
Tick ==
    /\ now < MaxNow
    /\ server.publish.event # 0 /\ server.publish.result = "none" => now < server.publish.at + Timeout
    /\ now' = now + 1
    /\ UNCHANGED <<stream, log, dropped, server, starts, sent, sub>>

Init ==
    /\ now = 0
    /\ stream \in Found
    /\ log = <<>> /\ dropped = 0 /\ server = Down /\ starts = 0 /\ sent = 0 /\ sub = NoSub

Next ==
    \/ \E s \in Settings : Start(s)
    \/ \E kb \in Kbs : Publish(kb, TRUE)
    \/ Publish(Watched, FALSE)
    \/ Stop \/ Arrive \/ Lose \/ Acked \/ TimesOut \/ PublishEnds
    \/ ReadBounds \/ CreateConsumer \/ Deliver \/ Detach \/ Expire \/ Tick

Spec == Init /\ [][Next]_vars

-----------------------------------------------------------------------------
\* A publish that was acknowledged is in the log once and under the sequence
\* it returned, retried or not, whenever the stream's window is as long as the
\* settings require (nats.rs publish, config.rs MIN_NATS_DUPLICATE_WINDOW_SECS).
AcknowledgedOnce ==
    server.publish.result = "ok" /\ stream.window >= MinWindow =>
      Copies(server.publish.event) = {server.publish.ack}

\* The broker never refuses what a start with accepted settings asks for, and
\* only a window an operator set by hand is below the minimum (stream.rs
\* config, apply_to; with_connection).
SettingsFit ==
    /\ server.why # "broker"
    /\ stream # None /\ stream.window < MinWindow =>
         \E found \in Found \ {None} : found.window = stream.window

\* A subscriber is given every readable event of its knowledge base from its
\* position on, reconnects included, but for those dropped between the check
\* of its position and their delivery (nats.rs subscribe, is_gone, decode).
NothingRetainedIsSkipped ==
    sub.state = "open" =>
      \A i \in sub.since + 1..sub.cursor :
        log[i].kb = Watched /\ log[i].readable => i \in sub.got \union sub.missed

\* And none at all is skipped without the client being told.
NeverSkips == sub.missed = {}
=============================================================================
