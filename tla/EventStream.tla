---------------------------- MODULE EventStream ---------------------------
(***************************************************************************)
(* The change feed over HTTP: the stream one client follows across its     *)
(* connections, and the feeds the server holds open.                       *)
(***************************************************************************)
EXTENDS MemoryLog, Integers

(***************************************************************************)
(* The change feed end to end: the events route                             *)
(* (notedthat-api-http/src/router/events.rs: subscribe_events, frames) over *)
(* the in-memory log, and a client that reconnects with Last-Event-ID.  A   *)
(* client uses one connection at a time, so a connection is known by its    *)
(* client and is one of MemoryLog's subscriptions.                          *)
(***************************************************************************)
CONSTANTS MaxFrames,   \* bound on the frames on the way to a client
    MaxRestarts  \* bound on the restarts of the server

VARIABLES
    shown,      \* id -> may the clients see it and did they ask for it
    wire,       \* client -> frames sent and not yet received
    lastId,     \* client -> Last-Event-ID, NoId before the first event
    held,       \* client -> ids received since it last synced
    syncedAt,   \* client -> position of the log when it last synced
    syncEpoch,  \* client -> run of the server in which it last synced
    epoch       \* number of restarts

NoId == 0        \* no Last-Event-ID: ids begin at 1


clientVars == <<wire, lastId, held, syncedAt, syncEpoch>>
allVars == <<vars, shown, clientVars, epoch>>

StreamInit ==
    /\ Init
    /\ shown = <<>>
    /\ wire = [c \in Subs |-> <<>>]
    /\ lastId = [c \in Subs |-> NoId]
    /\ held = [c \in Subs |-> {}]
    /\ syncedAt = [c \in Subs |-> 0]
    /\ syncEpoch = [c \in Subs |-> 0]
    /\ epoch = 0

\* An event with its key, which Open::shows decides on.
Happen(k, v) ==
    /\ Publish(k)
    /\ shown' = Append(shown, v)
    /\ UNCHANGED <<clientVars, epoch>>

\* subscribe_events for a client without a position: live events only.
ConnectFresh(c) ==
    /\ lastId[c] = NoId
    /\ Attach(c, kb[c])
    /\ wire' = [wire EXCEPT ![c] = <<>>]
    /\ held' = [held EXCEPT ![c] = {}]
    /\ syncedAt' = [syncedAt EXCEPT ![c] = Latest]
    /\ syncEpoch' = [syncEpoch EXCEPT ![c] = epoch]
    /\ UNCHANGED <<shown, lastId, epoch>>

\* subscribe_events with Last-Event-ID.
Reconnect(c) ==
    /\ lastId[c] # NoId
    /\ Resume(c, kb[c], lastId[c])
    /\ wire' = [wire EXCEPT ![c] = <<>>]
    /\ UNCHANGED <<shown, lastId, held, syncedAt, syncEpoch, epoch>>

\* 410: the client resyncs by listing and starts over.
Resync(c) ==
    /\ lastId[c] # NoId
    /\ Refuse(c, lastId[c])
    /\ wire' = [wire EXCEPT ![c] = <<>>]
    /\ lastId' = [lastId EXCEPT ![c] = NoId]
    /\ UNCHANGED <<shown, held, syncedAt, syncEpoch, epoch>>

\* Mutant: the events of every key are sent.
FrameUnfiltered(c) ==
    /\ Len(wire[c]) < MaxFrames
    /\ Step(c)
    /\ \E i \in 0 .. MaxEvents :
          /\ got'[c] \ got[c] = IF i = 0 THEN {} ELSE {i}
          /\ wire' = [wire EXCEPT ![c] = IF i = 0 THEN @ ELSE Append(@, i)]
    /\ UNCHANGED <<shown, lastId, held, syncedAt, syncEpoch, epoch>>

\* frames: the stream's next step, and its frame when the client is to see it.
Frame(c) ==
    /\ Len(wire[c]) < MaxFrames
    /\ Step(c)
    /\ \E i \in 0 .. MaxEvents :
          /\ got'[c] \ got[c] = IF i = 0 THEN {} ELSE {i}
          /\ wire' = [wire EXCEPT ![c] = IF i # 0 /\ shown[i] THEN Append(@, i) ELSE @]
    /\ UNCHANGED <<shown, lastId, held, syncedAt, syncEpoch, epoch>>

\* The client reads a frame.
Receive(c) ==
    /\ wire[c] # <<>>
    /\ wire' = [wire EXCEPT ![c] = Tail(@)]
    /\ lastId' = [lastId EXCEPT ![c] = Head(wire[c])]
    /\ held' = [held EXCEPT ![c] = @ \cup {Head(wire[c])}]
    /\ UNCHANGED <<vars, shown, syncedAt, syncEpoch, epoch>>

\* frames: the credential expires.  What was sent before still arrives.
Expire(c) ==
    /\ Close(c)
    /\ UNCHANGED <<shown, clientVars, epoch>>

\* The connection breaks: frames on the way are lost.
Disconnect(c) ==
    /\ Close(c)
    /\ wire' = [wire EXCEPT ![c] = <<>>]
    /\ UNCHANGED <<shown, lastId, held, syncedAt, syncEpoch, epoch>>

\* The server restarts: MemoryPublisher::new, and every connection breaks.
Restart ==
    /\ epoch < MaxRestarts
    /\ epoch' = epoch + 1
    /\ log' = <<>>
    /\ ring' = {}
    /\ shown' = <<>>
    /\ state' = [c \in Subs |-> "off"]
    /\ wire' = [c \in Subs |-> <<>>]
    /\ UNCHANGED <<kb, backlog, rx, cursor, start, got, lastId, held, syncedAt, syncEpoch>>

StreamNext ==
    \/ \E k \in Kbs, v \in BOOLEAN : Happen(k, v)
    \/ \E c \in Subs :
        \/ ConnectFresh(c)
        \/ Reconnect(c)
        \/ Resync(c)
        \/ Frame(c)
        \/ Receive(c)
        \/ Expire(c)
        \/ Disconnect(c)
    \/ Restart

StreamSpec == StreamInit /\ [][StreamNext]_allVars

-----------------------------------------------------------------------------
(* Properties.                                                             *)

\* docs/API.md 1607: "A client that reconnects with Last-Event-ID receives every
\* event after that id that it may see, once, in order".  Across replay, live
\* frames, lag, expiry, lost frames and reconnects, a client holds exactly the
\* events of its knowledge base it may see between its last sync and its
\* Last-Event-ID, as long as the server has not restarted.
HoldsEverything ==
    \A c \in Subs : syncEpoch[c] = epoch /\ lastId[c] # NoId =>
        held[c] = {i \in (syncedAt[c] + 1) .. lastId[c] : log[i] = kb[c] /\ shown[i]}

\* docs/CONFIGURATION.md 209: "a client that reconnects after a restart with a
\* Last-Event-ID from before it answers 410".
RestartIsNoticed ==
    [][\A c \in Subs : state[c] # "open" /\ state'[c] = "open" /\ lastId[c] # NoId
          => syncEpoch[c] = epoch]_allVars

-----------------------------------------------------------------------------
(***************************************************************************)
(* The events of a knowledge base and the streams they are served on:      *)
(* how an event is built, what a subscription's query selects, which       *)
(* frames a stream is made of and how it ends, and the gauge of live       *)
(* subscribers.  Where a stream starts in the log, and what the log may    *)
(* lose, is EventStream's and NatsLog's.                                   *)
(*                                                                         *)
(* A content type is [type, sub, params]; the media type of one with no    *)
(* type is empty.  A key is a sequence.                                    *)
(***************************************************************************)
CONSTANTS None, Conns, Log, Queries, Callers

VARIABLES conn,   \* per connection: where it stands, its caller, query, place and frames
          gauge   \* notedthat_events_subscribers

feedVars == <<conn, gauge>>

NoType == [type |-> "", sub |-> "", params |-> FALSE]
Essence(mime) == [mime EXCEPT !.params = FALSE]

-----------------------------------------------------------------------------
(* ObjectEvent's constructors.                                             *)
Event(key, source, kind, etag, mime, summary) ==
  [key |-> key, source |-> source, kind |-> kind, etag |-> etag, mime |-> mime, summary |-> summary]
Written(key, etag, mime, source) == Event(key, source, "written", etag, mime, None)
Deleted(key, source) == Event(key, source, "deleted", None, None, None)
Indexed(key, etag, mime) == Event(key, "indexer", "indexed", etag, mime, None)
IndexFailed(key, etag, mime, summary) == Event(key, "indexer", "index_failed", etag, mime, summary)
FromMeta(key, meta, source) ==
  Written(key, IF meta.etag = None THEN "" ELSE meta.etag,
          IF meta.mime = None THEN NoType ELSE meta.mime, source)
KindOf(event) == event.kind
MimeOf(event) == IF event.kind = "deleted" THEN None ELSE event.mime
EtagOf(event) == IF event.kind = "deleted" THEN None ELSE event.etag

(* EventFilter.  A kind may carry the prefix "object.".                    *)
Kinds == {"written", "deleted", "indexed", "index_failed"}
ParseKind(raw) == IF raw.name \in Kinds THEN raw.name ELSE None
ParseFilter(query) ==
  IF query.event # None /\ ParseKind(query.event) = None THEN None
  ELSE [prefix |-> IF query.prefix = <<>> THEN None ELSE query.prefix,
        kind   |-> IF query.event = None THEN None ELSE ParseKind(query.event),
        mime   |-> IF query.mime = None \/ Essence(query.mime) = NoType THEN None
                   ELSE Essence(query.mime)]
MimeMatches(pattern, mime) ==
  IF pattern.sub = "*" THEN Essence(mime) # NoType /\ mime.type = pattern.type
  ELSE pattern = Essence(mime)
StartsWith(key, prefix) == Len(prefix) <= Len(key) /\ SubSeq(key, 1, Len(prefix)) = prefix
(* Mutant: an event without a type passes the filter on types.             *)
FilterMatchesUntyped(f, event) ==
  /\ f.prefix # None => StartsWith(event.key, f.prefix)
  /\ f.kind # None => f.kind = KindOf(event)
  /\ f.mime # None => MimeOf(event) = None \/ MimeMatches(f.mime, MimeOf(event))
FilterMatches(f, event) ==
  /\ f.prefix # None => StartsWith(event.key, f.prefix)
  /\ f.kind # None => f.kind = KindOf(event)
  /\ f.mime # None => MimeOf(event) # None /\ MimeMatches(f.mime, MimeOf(event))

(* parse_last_event_id: no header, a number, or (-1) 400.  Log begins with *)
(* the first event a subscription without a position can be sent.          *)
ParseLastEventId(raw) == IF raw = None THEN 0 ELSE IF raw >= 0 THEN raw ELSE None

(* subscribe_events up to the log: the first refusal is the answer.        *)
Refusal(caller, query) ==
  IF ~caller.known THEN 404
  ELSE IF caller.keys = {} THEN 403
  ELSE IF ~caller.enabled THEN 404
  ELSE IF ParseFilter(query) = None \/ ParseLastEventId(query.last) = None THEN 400
  ELSE None

(* The log holds events their constructors made, and None is no value a    *)
(* request or an event carries.                                            *)
ASSUME NoneIsNoId == None \notin Nat
ASSUME LogAssumption ==
  /\ Log \in Seq({Log[n] : n \in DOMAIN Log})
  /\ \A n \in DOMAIN Log : LET e == Log[n] IN
       /\ e = Event(e.key, e.source, e.kind, e.etag, e.mime, e.summary)
       /\ e.kind = "deleted" => e.etag = None
ASSUME QueriesAssumption ==
  \A query \in Queries : /\ query.last # None => query.last \in Int
                         /\ query.mime # None => Essence(query.mime) # None

-----------------------------------------------------------------------------
WithholdSummary(event) == [event EXCEPT !.summary = None]
FrameFor(id, event) == [id |-> id, event |-> event]
Ended == [id |-> None, event |-> "stream ended"]
CredentialExpired == [id |-> None, event |-> "auth.expired"]
Shows(c, event) == event.key \in c.caller.keys /\ FilterMatches(ParseFilter(c.query), event)
FrameOf(c, id) ==
  FrameFor(id, IF c.caller.whole THEN Log[id] ELSE WithholdSummary(Log[id]))

Idle == [phase |-> "idle", caller |-> None, query |-> None, at |-> 0, frames |-> <<>>]
FeedInit == conn = [c \in Conns |-> Idle] /\ gauge = 0

Ask(c) ==
  /\ conn[c] = Idle
  /\ \E caller \in Callers, query \in Queries :
       LET status == Refusal(caller, query)
       IN  conn' = [conn EXCEPT ![c] =
             IF status # None THEN [Idle EXCEPT !.phase = "refused", !.at = status]
             ELSE [Idle EXCEPT !.phase = "subscribing", !.caller = caller, !.query = query,
                               !.at = ParseLastEventId(query.last)]]
  /\ UNCHANGED gauge
(* EventPublisher::subscribe answers; only then is the subscriber counted. *)
Subscribed(c) ==
  /\ conn[c].phase = "subscribing"
  /\ conn' = [conn EXCEPT ![c].phase = "open"]
  /\ gauge' = gauge + 1
NotSubscribed(c) ==
  /\ conn[c].phase = "subscribing"
  /\ \E status \in {410, 503} :
       conn' = [conn EXCEPT ![c] = [Idle EXCEPT !.phase = "refused", !.at = status]]
  /\ UNCHANGED gauge

(* frames: events the caller may not or did not ask to see are passed over *)
(* on the way to the next frame; a terminal frame ends the stream, and the *)
(* guard goes with it.                                                     *)
CloseFeed(c, frame) ==
  /\ conn' = [conn EXCEPT ![c].phase = "closed", ![c].frames = @ \o frame]
  /\ gauge' = gauge - 1
Logged(c) ==
  /\ conn[c].phase = "open" /\ conn[c].at < Len(Log)
  /\ LET id == conn[c].at + 1
     IN  conn' = [conn EXCEPT ![c].at = id,
                    ![c].frames = IF Shows(conn[c], Log[id]) THEN Append(@, FrameOf(conn[c], id)) ELSE @]
  /\ UNCHANGED gauge
LogFails(c) == conn[c].phase = "open" /\ CloseFeed(c, <<Ended>>)
LogCloses(c) == conn[c].phase = "open" /\ conn[c].at = Len(Log) /\ CloseFeed(c, <<>>)
Expires(c) == conn[c].phase = "open" /\ conn[c].caller.expires /\ CloseFeed(c, <<CredentialExpired>>)
(* The client goes away: the handler's future or the response's body is    *)
(* dropped wherever it stands.                                             *)
HangUpQuietly(c) ==
  /\ conn[c].phase \in {"subscribing", "open"}
  /\ conn' = [conn EXCEPT ![c].phase = "gone"]
  /\ UNCHANGED gauge
HangUp(c) ==
  /\ conn[c].phase \in {"subscribing", "open"}
  /\ conn' = [conn EXCEPT ![c].phase = "gone"]
  /\ gauge' = IF conn[c].phase = "open" THEN gauge - 1 ELSE gauge
FeedNext == \E c \in Conns : \/ Ask(c) \/ Subscribed(c) \/ NotSubscribed(c) \/ Logged(c)
                             \/ LogFails(c) \/ LogCloses(c) \/ Expires(c) \/ HangUp(c)
FeedSpec == FeedInit /\ [][FeedNext]_feedVars

(* Mutant: the last day of an era counts as the first of the next year.    *)
CivilOfShortEras(days) ==
  LET z    == days + 719468
      doe  == z % 146097
      yoe  == (doe - doe \div 1460 + doe \div 36524) \div 365
      doy  == doe - (365 * yoe + yoe \div 4 - yoe \div 100)
      mp   == (5 * doy + 2) \div 153
      month == IF mp < 10 THEN mp + 3 ELSE mp - 9
  IN  <<yoe + (z \div 146097) * 400 + (IF month <= 2 THEN 1 ELSE 0), month, doy - (153 * mp + 2) \div 5 + 1>>

(* unix_to_rfc3339's date: days since the epoch to year, month, day.       *)
Civil(days) ==
  LET z    == days + 719468
      era  == z \div 146097
      doe  == z % 146097
      yoe  == (doe - doe \div 1460 + doe \div 36524 - doe \div 146096) \div 365
      doy  == doe - (365 * yoe + yoe \div 4 - yoe \div 100)
      mp   == (5 * doy + 2) \div 153
      month == IF mp < 10 THEN mp + 3 ELSE mp - 9
  IN  <<yoe + era * 400 + (IF month <= 2 THEN 1 ELSE 0), month, doy - (153 * mp + 2) \div 5 + 1>>

-----------------------------------------------------------------------------
(* A subscriber is counted exactly while its stream is held, however it    *)
(* ends: by its log, its credential or the client going away before the    *)
(* first frame.  (events.rs:184-186, 315-316)                              *)
GaugeCountsStreams == gauge = Cardinality({c \in Conns : conn[c].phase = "open"})

(* What a stream has sent is the log from where the client asked, in       *)
(* order and without the events it may not see or did not ask for; only a  *)
(* last frame carries no id, so the id a client holds never passes an      *)
(* event it was owed.  A failure's summary goes to whole-base readers only.*)
StreamsTellTheQuery ==
  \A c \in Conns : conn[c].phase \in {"open", "closed", "gone"} /\ conn[c].caller # None =>
    LET frames == conn[c].frames
        told == {n \in DOMAIN frames : frames[n].id # None}
        owed == {id \in ParseLastEventId(conn[c].query.last) + 1..conn[c].at : Shows(conn[c], Log[id])}
    IN  /\ {frames[n].id : n \in told} = owed
        /\ \A m, n \in told : m < n => frames[m].id < frames[n].id
        /\ \A n \in DOMAIN frames \ told : n = Len(frames) /\ conn[c].phase = "closed"
        /\ \A n \in told : /\ frames[n].event.etag = EtagOf(Log[frames[n].id])
                           /\ frames[n].event.summary # None => conn[c].caller.whole
                           /\ conn[c].query.mime # None /\ Essence(conn[c].query.mime) # NoType
                                => frames[n].event.kind # "deleted"

(* The date in an event is the calendar's: the epoch is 1 January 1970 and *)
(* each day's date is followed by the next one, leap days, centuries and   *)
(* era boundaries included.  (events.rs:410)                               *)
Leap(y) == y % 4 = 0 /\ (y % 100 # 0 \/ y % 400 = 0)
MonthDays(y, m) == IF m = 2 THEN IF Leap(y) THEN 29 ELSE 28 ELSE IF m \in {4, 6, 9, 11} THEN 30 ELSE 31
DayAfter(d) ==
  IF d[3] < MonthDays(d[1], d[2]) THEN <<d[1], d[2], d[3] + 1>>
  ELSE IF d[2] < 12 THEN <<d[1], d[2] + 1, 1>> ELSE <<d[1] + 1, 1, 1>>
DatesAreTheCalendars(days) == Civil(0) = <<1970, 1, 1>> /\ Civil(days + 1) = DayAfter(Civil(days))

=============================================================================
