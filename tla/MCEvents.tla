------------------------------- MODULE MCEvents -------------------------------
(***************************************************************************)
(* What the change feed rests on, one part per behaviour: the feed over the *)
(* in-memory log, the connections it is served on, the dates in it, the     *)
(* JetStream log, and who the subscriber is.  They share no state;          *)
(* `subject` says which one moves.                                          *)
(***************************************************************************)
EXTENDS EventStream, TLC

CONSTANTS Requests, KeyIds, Subjects

VARIABLES
    subject,
    now, stream, messages, dropped, server, starts, sent, sub,
    clock, published, made, cache, refetch, req

natsVars == <<now, stream, messages, dropped, server, starts, sent, sub>>
idVars == <<clock, published, made, cache, refetch, req>>

Setting(w, a, r, st) == [window |-> w, age |-> a, replicas |-> r, storage |-> st]
Made(o, l, a, w) == [ours |-> o, limits |-> l, age |-> a, storage |-> "file", replicas |-> 1, window |-> w]

\* One configuration, three events: publishing against retention and subscribers.
Nats == INSTANCE NatsLog WITH
    log <- messages, Watched <- CHOOSE k \in Kbs : TRUE, Timeout <- 1, DefaultWindow <- 3,
    MaxEvents <- 3, MaxStarts <- 1, MaxNow <- 2,
    Settings <- {Setting(None, 2, None, None)}, Found <- {None}

\* Two starts over every kind of stream and settings, one event.
Setup == INSTANCE NatsLog WITH
    log <- messages, Watched <- CHOOSE k \in Kbs : TRUE, Timeout <- 1, DefaultWindow <- 3,
    MaxEvents <- 1, MaxStarts <- 2, MaxNow <- 4,
    Settings <- {Setting(None, 2, None, None), Setting(None, 4, 3, "file"),
                 Setting(3, 3, None, "memory"), Setting(3, 2, None, None),
                 Setting(1, 3, None, None), Setting(2, 3, 6, None), Setting(None, 1, None, None)},
    Found <- {None, Made(TRUE, TRUE, 4, 4), Made(TRUE, TRUE, 0, 1), Made(FALSE, TRUE, 4, 4), Made(TRUE, FALSE, 4, 4)}

\* One connection over a log of six events, of every kind.
Markdown == [type |-> "text", sub |-> "md", params |-> TRUE]
Sound == [type |-> "audio", sub |-> "mp", params |-> FALSE]
MCLog == <<Written(<<1>>, "e", Markdown, "http"), IndexFailed(<<1>>, "e", Markdown, "why"), Deleted(<<2>>, "webdav"),
           FromMeta(<<1, 2>>, [etag |-> None, mime |-> None], "fs-watch"), Indexed(<<2>>, "g", Sound),
           IndexFailed(<<2>>, None, None, "x")>>
MCQueries == [prefix : {None, <<>>, <<1>>}, event : {None, [name |-> "indexed"], [name |-> "x"]},
              mime : {None, NoType, Markdown, [Markdown EXCEPT !.sub = "*"]}, last : {None, -1, 2}]
AllKeys == {<<1>>, <<2>>, <<1, 2>>}
MCCallers ==
    [known : BOOLEAN, enabled : {TRUE}, keys : {{}, AllKeys, {<<1>>}}, whole : {FALSE}, expires : BOOLEAN]
    \cup [known : {TRUE}, enabled : BOOLEAN, keys : {AllKeys}, whole : {TRUE}, expires : {TRUE}]

\* Days since the epoch: the first years, the turn of an era, and a century that has no leap day.
Days == 0 .. 800 \cup 10950 .. 11050 \cup 47400 .. 47600

Id == INSTANCE Identity WITH
    now <- clock, Kids <- KeyIds, MaxKeys <- 2, Expiries <- {2, 3}, Leeway <- 1,
    MinRefetch <- 2, MaxKeyAge <- 2, MaxNow <- 4

MCInit ==
    /\ subject \in Subjects
    /\ StreamInit /\ FeedInit
    /\ subject # "feed" => kb = [c \in Subs |-> CHOOSE k \in Kbs : TRUE]
    /\ IF subject = "setup" THEN Setup!Init ELSE Nats!Init
    /\ IF subject = "identity" THEN Id!Init
       ELSE clock \in (IF subject = "dates" THEN Days ELSE {0}) /\ published = <<>> /\ made = 0 /\ cache = <<>> /\ refetch = None /\ req = <<>>

MCNext ==
    /\ UNCHANGED subject
    /\ \/ subject = "feed" /\ StreamNext /\ UNCHANGED <<feedVars, natsVars, idVars>>
       \/ subject = "connections" /\ FeedNext /\ UNCHANGED <<allVars, natsVars, idVars>>
       \/ subject = "nats" /\ Nats!Next /\ UNCHANGED <<allVars, feedVars, idVars>>
       \/ subject = "setup" /\ Setup!Next /\ UNCHANGED <<allVars, feedVars, idVars>>
       \/ subject = "identity" /\ Id!Next /\ UNCHANGED <<allVars, feedVars, natsVars>>

MCSpec == MCInit /\ [][MCNext]_<<subject, allVars, feedVars, natsVars, idVars>>
MCSymmetry == Permutations(Requests) \cup Permutations(KeyIds)

(***************************************************************************)
(* A connection is sent what its query and its grant select from where it  *)
(* asked, in order; it is counted while it is held, however it ends; and   *)
(* an event's date is the calendar's (events.rs).                          *)
(***************************************************************************)
StreamsAreAccounted ==
    /\ subject = "connections" => GaugeCountsStreams /\ StreamsTellTheQuery
    /\ subject = "dates" => DatesAreTheCalendars(clock)

(***************************************************************************)
(* JetStream: an acknowledged event is in the log once, within the window  *)
(* the server set up; a subscriber is passed no event that is retained;    *)
(* and a stream's settings are the operator's or the server does not start *)
(* (nats.rs publish, subscribe; stream.rs ensure_stream).                  *)
(***************************************************************************)
JetStreamIsExact ==
    /\ subject \in {"nats", "setup"} => Nats!AcknowledgedOnce /\ Nats!NothingRetainedIsSkipped
    /\ subject = "setup" => Setup!SettingsFit

(***************************************************************************)
(* Identity: a token is judged by keys no older than the refresh interval, *)
(* keys are not fetched more often than that whatever tokens arrive, and a *)
(* stream ends with the token it was opened with (oidc.rs verify, refresh, *)
(* valid_until).                                                           *)
(***************************************************************************)
TokensAreJudged ==
    subject = "identity" =>
        Id!JudgedByRecentKeys /\ Id!FetchesAreSpaced /\ Id!StreamsEndWithTheirToken
=============================================================================
