---------------------------- MODULE Subscriptions ----------------------------
(***************************************************************************)
(* The resource subscriptions of one MCP session                            *)
(* (notedthat-mcp/src/subscriptions.rs) on one knowledge base: a watch per  *)
(* credential with its forwarder, what a refused credential leaves          *)
(* stranded, the re-home onto the newest credential, and the keeper.        *)
(*                                                                         *)
(* A section of code under the session lock is one step.  Timers may fire   *)
(* at any moment.  The events route, the client and the objects' writers    *)
(* are the environment.                                                     *)
(***************************************************************************)
EXTENDS Integers, FiniteSets

CONSTANTS
    Keys,         \* object keys of the knowledge base
    Creds,        \* credentials the client presents
    None,         \* no credential, no watch
    Watches,      \* identities of the watches that exist at one time
    MaxCalls,     \* bound on requests of the client
    MaxChanges,   \* bound on writes of objects
    MaxFaults     \* bound on refusals, ended streams, lost positions and expiries

ASSUME NoneIsNothing == None \notin Creds \cup Watches

VARIABLES
    kbs,        \* Inner.kbs: credential -> its registered watch, or None
    watch,      \* KbWatch with its forwarder, by identity
    stranded,   \* Inner.stranded: credential -> [keys, list]
    latest,     \* Inner.latest
    rehome,     \* the re-home task, Inner.rehoming being pc # "off"
    moved,      \* <<key, watch>> that announce_moved has yet to announce
    calls,      \* <<key, watch>> of the subscribe calls that wait for their stream
    keeper,     \* "off" (keeper_started is false), "sleep", "idle" or "ping"
    ended,      \* the session's token is cancelled
    wants,      \* keys whose subscribe was answered Ok and that were not unsubscribed
    lost,       \* keys given up after a notice to the client
    raced,      \* keys moved onto a watch that was already stranded
    unseen,     \* keys written since their last notice, while a notice was owed
    asked, written, faults   \* counts against the bounds

session == <<kbs, stranded, latest, rehome>>
client == <<wants, lost, raced, unseen>>
bounds == <<asked, written, faults>>
vars == <<session, watch, moved, calls, keeper, ended, client, bounds>>

\* A watch: its credential, the keys and the list interest it feeds, its link,
\* whether its stream is connected and can be resumed from an event id, the
\* events not handled yet, the notices its forwarder owes, and the forwarder.
Free == [pc |-> "free", cred |-> None, keys |-> {}, list |-> FALSE, link |-> "connecting",
         open |-> FALSE, id |-> FALSE, feed |-> {}, tell |-> {}]
NoRehome == [pc |-> "off", cred |-> None, todo |-> {}, move |-> {}, drop |-> {}]
Empty == [keys |-> {}, list |-> FALSE]

Init ==
    /\ kbs = [c \in Creds |-> None]
    /\ watch = [w \in Watches |-> Free]
    /\ stranded = [c \in Creds |-> Empty]
    /\ latest = None /\ rehome = NoRehome
    /\ moved = {} /\ calls = {}
    /\ keeper = "off" /\ ended = FALSE
    /\ wants = {} /\ lost = {} /\ raced = {} /\ unseen = {}
    /\ asked = 0 /\ written = 0 /\ faults = 0

Fault == faults < MaxFaults /\ faults' = faults + 1

\* alive and not cancelled: a registered watch that ensure_watch hands back.
\* A forwarder that was refused keeps it so until drop_watch.
Usable(w) == watch[w].pc \in {"run", "strand", "drop"}

\* ensure_watch: c is handed its registered watch, or a fresh one.
Joins(c) == kbs[c] # None /\ Usable(kbs[c])
CanEnsure(c) == Joins(c) \/ \E w \in Watches : watch[w].pc = "free"
WatchOf(c) == IF Joins(c) THEN kbs[c] ELSE CHOOSE w \in Watches : watch[w].pc = "free"

\* ensure_watch as c, and the watch takes keys ks and a list interest.
Take(c, ks, list) ==
    LET w == WatchOf(c)
        old == IF Joins(c) THEN watch[w] ELSE [Free EXCEPT !.pc = "run", !.cred = c]
    IN  /\ CanEnsure(c)
        /\ watch' = [watch EXCEPT ![w] = [old EXCEPT !.keys = @ \cup ks, !.list = @ \/ list]]
        /\ kbs' = [kbs EXCEPT ![c] = w]

\* What is left of watch w when its forwarder has returned: the link, for those
\* who still wait for it in refs.
Returned(w, refs) ==
    IF \E p \in refs : p[2] = w THEN [Free EXCEPT !.pc = "done", !.link = watch[w].link] ELSE Free

\* rehome_unless_just_tried: what is stranded under a credential other than c
\* starts a re-home onto c, unless one runs; keys in kept do not count.
RehomeUnlessJustTried(s, c, r, kept) ==
    IF /\ r.pc = "off" /\ c # None
       /\ \E d \in Creds \ {c} : s[d].list \/ ~ (s[d].keys \subseteq kept)
    THEN [NoRehome EXCEPT !.pc = "start", !.cred = c]
    ELSE r
RehomeIfDue(s, c, r) == RehomeUnlessJustTried(s, c, r, {})

Set(w, new) == watch' = [watch EXCEPT ![w] = new]
Release(w, refs) == IF watch[w].pc = "done" THEN Set(w, Returned(w, refs)) ELSE UNCHANGED watch

-----------------------------------------------------------------------------
(* Requests of the client.                                                  *)

\* note_caller, which every request begins with.
NoteCaller(c) ==
    /\ ~ ended
    /\ asked < MaxCalls /\ asked' = asked + 1
    /\ latest' = c
    /\ rehome' = RehomeIfDue(stranded, c, rehome)

\* A request that touches no subscription.
Request(c) ==
    /\ NoteCaller(c)
    /\ UNCHANGED <<kbs, stranded, watch, moved, calls, keeper, ended, client, written, faults>>

\* subscribe, up to the wait for the stream.
Subscribe(c, k) ==
    /\ NoteCaller(c)
    /\ Take(c, {k}, FALSE)
    /\ calls' = calls \cup {<<k, WatchOf(c)>>}
    /\ keeper' = IF keeper = "off" THEN "sleep" ELSE keeper
    /\ UNCHANGED <<stranded, moved, ended, client, written, faults>>

\* subscribe answers once the link has left Connecting or OPEN_WAIT is over.
Answer(k, w) ==
    /\ <<k, w>> \in calls
    /\ calls' = calls \ {<<k, w>>}
    /\ LET ok == ~ ended /\ watch[w].link # "refused" IN
        /\ wants' = IF ok THEN wants \cup {k} ELSE wants
        /\ lost' = IF ok THEN lost \ {k} ELSE lost
        /\ raced' = IF ok THEN raced \ {k} ELSE raced
    /\ Release(w, moved \cup calls')
    /\ UNCHANGED <<session, moved, keeper, ended, unseen, bounds>>

\* unsubscribe, sent when no subscribe of the same key is open.
Unsubscribe(c, k) ==
    /\ \A p \in calls : p[1] # k
    /\ NoteCaller(c)
    /\ LET wanted(w) == watch[w].list \/ watch[w].keys \ {k} # {}
           registered == {kbs[d] : d \in Creds} \ {None}
       IN
        /\ kbs' = [d \in Creds |-> IF kbs[d] # None /\ wanted(kbs[d]) THEN kbs[d] ELSE None]
        /\ watch' = [w \in Watches |->
            IF w \notin registered THEN watch[w]
            ELSE [watch[w] EXCEPT !.keys = @ \ {k},
                                  !.pc = IF @ = "run" /\ ~ wanted(w) THEN "drop" ELSE @]]
    /\ stranded' = [d \in Creds |-> [stranded[d] EXCEPT !.keys = @ \ {k}]]
    /\ wants' = wants \ {k} /\ unseen' = unseen \ {k} /\ lost' = lost \ {k} /\ raced' = raced \ {k}
    /\ UNCHANGED <<moved, calls, keeper, ended, written, faults>>

\* watch_list_changes, which a listing of resources ends with.
WatchListChanges(c) ==
    /\ NoteCaller(c)
    /\ Take(c, {}, TRUE)
    /\ UNCHANGED <<stranded, moved, calls, keeper, ended, client, written, faults>>

-----------------------------------------------------------------------------
(* A forwarder and the stream it reads.                                     *)

Forwards(w) == ~ ended /\ watch[w].pc = "run"

\* The route answers 200.
Opened(w) ==
    /\ Forwards(w) /\ ~ watch[w].open
    /\ Set(w, [watch[w] EXCEPT !.link = "open", !.open = TRUE])
    /\ UNCHANGED <<session, moved, calls, keeper, ended, client, bounds>>

\* The route answers 410 to a Last-Event-ID: the id is dropped, and with it
\* what could have been replayed.
PositionGone(w) ==
    /\ Forwards(w) /\ ~ watch[w].open /\ watch[w].id
    /\ Fault
    /\ Set(w, [watch[w] EXCEPT !.id = FALSE, !.feed = {}])
    /\ unseen' = unseen \ watch[w].feed
    /\ UNCHANGED <<session, moved, calls, keeper, ended, wants, lost, raced, asked, written>>

\* The stream ends; without an id the next one starts from now.
StreamEnds(w) ==
    /\ Forwards(w) /\ watch[w].open
    /\ Fault
    /\ LET kept == IF watch[w].id THEN watch[w].feed ELSE {} IN
        /\ Set(w, [watch[w] EXCEPT !.open = FALSE, !.feed = kept])
        /\ unseen' = unseen \ (watch[w].feed \ kept)
    /\ UNCHANGED <<session, moved, calls, keeper, ended, wants, lost, raced, asked, written>>

\* One event frame: decide, and resources/updated for a key the watch feeds.
Frame(w) ==
    /\ Forwards(w) /\ watch[w].open
    /\ \E k \in watch[w].feed :
        /\ Set(w, [watch[w] EXCEPT !.id = TRUE, !.feed = @ \ {k}])
        /\ unseen' = IF k \in watch[w].keys THEN unseen \ {k} ELSE unseen
    /\ UNCHANGED <<session, moved, calls, keeper, ended, wants, lost, raced, bounds>>

\* The route answers 401, 403 or 404: run_forwarder returns.
Refuse(w) ==
    /\ Forwards(w) /\ ~ watch[w].open
    /\ Fault
    /\ Set(w, [watch[w] EXCEPT !.link = "refused", !.pc = "strand"])
    /\ UNCHANGED <<session, moved, calls, keeper, ended, client, asked, written>>

\* strand after a 401 keeps what the watch fed for a re-home; after a 403 or a
\* 404 it is given up.  The client is to be told of its keys either way.
Stranding(w, expired) ==
    [stranded EXCEPT ![watch[w].cred] =
        IF expired THEN [keys |-> @.keys \cup watch[w].keys, list |-> @.list \/ watch[w].list] ELSE @]
Strand(w) ==
    /\ ~ ended /\ watch[w].pc = "strand"
    /\ \E expired \in BOOLEAN :
        /\ stranded' = Stranding(w, expired)
        /\ lost' = IF expired THEN lost ELSE lost \cup watch[w].keys
        /\ Set(w, [watch[w] EXCEPT !.pc = "drop", !.tell = watch[w].keys])
    /\ UNCHANGED <<kbs, latest, rehome, moved, calls, keeper, ended, wants, raced, unseen, bounds>>

\* drop_watch by the credential, whichever watch is registered for it.
DropWatchByKey(w) ==
    /\ ~ ended /\ watch[w].pc = "drop"
    /\ Set(w, IF watch[w].link = "refused"
              THEN [Free EXCEPT !.pc = "tell", !.link = "refused", !.tell = watch[w].tell]
              ELSE Returned(w, moved \cup calls))
    /\ kbs' = [kbs EXCEPT ![watch[w].cred] = None]
    /\ UNCHANGED <<stranded, latest, rehome, moved, calls, keeper, ended, client, bounds>>

\* drop_watch, on every exit; only the same watch is deregistered.
DropWatch(w) ==
    /\ ~ ended /\ watch[w].pc = "drop"
    /\ Set(w, IF watch[w].link = "refused"
              THEN [Free EXCEPT !.pc = "tell", !.link = "refused", !.tell = watch[w].tell]
              ELSE Returned(w, moved \cup calls))
    /\ kbs' = [c \in Creds |-> IF kbs[c] = w THEN None ELSE kbs[c]]
    /\ UNCHANGED <<stranded, latest, rehome, moved, calls, keeper, ended, client, bounds>>

\* A refused forwarder starts a re-home that is due and tells the client.
Tell(w) ==
    /\ ~ ended /\ watch[w].pc = "tell"
    /\ rehome' = RehomeIfDue(stranded, latest, rehome)
    /\ unseen' = unseen \ watch[w].tell
    /\ Set(w, Returned(w, moved \cup calls))
    /\ UNCHANGED <<kbs, stranded, latest, moved, calls, keeper, ended, wants, lost, raced, bounds>>

-----------------------------------------------------------------------------
(* The re-home onto the newest credential.                                  *)

Foreign == Creds \ {rehome.cred}

\* rehome collects what is stranded under other credentials.
Collect ==
    /\ ~ ended /\ rehome.pc = "start"
    /\ rehome' = [rehome EXCEPT !.pc = "probe", !.todo = UNION {stranded[d].keys : d \in Foreign}]
    /\ UNCHANGED <<kbs, stranded, latest, watch, moved, calls, keeper, ended, client, bounds>>

\* One probe_listable as the new credential: the key may move, is refused, or
\* there is no verdict.
Probe ==
    /\ ~ ended /\ rehome.pc = "probe"
    /\ \E k \in rehome.todo, move, drop \in BOOLEAN :
        /\ ~ (move /\ drop)
        /\ rehome' = [rehome EXCEPT !.todo = @ \ {k},
                                    !.move = IF move THEN @ \cup {k} ELSE @,
                                    !.drop = IF drop THEN @ \cup {k} ELSE @]
    /\ UNCHANGED <<kbs, stranded, latest, watch, moved, calls, keeper, ended, client, bounds>>

\* The keys a verdict applies to: those still stranded, so that an unsubscribe
\* during the probes wins; the first form trusts the verdicts.
StillStrandedLoose(ks) == ks
StillStranded(ks) == ks \cap UNION {stranded[d].keys : d \in Foreign}

\* The verdicts are applied under the session lock.
Apply ==
    /\ ~ ended /\ rehome.pc = "probe" /\ rehome.todo = {}
    /\ LET c == rehome.cred
           probed == rehome.move \cup rehome.drop
           go == StillStranded(rehome.move)
           list == \E d \in Foreign : stranded[d].list
           left == [d \in Creds |-> IF d = c THEN stranded[d]
                                    ELSE [keys |-> stranded[d].keys \ probed, list |-> FALSE]]
           \* Keys with no verdict do not count while c is the newest credential.
           kept == IF latest = c THEN UNION {left[d].keys : d \in Foreign} ELSE {}
       IN
        /\ stranded' = left
        /\ lost' = lost \cup StillStranded(rehome.drop)
        /\ rehome' = RehomeUnlessJustTried(left, latest, NoRehome, kept)
        /\ IF go = {} /\ ~ list THEN UNCHANGED <<kbs, watch, moved, raced>>
           ELSE /\ Take(c, go, list)
                /\ raced' = IF Joins(c) /\ watch[kbs[c]].pc = "drop" THEN raced \cup go ELSE raced
                /\ moved' = moved \cup {<<k, WatchOf(c)>> : k \in go}
        /\ unseen' = unseen \ (StillStranded(rehome.drop) \cup raced')
    /\ UNCHANGED <<latest, calls, keeper, ended, wants, bounds>>

\* announce_moved that announces only on an open stream.
AnnounceOpenOnly(k, w) ==
    /\ ~ ended /\ <<k, w>> \in moved
    /\ moved' = moved \ {<<k, w>>}
    /\ unseen' = IF watch[w].link = "open" THEN unseen \ {k} ELSE unseen
    /\ Release(w, calls \cup moved')
    /\ UNCHANGED <<session, calls, keeper, ended, wants, lost, raced, bounds>>

\* announce_moved: once the new stream is open, or OPEN_WAIT is over; a refused
\* stream sends its own notice.
Announce(k, w) ==
    /\ ~ ended /\ <<k, w>> \in moved
    /\ moved' = moved \ {<<k, w>>}
    /\ unseen' = IF watch[w].link = "refused" THEN unseen ELSE unseen \ {k}
    /\ Release(w, calls \cup moved')
    /\ UNCHANGED <<session, calls, keeper, ended, wants, lost, raced, bounds>>

-----------------------------------------------------------------------------
(* The keeper, and the environment.                                         *)

AnySubscribed ==
    \/ \E c \in Creds : kbs[c] # None /\ watch[kbs[c]].keys # {}
    \/ \E c \in Creds : stranded[c].keys # {}

\* stand_down_if_idle in two sections of the lock instead of one.
StandDownSplit ==
    \/ keeper = "sleep" /\ keeper' = IF AnySubscribed THEN "ping" ELSE "idle"
    \/ keeper = "idle" /\ keeper' = "off"
StandDown == keeper = "sleep" /\ keeper' = IF AnySubscribed THEN "ping" ELSE "off"

\* KEEPER_INTERVAL is over.
KeeperWakes ==
    /\ ~ ended
    /\ StandDown
    /\ UNCHANGED <<session, watch, moved, calls, ended, client, bounds>>

\* The ping is answered, or the session is given up.
Pinged ==
    /\ ~ ended /\ keeper = "ping"
    /\ \/ keeper' = "sleep" /\ UNCHANGED <<ended, faults>>
       \/ keeper' = "off" /\ Fault /\ ended' = TRUE
    /\ UNCHANGED <<session, watch, moved, calls, client, asked, written>>

\* STRANDED_TTL is over: prune_stranded.
Expire(c) ==
    /\ ~ ended /\ stranded[c] # Empty
    /\ Fault
    /\ stranded' = [stranded EXCEPT ![c] = Empty]
    /\ lost' = lost \cup stranded[c].keys
    /\ unseen' = unseen \ stranded[c].keys
    /\ UNCHANGED <<kbs, latest, rehome, watch, moved, calls, keeper, ended, wants, raced, asked, written>>

\* A stream that sees a write now, or replays it on its next connection.
Sees(w) == watch[w].pc = "run" /\ (watch[w].open \/ watch[w].id)

\* A notice of k is on its way: its stream is refused or stranded, or announce_moved
\* still has to announce it on the watch that feeds it now.
OnItsWay(k) ==
    \/ \E w \in Watches : (watch[w].pc = "strand" /\ k \in watch[w].keys) \/ k \in watch[w].tell
    \/ \E c \in Creds : k \in stranded[c].keys
    \/ \E w \in Watches : watch[w].pc = "run" /\ k \in watch[w].keys /\ <<k, w>> \in moved

\* Somebody writes an object.  A notice is owed for a subscribed key that a
\* stream sees or that is being moved; a stream that is still connecting for
\* the first time has nothing to replay.
Write(k) ==
    /\ ~ ended
    /\ written < MaxChanges /\ written' = written + 1
    /\ watch' = [w \in Watches |-> IF Sees(w) THEN [watch[w] EXCEPT !.feed = @ \cup {k}] ELSE watch[w]]
    /\ unseen' = IF k \in wants \ (lost \cup raced)
                    /\ (OnItsWay(k) \/ \E w \in Watches : Sees(w) /\ k \in watch[w].keys)
                 THEN unseen \cup {k} ELSE unseen
    /\ UNCHANGED <<session, moved, calls, keeper, ended, wants, lost, raced, asked, faults>>

Next ==
    \/ \E w \in Watches : Opened(w) \/ Frame(w) \/ Strand(w) \/ DropWatch(w) \/ Tell(w)
    \/ \E k \in Keys, w \in Watches : Answer(k, w) \/ Announce(k, w)
    \/ Collect \/ Probe \/ Apply
    \/ \E c \in Creds : Request(c) \/ WatchListChanges(c) \/ Expire(c)
    \/ \E c \in Creds, k \in Keys : Subscribe(c, k) \/ Unsubscribe(c, k)
    \/ \E w \in Watches : PositionGone(w) \/ StreamEnds(w) \/ Refuse(w)
    \/ KeeperWakes \/ Pinged
    \/ \E k \in Keys : Write(k)

Spec == Init /\ [][Next]_vars

-----------------------------------------------------------------------------

TypeOK ==
    /\ kbs \in [Creds -> Watches \cup {None}]
    /\ watch \in [Watches ->
        [pc : {"free", "run", "strand", "drop", "tell", "done"}, cred : Creds \cup {None},
         keys : SUBSET Keys, list : BOOLEAN, link : {"connecting", "open", "refused"},
         open : BOOLEAN, id : BOOLEAN, feed : SUBSET Keys, tell : SUBSET Keys]]
    /\ stranded \in [Creds -> [keys : SUBSET Keys, list : BOOLEAN]]
    /\ latest \in Creds \cup {None}
    /\ rehome \in [pc : {"off", "start", "probe"}, cred : Creds \cup {None},
                   todo : SUBSET Keys, move : SUBSET Keys, drop : SUBSET Keys]
    /\ moved \subseteq Keys \X Watches /\ calls \subseteq Keys \X Watches
    /\ keeper \in {"off", "sleep", "idle", "ping"} /\ ended \in BOOLEAN
    /\ wants \subseteq Keys /\ lost \subseteq Keys /\ raced \subseteq Keys /\ unseen \subseteq Keys

Held(k) ==
    \/ \E c \in Creds : kbs[c] # None /\ watch[kbs[c]].pc \in {"run", "strand"} /\ k \in watch[kbs[c]].keys
    \/ \E c \in Creds : k \in stranded[c].keys

\* A subscription that was answered Ok is fed by a registered watch or kept for
\* a re-home until the client unsubscribes or is told it ended (subscribe,
\* strand, drop_watch, rehome), a move onto a watch already stranded apart.
SubscribedIsHeld == ~ ended => \A k \in wants \ (lost \cup raced) : Held(k)

\* No subscription ends without a sign, whatever the moment of the move: "dropping
\* it would lose the subscription with no sign" (rehome's comment).
NoSilentLoss == ~ ended => \A k \in wants \ lost : Held(k)

\* A write of a subscribed key that a stream saw, or that fell into a
\* stranding or a move, has its notice on its way (forward, announce_moved).
WrittenIsTold ==
    ~ ended => \A k \in unseen :
        OnItsWay(k) \/ \E w \in Watches : Sees(w) /\ k \in watch[w].keys /\ k \in watch[w].feed

\* unsubscribe wins over a re-home and over a late strand: no watch feeds a key
\* that was unsubscribed, unless a subscribe of it came after.
UnsubscribeWins ==
    [][\A k \in Keys : (~ Held(k) /\ Held(k)') => \E w \in Watches : <<k, w>> \in calls']_vars

\* While anything is subscribed a keeper runs (ensure_keeper,
\* stand_down_if_idle), so the session is not closed as idle.
KeeperRuns == AnySubscribed /\ ~ ended => keeper # "off"

\* A subscriber hears of every write it should, and the keeper that holds the
\* session open runs while there is a subscription (subscriptions.rs).
SubscribersAreTold == WrittenIsTold /\ KeeperRuns
=============================================================================
