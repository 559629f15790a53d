------------------------------ MODULE MemoryLog ------------------------------
(***************************************************************************)
(* The in-memory event log (notedthat-events/src/memory.rs): a ring of the  *)
(* newest events, a broadcast channel for live ones, and subscriptions that *)
(* read a backlog from the ring and then the channel.                       *)
(*                                                                         *)
(* An entry is known by its id.  Ids are handed out under the ring's lock,  *)
(* so a VecDeque of entries is in id order and is modelled by the set of    *)
(* its ids: its front is the least.                                         *)
(***************************************************************************)
EXTENDS Naturals, Sequences, FiniteSets

CONSTANTS
    Kbs,           \* knowledge bases
    Subs,          \* subscriptions
    Capacity,      \* entries the ring keeps
    ChannelDepth,  \* entries the broadcast channel keeps
    MaxEvents      \* bound on the events published

ASSUME CapacityAssumption == Capacity \in Nat \ {0}
ASSUME ChannelDepthAssumption == ChannelDepth \in Nat \ {0}
ASSUME MaxEventsAssumption == MaxEvents \in Nat

VARIABLES
    log,     \* every event published: id -> knowledge base (ids from 1)
    ring,    \* Ring.buf
    state,   \* subscription -> "off", "open", "lagged" or "gone"
    kb,      \* subscription -> the knowledge base it follows
    backlog, \* Subscription.backlog
    rx,      \* Subscription.rx: id of the next entry it receives
    cursor,  \* Subscription.cursor
    start,   \* cursor when the subscription was made
    got      \* ids it has yielded

logVars == <<log, ring>>
subVars == <<state, kb, backlog, rx, cursor, start, got>>
vars == <<logVars, subVars>>

Latest == Len(log)
NextId == Latest + 1

\* Ring::oldest, the next id when the ring is empty.
Oldest == IF ring = {} THEN NextId ELSE CHOOSE i \in ring : \A j \in ring : i <= j

\* Ring::after.
After(c) == {i \in ring : i > c}

\* What is left of S once its front has been popped down to the ring's capacity.
Newest(S) == {i \in S : Cardinality({j \in S : j >= i}) <= Capacity}

Init ==
    /\ log = <<>>
    /\ ring = {}
    /\ state = [s \in Subs |-> "off"]
    /\ kb \in [Subs -> Kbs]
    /\ backlog = [s \in Subs |-> {}]
    /\ rx = [s \in Subs |-> 1]
    /\ cursor = [s \in Subs |-> 0]
    /\ start = [s \in Subs |-> 0]
    /\ got = [s \in Subs |-> {}]

\* publish, under the ring's lock: the channel takes the entry too.
Publish(k) ==
    /\ Latest < MaxEvents
    /\ log' = Append(log, k)
    /\ ring' = Newest(ring \cup {NextId})
    /\ UNCHANGED subVars

\* subscribe resuming after an id: Gone behind the ring and ahead of it.
Behind(a) == a < Latest /\ a + 1 < Oldest
IsGone(a) == Behind(a) \/ a > Latest

Open(s, k, replay, c) ==
    /\ state' = [state EXCEPT ![s] = "open"]
    /\ kb' = [kb EXCEPT ![s] = k]
    /\ backlog' = [backlog EXCEPT ![s] = replay]
    /\ rx' = [rx EXCEPT ![s] = NextId]
    /\ cursor' = [cursor EXCEPT ![s] = c]
    /\ start' = [start EXCEPT ![s] = c]
    /\ got' = [got EXCEPT ![s] = {}]
    /\ UNCHANGED logVars

Resume(s, k, a) ==
    /\ state[s] # "open"
    /\ ~IsGone(a)
    /\ IF a < Latest THEN Open(s, k, After(a), a) ELSE Open(s, k, {}, Latest)

\* subscribe without a position: from now on.
Attach(s, k) ==
    /\ state[s] # "open"
    /\ Open(s, k, {}, Latest)

Refuse(s, a) ==
    /\ state[s] # "open"
    /\ IsGone(a)
    /\ state' = [state EXCEPT ![s] = "gone"]
    /\ UNCHANGED <<logVars, kb, backlog, rx, cursor, start, got>>

\* Mutant: the events of every knowledge base are yielded.
PassAnyKb(s, i) ==
    IF i <= cursor[s]
    THEN UNCHANGED <<cursor, got>>
    ELSE /\ cursor' = [cursor EXCEPT ![s] = i]
         /\ got' = [got EXCEPT ![s] = @ \cup {i}]

\* The rest of step, for an entry taken from the backlog or the channel.
Pass(s, i) ==
    IF i <= cursor[s]
    THEN UNCHANGED <<cursor, got>>
    ELSE /\ cursor' = [cursor EXCEPT ![s] = i]
         /\ got' = [got EXCEPT ![s] = IF log[i] = kb[s] THEN @ \cup {i} ELSE @]

\* step, from the backlog.
StepBacklog(s) ==
    /\ state[s] = "open"
    /\ \E i \in backlog[s] :
          /\ \A j \in backlog[s] : i <= j
          /\ backlog' = [backlog EXCEPT ![s] = @ \ {i}]
          /\ Pass(s, i)
    /\ UNCHANGED <<logVars, state, kb, rx, start>>

\* The channel has dropped the entry at position i.
Dropped(i) == i + ChannelDepth <= Latest

\* step, from the channel.
StepLive(s) ==
    /\ state[s] = "open"
    /\ backlog[s] = {}
    /\ rx[s] <= Latest
    /\ ~Dropped(rx[s])
    /\ rx' = [rx EXCEPT ![s] = @ + 1]
    /\ Pass(s, rx[s])
    /\ UNCHANGED <<logVars, state, kb, backlog, start>>

\* step, when the channel says Lagged: refill from the ring, or end the stream
\* when the ring has dropped an entry past the cursor.
StepLag(s) ==
    /\ state[s] = "open"
    /\ backlog[s] = {}
    /\ Dropped(rx[s])
    /\ rx' = [rx EXCEPT ![s] = NextId]
    /\ \/ /\ Oldest > cursor[s] + 1
          /\ state' = [state EXCEPT ![s] = "lagged"]
          /\ UNCHANGED backlog
       \/ /\ Oldest <= cursor[s] + 1
          /\ backlog' = [backlog EXCEPT ![s] = After(cursor[s])]
          /\ UNCHANGED state
    /\ UNCHANGED <<logVars, kb, cursor, start, got>>

\* The reader drops the stream.
Close(s) ==
    /\ state[s] = "open"
    /\ state' = [state EXCEPT ![s] = "off"]
    /\ UNCHANGED <<logVars, kb, backlog, rx, cursor, start, got>>

Step(s) == StepBacklog(s) \/ StepLive(s) \/ StepLag(s)

Next ==
    \/ \E k \in Kbs : Publish(k)
    \/ \E s \in Subs :
        \/ \E k \in Kbs : Attach(s, k) \/ \E a \in 0 .. MaxEvents + 1 : Resume(s, k, a)
        \/ \E a \in 0 .. MaxEvents + 1 : Refuse(s, a)
        \/ Step(s)
        \/ Close(s)

Spec == Init /\ [][Next]_vars

\* A reader polls its stream.
FairSpec == Spec /\ \A s \in Subs : WF_vars(Step(s))

-----------------------------------------------------------------------------
(* Properties.                                                             *)

TypeOK ==
    /\ log \in Seq(Kbs)
    /\ ring \in SUBSET (1 .. Latest)
    /\ state \in [Subs -> {"off", "open", "lagged", "gone"}]
    /\ kb \in [Subs -> Kbs]
    /\ backlog \in [Subs -> SUBSET Nat]
    /\ rx \in [Subs -> Nat \ {0}]
    /\ cursor \in [Subs -> Nat]
    /\ start \in [Subs -> Nat]
    /\ got \in [Subs -> SUBSET Nat]

\* Subscription: "so a lag can be refilled from the ring without re-sending or
\* skipping anything".  Whatever was replayed, received live or refilled after a
\* lag, a stream has yielded exactly its knowledge base's events between the
\* position it resumed from and its cursor.
NoGap ==
    \A s \in Subs : state[s] \in {"open", "lagged"} =>
        got[s] = {i \in (start[s] + 1) .. cursor[s] : log[i] = kb[s]}

\* step: a stream is ended as lagged only when the ring really has lost an event
\* after its cursor, so a reader is not sent back for nothing.
LagIsALoss ==
    [][\A s \in Subs : state[s] # "lagged" /\ state'[s] = "lagged" =>
          \E i \in (cursor[s] + 1) .. Latest : i \notin ring]_vars

\* subscribe: a position is refused exactly when resuming from it would miss an
\* event or name an id never handed out.
GoneIsALoss ==
    \A a \in 0 .. MaxEvents + 1 :
        IsGone(a) <=> a > Latest \/ \E i \in (a + 1) .. Latest : i \notin ring

\* What a stream has still to pass is ahead of it: the backlog, then the channel
\* from rx on, without hole or overlap.
NothingSkipped ==
    \A s \in Subs : state[s] = "open" => backlog[s] = (cursor[s] + 1) .. (rx[s] - 1)

\* A polled stream catches up with the log, is told that it lagged, or is closed.
CatchesUp ==
    \A s \in Subs, i \in 1 .. MaxEvents :
        (state[s] = "open" /\ i <= Latest) ~> (state[s] # "open" \/ cursor[s] >= i)
=============================================================================
