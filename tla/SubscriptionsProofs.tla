------------------------ MODULE SubscriptionsProofs ------------------------
(***************************************************************************)
(* Proofs about the resource subscriptions of one MCP session, for all sets *)
(* of keys and credentials and every number of calls, writes and faults.    *)
(***************************************************************************)
EXTENDS Subscriptions, TLAPS

Live == {"run", "strand", "drop"}

\* What a watch holds, by where its forwarder is.
Shape(x) ==
    /\ x.pc = "free" => x = Free
    /\ x.pc \in {"strand", "tell"} => x.link = "refused"
    /\ x.pc = "run" => x.link # "refused"
    /\ x.pc \in Live => x.cred \in Creds
    /\ x.tell # {} => x.pc \in {"drop", "tell"} /\ x.link = "refused"
    /\ x.pc \in {"tell", "done"} => x.keys = {}

\* A watch with keys is the one registered for its credential.
Owned(x, w, r) == x.pc \in {"run", "strand"} /\ x.keys # {} => r[x.cred] = w

\* A registered watch is its credential's, and dropped only after a refusal.
Serves(x, c) == x.pc \in Live /\ x.cred = c /\ (x.pc = "drop" => x.link = "refused")

\* A subscribe that waits is fed by its watch, or will see the refusal.
Awaits(x, k) == x.link = "refused" \/ (x.pc = "run" /\ k \in x.keys)

\* What ties the watches to the register and to the calls that wait for them.
Bound(wt, reg, cs) ==
    /\ \A w \in Watches : Shape(wt[w]) /\ Owned(wt[w], w, reg)
    /\ \A c \in Creds : reg[c] # None => Serves(wt[reg[c]], c)
    /\ \A p \in cs : Awaits(wt[p[2]], p[1])

SubInv ==
    /\ TypeOK
    /\ rehome.pc # "off" => rehome.cred \in Creds
    /\ Bound(watch, kbs, calls)

WatchType ==
    [pc : {"free", "run", "strand", "drop", "tell", "done"}, cred : Creds \cup {None},
     keys : SUBSET Keys, list : BOOLEAN, link : {"connecting", "open", "refused"},
     open : BOOLEAN, id : BOOLEAN, feed : SUBSET Keys, tell : SUBSET Keys]

-----------------------------------------------------------------------------
(* One watch changes.                                                       *)

\* One watch changes, and none is registered or deregistered.
LEMMA OneWatch ==
    ASSUME NEW wt, NEW reg \in [Creds -> Watches \cup {None}], NEW cs \in SUBSET (Keys \X Watches),
           Bound(wt, reg, cs), NEW w \in Watches, NEW wt2,
           \A v \in Watches : v # w => wt2[v] = wt[v],
           Shape(wt2[w]), Owned(wt2[w], w, reg),
           \A c \in Creds : reg[c] = w => Serves(wt2[w], c),
           \A k \in Keys : <<k, w>> \in cs => Awaits(wt2[w], k)
    PROVE  Bound(wt2, reg, cs)
<1>1. \A v \in Watches : Shape(wt2[v]) /\ Owned(wt2[v], v, reg)
  BY Zenon DEF Bound
<1>2. ASSUME NEW c \in Creds, reg[c] # None PROVE Serves(wt2[reg[c]], c)
  BY <1>2, Zenon DEF Bound
<1>3. ASSUME NEW p \in cs PROVE Awaits(wt2[p[2]], p[1])
  <2>1. p = <<p[1], p[2]>> /\ p[1] \in Keys /\ p[2] \in Watches
    OBVIOUS
  <2>2. CASE p[2] = w
    BY <1>3, <2>1, <2>2, Zenon
  <2>3. CASE p[2] # w
    BY <1>3, <2>1, <2>3, Zenon DEF Bound
  <2>4. QED
    BY <2>2, <2>3, Zenon
<1>4. QED
  BY <1>1, <1>2, <1>3, Zenon DEF Bound

LEMMA FreeType == Free \in WatchType
BY Zenon DEF Free, WatchType

LEMMA WatchesTyped ==
    ASSUME TypeOK
    PROVE  /\ watch \in [Watches -> WatchType]
           /\ \A w \in Watches : watch[w] \in WatchType
BY Zenon DEF TypeOK, WatchType

LEMMA SetTyped ==
    ASSUME TypeOK, NEW w \in Watches, NEW x \in WatchType, Set(w, x)
    PROVE  /\ watch' \in [Watches -> WatchType] /\ watch'[w] = x
           /\ \A v \in Watches : v # w => watch'[v] = watch[v]
BY WatchesTyped, Zenon DEF Set

\* What is left of a watch whose forwarder returned.
LEMMA ReturnedTyped ==
    ASSUME TypeOK, NEW w \in Watches, NEW refs
    PROVE  /\ Returned(w, refs) \in WatchType
           /\ Returned(w, refs).pc \in {"free", "done"}
           /\ Returned(w, refs).keys = {} /\ Returned(w, refs).tell = {}
           /\ Returned(w, refs).pc = "free" => Returned(w, refs) = Free
           /\ (\E p \in refs : p[2] = w) => Returned(w, refs).link = watch[w].link
<1>1. watch[w].link \in {"connecting", "open", "refused"}
  BY WatchesTyped, Zenon DEF WatchType
<1>2. CASE \E p \in refs : p[2] = w
  <2> DEFINE x == [Free EXCEPT !.pc = "done", !.link = watch[w].link]
  <2>1. x \in WatchType /\ x.pc = "done" /\ x.keys = {} /\ x.tell = {} /\ x.link = watch[w].link
    BY <1>1, Zenon DEF Free, WatchType
  <2>2. Returned(w, refs) = x
    BY <1>2, Zenon DEF Returned
  <2> HIDE DEF x
  <2>3. QED
    BY <2>1, <2>2, Zenon
<1>3. CASE ~ \E p \in refs : p[2] = w
  <2>1. Returned(w, refs) = Free
    BY <1>3, Zenon DEF Returned
  <2>2. Free.pc = "free" /\ Free.keys = {} /\ Free.tell = {}
    BY Zenon DEF Free
  <2>3. QED
    BY <1>3, <2>1, <2>2, FreeType, Zenon
<1>4. QED
  BY <1>2, <1>3, Zenon

-----------------------------------------------------------------------------
(* Every step keeps the ties.                                               *)

LEMMA TiesHere ==
    ASSUME SubInv
    PROVE  /\ TypeOK /\ Bound(watch, kbs, calls) /\ watch \in [Watches -> WatchType]
           /\ kbs \in [Creds -> Watches \cup {None}] /\ calls \in SUBSET (Keys \X Watches)
           /\ moved \in SUBSET (Keys \X Watches)
           /\ \A w \in Watches : watch[w] \in WatchType /\ Shape(watch[w]) /\ Owned(watch[w], w, kbs)
           /\ \A c \in Creds : kbs[c] # None => kbs[c] \in Watches /\ Serves(watch[kbs[c]], c)
           /\ \A c \in Creds, w \in Watches : kbs[c] = w => Serves(watch[w], c)
           /\ \A k, w : <<k, w>> \in calls => w \in Watches /\ Awaits(watch[w], k)
<1>1. /\ TypeOK /\ Bound(watch, kbs, calls) /\ watch \in [Watches -> WatchType]
      /\ kbs \in [Creds -> Watches \cup {None}] /\ calls \in SUBSET (Keys \X Watches)
      /\ moved \in SUBSET (Keys \X Watches)
  BY WatchesTyped, Zenon DEF SubInv, TypeOK
<1>2. ASSUME NEW k, NEW w, <<k, w>> \in calls PROVE w \in Watches /\ Awaits(watch[w], k)
  <2>1. Awaits(watch[<<k, w>>[2]], <<k, w>>[1])
    BY <1>1, <1>2, Zenon DEF Bound
  <2>2. QED
    BY <1>1, <1>2, <2>1, Zenon
<1>3. \A c \in Creds, w \in Watches : kbs[c] = w => Serves(watch[w], c)
  BY <1>1, NoneIsNothing, Zenon DEF Bound
<1>4. QED
  BY <1>1, <1>2, <1>3, WatchesTyped, Zenon DEF Bound

\* A forwarder that reads its stream.
LEMMA ReadingKeeps ==
    ASSUME SubInv, NEW w \in Watches, Opened(w) \/ PositionGone(w) \/ StreamEnds(w) \/ Frame(w)
    PROVE  /\ watch' \in [Watches -> WatchType] /\ Bound(watch', kbs', calls')
           /\ kbs' = kbs /\ calls' = calls /\ stranded' = stranded /\ moved' = moved
           /\ \A v \in Watches : v # w => watch'[v] = watch[v]
           /\ watch[w].pc = "run" /\ watch'[w].pc = "run"
           /\ watch'[w].keys = watch[w].keys /\ watch'[w].tell = watch[w].tell
<1>0. /\ watch[w] \in WatchType /\ watch[w].pc = "run" /\ kbs' = kbs /\ calls' = calls
      /\ stranded' = stranded /\ moved' = moved
  BY TiesHere, Zenon DEF Opened, PositionGone, StreamEnds, Frame, Forwards, session
<1>1. PICK x \in WatchType :
          /\ Set(w, x) /\ x.pc = "run" /\ x.cred = watch[w].cred /\ x.keys = watch[w].keys
          /\ x.tell = watch[w].tell /\ x.link \in {watch[w].link, "open"}
  <2>1. CASE Opened(w)
    <3> DEFINE x == [watch[w] EXCEPT !.link = "open", !.open = TRUE]
    <3>1. x \in WatchType /\ x.pc = "run" /\ x.cred = watch[w].cred /\ x.keys = watch[w].keys
          /\ x.tell = watch[w].tell /\ x.link = "open"
      BY <1>0, Zenon DEF WatchType
    <3>2. Set(w, x)
      BY <2>1, Zenon DEF Opened
    <3>3. QED
      BY <3>1, <3>2, Zenon
  <2>2. CASE PositionGone(w)
    <3> DEFINE x == [watch[w] EXCEPT !.id = FALSE, !.feed = {}]
    <3>1. x \in WatchType /\ x.pc = "run" /\ x.cred = watch[w].cred /\ x.keys = watch[w].keys
          /\ x.tell = watch[w].tell /\ x.link = watch[w].link
      BY <1>0, Zenon DEF WatchType
    <3>2. Set(w, x)
      BY <2>2, Zenon DEF PositionGone
    <3>3. QED
      BY <3>1, <3>2, Zenon
  <2>3. CASE StreamEnds(w)
    <3> DEFINE kept == IF watch[w].id THEN watch[w].feed ELSE {}
               x == [watch[w] EXCEPT !.open = FALSE, !.feed = kept]
    <3>1. x \in WatchType /\ x.pc = "run" /\ x.cred = watch[w].cred /\ x.keys = watch[w].keys
          /\ x.tell = watch[w].tell /\ x.link = watch[w].link
      BY <1>0, Zenon DEF WatchType
    <3>2. Set(w, x)
      BY <2>3, Zenon DEF StreamEnds
    <3>3. QED
      BY <3>1, <3>2, Zenon
  <2>4. CASE Frame(w)
    <3>1. PICK k : Set(w, [watch[w] EXCEPT !.id = TRUE, !.feed = @ \ {k}])
      BY <2>4, Zenon DEF Frame
    <3> DEFINE x == [watch[w] EXCEPT !.id = TRUE, !.feed = @ \ {k}]
    <3>2. x \in WatchType /\ x.pc = "run" /\ x.cred = watch[w].cred /\ x.keys = watch[w].keys
          /\ x.tell = watch[w].tell /\ x.link = watch[w].link
      BY <1>0, Zenon DEF WatchType
    <3>3. QED
      BY <3>1, <3>2, Zenon
  <2>5. QED
    BY <2>1, <2>2, <2>3, <2>4, Zenon
<1>2. /\ watch' \in [Watches -> WatchType] /\ watch'[w] = x
      /\ \A v \in Watches : v # w => watch'[v] = watch[v]
  BY <1>1, SetTyped, TiesHere, Zenon
<1>3. Shape(watch[w]) /\ Owned(watch[w], w, kbs)
  BY TiesHere, Zenon
<1>4. Shape(x) /\ Owned(x, w, kbs)
  BY <1>0, <1>1, <1>3, Zenon DEF Shape, Owned, Live
<1>5. \A c \in Creds : kbs[c] = w => Serves(x, c)
  BY <1>0, <1>1, TiesHere, Zenon DEF Serves, Live
<1>6. \A k \in Keys : <<k, w>> \in calls => Awaits(x, k)
  BY <1>0, <1>1, <1>3, TiesHere, Zenon DEF Awaits, Shape
<1>7. Bound(watch', kbs, calls)
  BY <1>2, <1>4, <1>5, <1>6, OneWatch, TiesHere, Zenon
<1>8. QED
  BY <1>0, <1>1, <1>2, <1>7, Zenon

\* A forwarder that is refused, and one that strands what it fed.
LEMMA RefusedKeeps ==
    ASSUME SubInv, NEW w \in Watches, Refuse(w) \/ Strand(w)
    PROVE  /\ watch' \in [Watches -> WatchType] /\ Bound(watch', kbs', calls')
           /\ kbs' = kbs /\ calls' = calls /\ moved' = moved
           /\ \A v \in Watches : v # w => watch'[v] = watch[v]
           /\ watch'[w].keys = watch[w].keys
           /\ Refuse(w) => watch[w].pc = "run" /\ watch'[w].pc = "strand"
                           /\ watch'[w].tell = watch[w].tell
           /\ Strand(w) => watch[w].pc = "strand" /\ watch'[w].pc = "drop"
                           /\ watch'[w].tell = watch[w].keys
<1>0. watch[w] \in WatchType /\ kbs' = kbs /\ calls' = calls /\ moved' = moved
  BY TiesHere, Zenon DEF Refuse, Strand, session
<1>1. PICK x \in WatchType :
          /\ Set(w, x) /\ x.cred = watch[w].cred /\ x.keys = watch[w].keys
          /\ Refuse(w) => /\ watch[w].pc = "run" /\ x.pc = "strand" /\ x.tell = watch[w].tell
                          /\ x.link = "refused"
          /\ Strand(w) => /\ watch[w].pc = "strand" /\ x.pc = "drop" /\ x.tell = watch[w].keys
                          /\ x.link = watch[w].link
  <2>0. ~ (Refuse(w) /\ Strand(w))
    BY Zenon DEF Refuse, Strand, Forwards
  <2>1. CASE Refuse(w)
    <3> DEFINE x == [watch[w] EXCEPT !.link = "refused", !.pc = "strand"]
    <3>1. /\ x \in WatchType /\ x.pc = "strand" /\ x.cred = watch[w].cred /\ x.keys = watch[w].keys
          /\ x.tell = watch[w].tell /\ x.link = "refused"
      BY <1>0, Zenon DEF WatchType
    <3>2. Set(w, x) /\ watch[w].pc = "run"
      BY <2>1, Zenon DEF Refuse, Forwards
    <3>3. QED
      BY <2>0, <2>1, <3>1, <3>2, Zenon
  <2>2. CASE Strand(w)
    <3> DEFINE x == [watch[w] EXCEPT !.pc = "drop", !.tell = watch[w].keys]
    <3>1. /\ x \in WatchType /\ x.pc = "drop" /\ x.cred = watch[w].cred /\ x.keys = watch[w].keys
          /\ x.tell = watch[w].keys /\ x.link = watch[w].link
      BY <1>0, Zenon DEF WatchType
    <3>2. Set(w, x) /\ watch[w].pc = "strand"
      BY <2>2, Zenon DEF Strand
    <3>3. QED
      BY <2>0, <2>2, <3>1, <3>2, Zenon
  <2>3. QED
    BY <2>1, <2>2, Zenon
<1>2. /\ watch' \in [Watches -> WatchType] /\ watch'[w] = x
      /\ \A v \in Watches : v # w => watch'[v] = watch[v]
  BY <1>1, SetTyped, TiesHere, Zenon
<1>3. Shape(watch[w]) /\ Owned(watch[w], w, kbs)
  BY TiesHere, Zenon
<1>4. x.link = "refused" /\ x.pc \in {"strand", "drop"} /\ watch[w].pc \in {"run", "strand"}
  BY <1>1, <1>3, Zenon DEF Shape
<1>5. Shape(x) /\ Owned(x, w, kbs)
  BY <1>1, <1>3, <1>4, Zenon DEF Shape, Owned, Live
<1>6. \A c \in Creds : kbs[c] = w => Serves(x, c)
  BY <1>1, <1>4, TiesHere, Zenon DEF Serves, Live
<1>7. \A k \in Keys : <<k, w>> \in calls => Awaits(x, k)
  BY <1>4, Zenon DEF Awaits
<1>8. Bound(watch', kbs, calls)
  BY <1>2, <1>5, <1>6, <1>7, OneWatch, TiesHere, Zenon
<1>9. QED
  BY <1>0, <1>1, <1>2, <1>8, Zenon

\* drop_watch takes the watch off the register, and what it still has to tell stays.
LEMMA DroppedKeeps ==
    ASSUME SubInv, NEW w \in Watches, DropWatch(w)
    PROVE  /\ watch' \in [Watches -> WatchType] /\ Bound(watch', kbs', calls')
           /\ kbs' \in [Creds -> Watches \cup {None}]
           /\ \A c \in Creds : kbs'[c] = IF kbs[c] = w THEN None ELSE kbs[c]
           /\ \A v \in Watches : v # w => watch'[v] = watch[v]
           /\ watch[w].pc = "drop" /\ watch'[w].pc \in {"tell", "done", "free"}
           /\ watch'[w].tell = watch[w].tell /\ watch'[w].keys = {}
<1>0. /\ watch[w] \in WatchType /\ watch[w].pc = "drop" /\ calls' = calls
      /\ Shape(watch[w])
  BY TiesHere, Zenon DEF DropWatch
<1> DEFINE y == [Free EXCEPT !.pc = "tell", !.link = "refused", !.tell = watch[w].tell]
           z == Returned(w, moved \cup calls)
           x == IF watch[w].link = "refused" THEN y ELSE z
<1>1. /\ y \in WatchType /\ y.pc = "tell" /\ y.link = "refused" /\ y.keys = {}
      /\ y.tell = watch[w].tell
  BY <1>0, Zenon DEF WatchType, Free
<1>2. /\ z \in WatchType /\ z.pc \in {"free", "done"} /\ z.keys = {} /\ z.tell = {}
      /\ z.pc = "free" => z = Free
  BY ReturnedTyped, TiesHere, Zenon
<1>3. watch[w].link # "refused" => watch[w].tell = {}
  BY <1>0, Zenon DEF Shape
<1>4. Set(w, x)
  BY Zenon DEF DropWatch
<1> HIDE DEF y, z
<1>5. x \in WatchType /\ Shape(x) /\ x.pc \in {"tell", "done", "free"} /\ x.keys = {}
      /\ x.tell = watch[w].tell /\ (watch[w].link = "refused" => x.link = "refused")
  BY <1>1, <1>2, <1>3, Zenon DEF Shape, Live
<1> HIDE DEF x
<1>6. /\ watch' \in [Watches -> WatchType] /\ watch'[w] = x
      /\ \A v \in Watches : v # w => watch'[v] = watch[v]
  BY <1>4, <1>5, SetTyped, TiesHere, Zenon
<1>7. /\ kbs' \in [Creds -> Watches \cup {None}]
      /\ \A c \in Creds : kbs'[c] = IF kbs[c] = w THEN None ELSE kbs[c]
  BY TiesHere, Zenon DEF DropWatch
<1>8. ASSUME NEW v \in Watches PROVE Shape(watch'[v]) /\ Owned(watch'[v], v, kbs')
  <2>1. CASE v = w
    BY <1>5, <1>6, <2>1, Zenon DEF Owned
  <2>2. CASE v # w
    <3>1. Shape(watch[v]) /\ Owned(watch[v], v, kbs) /\ watch'[v] = watch[v]
      BY <1>6, <2>2, TiesHere, Zenon
    <3>2. watch[v].pc \in {"run", "strand"} => watch[v].cred \in Creds
      BY <3>1, Zenon DEF Shape, Live
    <3>3. QED
      BY <1>7, <2>2, <3>1, <3>2, Zenon DEF Owned
  <2>3. QED
    BY <2>1, <2>2, Zenon
<1>9. ASSUME NEW c \in Creds, kbs'[c] # None PROVE Serves(watch'[kbs'[c]], c)
  BY <1>6, <1>7, <1>9, TiesHere, Zenon
<1>10. ASSUME NEW p \in calls PROVE Awaits(watch'[p[2]], p[1])
  <2>1. p[2] \in Watches /\ Awaits(watch[p[2]], p[1])
    BY TiesHere, Zenon DEF Bound
  <2>2. QED
    BY <1>0, <1>5, <1>6, <2>1, Zenon DEF Awaits
<1>11. QED
  BY <1>0, <1>5, <1>6, <1>7, <1>8, <1>9, <1>10, Zenon DEF Bound

\* A forwarder returned, or the last one to wait for its link has seen it.
LEMMA ReleasedKeeps ==
    ASSUME SubInv, NEW w \in Watches, NEW refs, NEW cs \in SUBSET calls,
           \A k : <<k, w>> \in cs => <<k, w>> \in refs,
           \/ watch[w].pc \in {"tell", "done"} /\ Set(w, Returned(w, refs))
           \/ watch' = watch
    PROVE  /\ watch' \in [Watches -> WatchType] /\ Bound(watch', kbs, cs)
           /\ \A v \in Watches : v # w => watch'[v] = watch[v]
           /\ \/ watch' = watch
              \/ /\ watch[w].pc \in {"tell", "done"} /\ watch'[w].pc \in {"free", "done"}
                 /\ watch'[w].keys = {} /\ watch'[w].tell = {}
<1>0. Bound(watch, kbs, cs) /\ cs \in SUBSET (Keys \X Watches)
  BY TiesHere, Zenon DEF Bound
<1>1. CASE watch' = watch
  BY <1>0, <1>1, TiesHere, Zenon
<1>2. CASE watch[w].pc \in {"tell", "done"} /\ Set(w, Returned(w, refs))
  <2> DEFINE x == Returned(w, refs)
  <2>1. /\ x \in WatchType /\ x.pc \in {"free", "done"} /\ x.keys = {} /\ x.tell = {}
        /\ x.pc = "free" => x = Free
        /\ (\E p \in refs : p[2] = w) => x.link = watch[w].link
    BY ReturnedTyped, TiesHere, Zenon
  <2>2. Set(w, x)
    BY <1>2, Zenon
  <2> HIDE DEF x
  <2>3. /\ watch' \in [Watches -> WatchType] /\ watch'[w] = x
        /\ \A v \in Watches : v # w => watch'[v] = watch[v]
    BY <2>1, <2>2, SetTyped, TiesHere, Zenon
  <2>4. Shape(x) /\ Owned(x, w, kbs)
    BY <2>1, Zenon DEF Shape, Owned, Live
  <2>5. \A c \in Creds : kbs[c] # w
    BY <1>2, TiesHere, Zenon DEF Serves, Live
  <2>6. ASSUME NEW k \in Keys, <<k, w>> \in cs PROVE Awaits(x, k)
    <3>1. <<k, w>> \in refs /\ <<k, w>>[2] = w
      BY <2>6, Zenon
    <3>2. x.link = watch[w].link
      BY <2>1, <3>1, Zenon
    <3>3. Awaits(watch[w], k)
      BY <2>6, TiesHere, Zenon
    <3>4. QED
      BY <1>2, <3>2, <3>3, Zenon DEF Awaits
  <2>7. Bound(watch', kbs, cs)
    BY <1>0, <2>3, <2>4, <2>5, <2>6, OneWatch, TiesHere, Zenon
  <2>8. QED
    BY <1>2, <2>1, <2>3, <2>7, Zenon
<1>3. QED
  BY <1>1, <1>2, Zenon

\* ensure_watch and what the watch takes.
LEMMA TakenKeeps ==
    ASSUME SubInv, NEW c \in Creds, NEW ks \in SUBSET Keys,
           \E list \in BOOLEAN : Take(c, ks, list)
    PROVE  /\ WatchOf(c) \in Watches
           /\ watch' \in [Watches -> WatchType] /\ Bound(watch', kbs', calls)
           /\ kbs' \in [Creds -> Watches \cup {None}] /\ kbs'[c] = WatchOf(c)
           /\ \A d \in Creds : d # c => kbs'[d] = kbs[d]
           /\ \A v \in Watches : v # WatchOf(c) => watch'[v] = watch[v]
           /\ watch'[WatchOf(c)].pc = "run" \/ watch'[WatchOf(c)].link = "refused"
           /\ watch'[WatchOf(c)].keys = watch[WatchOf(c)].keys \cup ks
           /\ watch'[WatchOf(c)].tell = watch[WatchOf(c)].tell
           /\ kbs[c] # None =>
                /\ Joins(c) /\ kbs[c] = WatchOf(c)
                /\ watch'[WatchOf(c)].pc = watch[WatchOf(c)].pc
                /\ watch'[WatchOf(c)].open = watch[WatchOf(c)].open
                /\ watch'[WatchOf(c)].id = watch[WatchOf(c)].id
                /\ watch'[WatchOf(c)].feed = watch[WatchOf(c)].feed
           /\ kbs[c] = None =>
                ~ Joins(c) /\ watch[WatchOf(c)] = Free /\ watch'[WatchOf(c)].pc = "run"
<1>t. PICK list \in BOOLEAN : Take(c, ks, list)
  BY Zenon
<1> DEFINE w == WatchOf(c)
           fresh == [Free EXCEPT !.pc = "run", !.cred = c]
           old == IF Joins(c) THEN watch[w] ELSE fresh
           x == [old EXCEPT !.keys = @ \cup ks, !.list = @ \/ list]
<1>0. /\ CanEnsure(c) /\ watch' = [watch EXCEPT ![w] = x] /\ kbs' = [kbs EXCEPT ![c] = w]
  BY <1>t, Zenon DEF Take
<1>1. Joins(c) <=> kbs[c] # None
  BY TiesHere, Zenon DEF Joins, Usable, Serves, Live
<1>2. /\ fresh \in WatchType /\ fresh.pc = "run" /\ fresh.cred = c /\ fresh.keys = {}
      /\ fresh.tell = {} /\ fresh.link = "connecting"
  BY Zenon DEF Free, WatchType
<1>3. /\ w \in Watches
      /\ kbs[c] # None => w = kbs[c] /\ Serves(watch[w], c) /\ old = watch[w]
      /\ kbs[c] = None => watch[w] = Free /\ old = fresh
  <2>1. CASE kbs[c] # None
    BY <1>1, <2>1, TiesHere, Zenon DEF WatchOf
  <2>2. CASE kbs[c] = None
    <3>1. ~ Joins(c) /\ \E v \in Watches : watch[v].pc = "free"
      BY <1>0, <1>1, <2>2, Zenon DEF CanEnsure
    <3>2. w \in Watches /\ watch[w].pc = "free"
      BY <3>1, Zenon DEF WatchOf
    <3>3. watch[w] = Free
      BY <3>2, TiesHere, Zenon DEF Shape
    <3>4. QED
      BY <2>2, <3>1, <3>2, <3>3, Zenon
  <2>3. QED
    BY <2>1, <2>2, Zenon
<1> HIDE DEF w, fresh
<1>4. old \in WatchType /\ old.cred = c /\ Shape(old)
      /\ (old.pc = "run" \/ old.link = "refused") /\ old.pc \in Live
  <2>1. CASE kbs[c] # None
    BY <1>3, <2>1, TiesHere DEF Serves, Shape, Live
  <2>2. CASE kbs[c] = None
    BY <1>2, <1>3, <2>2, Zenon DEF Shape, Live
  <2>3. QED
    BY <2>1, <2>2, Zenon
<1> HIDE DEF old
<1>5. /\ x \in WatchType /\ x.pc = old.pc /\ x.cred = c /\ x.keys = old.keys \cup ks
      /\ x.tell = old.tell /\ x.link = old.link /\ x.open = old.open /\ x.id = old.id
      /\ x.feed = old.feed
  BY <1>4, Zenon DEF WatchType
<1> HIDE DEF x
<1>6. /\ watch' \in [Watches -> WatchType] /\ watch'[w] = x
      /\ \A v \in Watches : v # w => watch'[v] = watch[v]
  BY <1>0, <1>3, <1>5, TiesHere, Zenon
<1>7. /\ kbs' \in [Creds -> Watches \cup {None}] /\ kbs'[c] = w
      /\ \A d \in Creds : d # c => kbs'[d] = kbs[d]
  BY <1>0, <1>3, TiesHere, Zenon
<1>8. ASSUME NEW v \in Watches PROVE Shape(watch'[v]) /\ Owned(watch'[v], v, kbs')
  <2>1. CASE v = w
    BY <1>4, <1>5, <1>6, <1>7, <2>1, Zenon DEF Shape, Owned, Live
  <2>2. CASE v # w
    <3>1. Shape(watch[v]) /\ Owned(watch[v], v, kbs) /\ watch'[v] = watch[v]
      BY <1>6, <2>2, TiesHere, Zenon
    <3>2. watch[v].pc \in {"run", "strand"} => watch[v].cred \in Creds
      BY <3>1, Zenon DEF Shape, Live
    <3>3. kbs[c] # v
      BY <1>3, <2>2, NoneIsNothing, Zenon
    <3>4. QED
      BY <1>7, <3>1, <3>2, <3>3, Zenon DEF Owned
  <2>3. QED
    BY <2>1, <2>2, Zenon
<1>9. ASSUME NEW d \in Creds, kbs'[d] # None PROVE Serves(watch'[kbs'[d]], d)
  <2>1. CASE d = c
    BY <1>4, <1>5, <1>6, <1>7, <2>1, Zenon DEF Serves, Shape, Live
  <2>2. CASE d # c
    <3>1. kbs'[d] = kbs[d] /\ kbs[d] \in Watches /\ Serves(watch[kbs[d]], d)
      BY <1>7, <1>9, <2>2, TiesHere, Zenon
    <3>2. kbs[d] # w
      <4>1. CASE kbs[c] # None
        BY <1>3, <2>2, <3>1, <4>1, Zenon DEF Serves
      <4>2. CASE kbs[c] = None
        BY <1>3, <3>1, <4>2 DEF Serves, Live, Free
      <4>3. QED
        BY <4>1, <4>2, Zenon
    <3>3. QED
      BY <1>6, <3>1, <3>2, Zenon
  <2>3. QED
    BY <2>1, <2>2, Zenon
<1>10. ASSUME NEW p \in calls PROVE Awaits(watch'[p[2]], p[1])
  <2>1. p[2] \in Watches /\ Awaits(watch[p[2]], p[1])
    BY TiesHere, Zenon DEF Bound
  <2>2. CASE p[2] # w
    BY <1>6, <2>1, <2>2, Zenon
  <2>3. CASE p[2] = w /\ kbs[c] # None
    BY <1>3, <1>5, <1>6, <2>1, <2>3, Zenon DEF Awaits
  <2>4. CASE p[2] = w /\ kbs[c] = None
    BY <1>3, <2>1, <2>4 DEF Awaits, Free
  <2>5. QED
    BY <2>2, <2>3, <2>4, Zenon
<1>11. Bound(watch', kbs', calls)
  BY <1>8, <1>9, <1>10, Zenon DEF Bound
<1>12. /\ x.keys = watch[w].keys \cup ks /\ x.tell = watch[w].tell
       /\ kbs[c] # None => x.pc = watch[w].pc /\ x.open = watch[w].open /\ x.id = watch[w].id
                           /\ x.feed = watch[w].feed
       /\ kbs[c] = None => x.pc = "run"
  <2>1. CASE kbs[c] # None
    BY <1>3, <1>5, <2>1, Zenon
  <2>2. CASE kbs[c] = None
    BY <1>2, <1>3, <1>5, <2>2, SMTT(30) DEF Free
  <2>3. QED
    BY <2>1, <2>2, Zenon
<1>13. x.pc = "run" \/ x.link = "refused"
  BY <1>4, <1>5, Zenon
<1>14. QED
  BY <1>1, <1>3, <1>6, <1>7, <1>11, <1>12, <1>13, Zenon DEF w

\* unsubscribe takes the key from every registered watch.
Wanted(x, k) == x.list \/ x.keys \ {k} # {}

LEMMA UnsubscribedKeeps ==
    ASSUME SubInv, NEW c \in Creds, NEW k \in Keys, Unsubscribe(c, k)
    PROVE  /\ watch' \in [Watches -> WatchType] /\ Bound(watch', kbs', calls')
           /\ kbs' \in [Creds -> Watches \cup {None}]
           /\ \A d \in Creds : kbs'[d] = IF kbs[d] # None /\ Wanted(watch[kbs[d]], k) THEN kbs[d]
                                         ELSE None
           /\ \A v \in Watches :
                /\ watch'[v].keys \subseteq watch[v].keys /\ watch[v].keys \ {k} \subseteq watch'[v].keys
                /\ watch'[v].tell = watch[v].tell /\ watch'[v].open = watch[v].open
                /\ watch'[v].id = watch[v].id /\ watch'[v].feed = watch[v].feed
                /\ watch[v].keys \ {k} # {} => watch'[v].pc = watch[v].pc
                /\ watch'[v].pc = "run" => watch[v].pc = "run"
                /\ watch'[v].pc = "strand" <=> watch[v].pc = "strand"
           /\ \A d \in Creds : kbs[d] # None => k \notin watch'[kbs[d]].keys
<1> DEFINE registered == {kbs[d] : d \in Creds} \ {None}
           new(v) == [watch[v] EXCEPT !.keys = @ \ {k},
                         !.pc = IF @ = "run" /\ ~ Wanted(watch[v], k) THEN "drop" ELSE @]
<1>1. /\ kbs' = [d \in Creds |-> IF kbs[d] # None /\ Wanted(watch[kbs[d]], k) THEN kbs[d] ELSE None]
      /\ watch' = [v \in Watches |-> IF v \notin registered THEN watch[v] ELSE new(v)]
      /\ \A p \in calls : p[1] # k
      /\ calls' = calls
  BY Zenon DEF Unsubscribe, Wanted
<1>2. ASSUME NEW v \in Watches
      PROVE  /\ new(v) \in WatchType /\ new(v).cred = watch[v].cred /\ new(v).link = watch[v].link
             /\ new(v).tell = watch[v].tell /\ new(v).open = watch[v].open
             /\ new(v).id = watch[v].id /\ new(v).feed = watch[v].feed
             /\ new(v).keys = watch[v].keys \ {k}
             /\ new(v).pc = IF watch[v].pc = "run" /\ ~ Wanted(watch[v], k) THEN "drop" ELSE watch[v].pc
  <2>1. watch[v] \in WatchType
    BY TiesHere, Zenon
  <2>2. QED
    BY <2>1, Zenon DEF WatchType
<1> HIDE DEF new
<1>3. /\ watch' \in [Watches -> WatchType]
      /\ \A v \in Watches : watch'[v] = IF v \in registered THEN new(v) ELSE watch[v]
  BY <1>1, <1>2, TiesHere, Zenon
<1>4. /\ kbs' \in [Creds -> Watches \cup {None}]
      /\ \A d \in Creds : kbs'[d] = IF kbs[d] # None /\ Wanted(watch[kbs[d]], k) THEN kbs[d] ELSE None
  BY <1>1, TiesHere, Zenon
<1>5. \A d \in Creds, v \in Watches : kbs[d] = v => v \in registered
  BY NoneIsNothing, Zenon
<1>6. \A v \in Watches : v \in registered => watch[v].pc \in Live
  BY TiesHere DEF Serves
<1> HIDE DEF registered
<1>7. ASSUME NEW v \in Watches PROVE Shape(watch'[v]) /\ Owned(watch'[v], v, kbs')
  <2>1. Shape(watch[v]) /\ Owned(watch[v], v, kbs)
    BY TiesHere, Zenon
  <2>2. watch[v].pc \in {"run", "strand"} => watch[v].cred \in Creds
    BY <2>1, Zenon DEF Shape, Live
  <2>3. CASE v \in registered
    <3>1. watch'[v] = new(v)
      BY <1>3, <2>3, Zenon
    <3>2. Shape(new(v))
      BY <1>2, <1>6, <2>1, <2>3, Zenon DEF Shape, Live
    <3>3. ASSUME new(v).pc \in {"run", "strand"}, new(v).keys # {} PROVE kbs'[new(v).cred] = v
      <4>1. watch[v].pc \in {"run", "strand"} /\ watch[v].keys \ {k} # {}
        BY <1>2, <3>3, Zenon
      <4>2. kbs[watch[v].cred] = v /\ watch[v].cred \in Creds /\ Wanted(watch[v], k)
        BY <2>1, <2>2, <4>1, Zenon DEF Owned, Wanted
      <4>3. QED
        BY <1>2, <1>4, <4>2, NoneIsNothing
    <3>4. QED
      BY <3>1, <3>2, <3>3, Zenon DEF Owned
  <2>4. CASE v \notin registered
    BY <1>3, <1>5, <2>1, <2>2, <2>4, Zenon DEF Owned
  <2>5. QED
    BY <2>3, <2>4, Zenon
<1>8. ASSUME NEW d \in Creds, kbs'[d] # None PROVE Serves(watch'[kbs'[d]], d)
  <2>1. kbs[d] \in Watches /\ kbs'[d] = kbs[d] /\ Wanted(watch[kbs[d]], k) /\ Serves(watch[kbs[d]], d)
    BY <1>4, <1>8, TiesHere, Zenon
  <2>2. watch'[kbs[d]] = new(kbs[d])
    BY <1>3, <1>5, <2>1, Zenon
  <2>3. QED
    BY <1>2, <2>1, <2>2 DEF Serves
<1>9. ASSUME NEW p \in calls PROVE Awaits(watch'[p[2]], p[1])
  <2>1. p[2] \in Watches /\ Awaits(watch[p[2]], p[1]) /\ p[1] # k
    BY <1>1, TiesHere, Zenon DEF Bound
  <2>2. QED
    BY <1>2, <1>3, <2>1, Zenon DEF Awaits, Wanted
<1>10. ASSUME NEW v \in Watches
       PROVE  /\ watch'[v].keys \subseteq watch[v].keys /\ watch[v].keys \ {k} \subseteq watch'[v].keys
              /\ watch'[v].tell = watch[v].tell /\ watch'[v].open = watch[v].open
              /\ watch'[v].id = watch[v].id /\ watch'[v].feed = watch[v].feed
              /\ watch[v].keys \ {k} # {} => watch'[v].pc = watch[v].pc
              /\ watch'[v].pc = "run" => watch[v].pc = "run"
              /\ watch'[v].pc = "strand" <=> watch[v].pc = "strand"
  BY <1>2, <1>3, Zenon DEF Wanted
<1>11. ASSUME NEW d \in Creds, kbs[d] # None PROVE k \notin watch'[kbs[d]].keys
  BY <1>2, <1>3, <1>5, <1>11, TiesHere
<1>12. QED
  BY <1>1, <1>3, <1>4, <1>7, <1>8, <1>9, <1>10, <1>11, Zenon DEF Bound

\* A write reaches the streams that see it.
LEMMA WriteKeeps ==
    ASSUME SubInv, NEW k \in Keys, Write(k)
    PROVE  /\ watch' \in [Watches -> WatchType] /\ Bound(watch', kbs', calls')
           /\ kbs' = kbs /\ calls' = calls /\ stranded' = stranded /\ moved' = moved
           /\ \A v \in Watches :
                /\ watch'[v].pc = watch[v].pc /\ watch'[v].keys = watch[v].keys
                /\ watch'[v].tell = watch[v].tell /\ watch'[v].open = watch[v].open
                /\ watch'[v].id = watch[v].id /\ watch[v].feed \subseteq watch'[v].feed
                /\ Sees(v) => k \in watch'[v].feed
<1> DEFINE new(v) == [watch[v] EXCEPT !.feed = @ \cup {k}]
<1>0. kbs' = kbs /\ calls' = calls /\ stranded' = stranded /\ moved' = moved
  BY Zenon DEF Write, session
<1>1. watch' = [v \in Watches |-> IF Sees(v) THEN new(v) ELSE watch[v]]
  BY Zenon DEF Write
<1>2. ASSUME NEW v \in Watches
      PROVE  /\ new(v) \in WatchType /\ new(v).cred = watch[v].cred /\ new(v).link = watch[v].link
             /\ new(v).tell = watch[v].tell /\ new(v).open = watch[v].open
             /\ new(v).id = watch[v].id /\ new(v).feed = watch[v].feed \cup {k}
             /\ new(v).keys = watch[v].keys /\ new(v).pc = watch[v].pc
  <2>1. watch[v] \in WatchType
    BY TiesHere, Zenon
  <2>2. QED
    BY <2>1, Zenon DEF WatchType
<1> HIDE DEF new
<1>3. /\ watch' \in [Watches -> WatchType]
      /\ \A v \in Watches : watch'[v] = IF Sees(v) THEN new(v) ELSE watch[v]
  BY <1>1, <1>2, TiesHere, Zenon
<1>4. ASSUME NEW v \in Watches
      PROVE  /\ watch'[v].pc = watch[v].pc /\ watch'[v].keys = watch[v].keys
             /\ watch'[v].tell = watch[v].tell /\ watch'[v].open = watch[v].open
             /\ watch'[v].id = watch[v].id /\ watch[v].feed \subseteq watch'[v].feed
             /\ Sees(v) => k \in watch'[v].feed
             /\ watch'[v].cred = watch[v].cred /\ watch'[v].link = watch[v].link
             /\ watch'[v].pc = "free" => watch'[v] = watch[v]
  BY <1>2, <1>3, Zenon DEF Sees
<1>5. ASSUME NEW v \in Watches PROVE Shape(watch'[v]) /\ Owned(watch'[v], v, kbs)
  <2>1. Shape(watch[v]) /\ Owned(watch[v], v, kbs)
    BY TiesHere, Zenon
  <2>2. QED
    BY <1>4, <2>1 DEF Shape, Owned
<1>6. ASSUME NEW d \in Creds, kbs[d] # None PROVE Serves(watch'[kbs[d]], d)
  BY <1>4, <1>6, TiesHere DEF Serves
<1>7. ASSUME NEW p \in calls PROVE Awaits(watch'[p[2]], p[1])
  <2>1. p[2] \in Watches /\ Awaits(watch[p[2]], p[1])
    BY TiesHere, Zenon DEF Bound
  <2>2. QED
    BY <1>4, <2>1, Zenon DEF Awaits
<1>8. QED
  BY <1>0, <1>3, <1>4, <1>5, <1>6, <1>7, Zenon DEF Bound

RehomeType == [pc : {"off", "start", "probe"}, cred : Creds \cup {None},
               todo : SUBSET Keys, move : SUBSET Keys, drop : SUBSET Keys]
Rehomes(r) == r \in RehomeType /\ (r.pc # "off" => r.cred \in Creds)

LEMMA RehomesFirst == Rehomes(NoRehome) /\ NoRehome.pc = "off"
BY Zenon DEF Rehomes, RehomeType, NoRehome

LEMMA RehomesNext ==
    ASSUME NEW s, NEW c \in Creds \cup {None}, NEW r, Rehomes(r), NEW kept
    PROVE  Rehomes(RehomeUnlessJustTried(s, c, r, kept))
<1> DEFINE x == [NoRehome EXCEPT !.pc = "start", !.cred = c]
<1>1. c # None => Rehomes(x)
  BY Zenon DEF Rehomes, RehomeType, NoRehome
<1>2. RehomeUnlessJustTried(s, c, r, kept) = r
      \/ (c # None /\ RehomeUnlessJustTried(s, c, r, kept) = x)
  BY Zenon DEF RehomeUnlessJustTried
<1> HIDE DEF x
<1>3. QED
  BY <1>1, <1>2, Zenon

\* The variables beside the watches and the register.
Kept ==
    /\ stranded \in [Creds -> [keys : SUBSET Keys, list : BOOLEAN]]
    /\ latest \in Creds \cup {None}
    /\ Rehomes(rehome)
    /\ moved \in SUBSET (Keys \X Watches) /\ calls \in SUBSET (Keys \X Watches)
    /\ keeper \in {"off", "sleep", "idle", "ping"} /\ ended \in BOOLEAN
    /\ wants \in SUBSET Keys /\ lost \in SUBSET Keys /\ raced \in SUBSET Keys
    /\ unseen \in SUBSET Keys

LEMMA KeptHere ==
    ASSUME SubInv
    PROVE  Kept
BY Zenon DEF SubInv, TypeOK, Kept, Rehomes, RehomeType

LEMMA SubInvFrom ==
    ASSUME watch' \in [Watches -> WatchType], kbs' \in [Creds -> Watches \cup {None}],
           Bound(watch', kbs', calls'), Kept'
    PROVE  SubInv'
BY Zenon DEF SubInv, TypeOK, Kept, Rehomes, RehomeType, WatchType

LEMMA NoteCallerKeeps ==
    ASSUME Kept, NEW c \in Creds, NoteCaller(c)
    PROVE  latest' \in Creds \cup {None} /\ Rehomes(rehome')
<1>1. latest' = c /\ rehome' = RehomeUnlessJustTried(stranded, c, rehome, {})
  BY Zenon DEF NoteCaller, RehomeIfDue
<1>2. QED
  BY <1>1, RehomesNext, Zenon DEF Kept

LEMMA KeptStep ==
    ASSUME SubInv, Next
    PROVE  Kept'
<1>0. Kept /\ watch \in [Watches -> WatchType] /\ \A w \in Watches : watch[w] \in WatchType
  BY KeptHere, TiesHere, Zenon
<1>1. ASSUME NEW w \in Watches, Opened(w) \/ Frame(w) \/ PositionGone(w) \/ StreamEnds(w) \/ Refuse(w)
      PROVE  Kept'
  BY <1>0, <1>1, Zenon DEF Kept, Opened, Frame, PositionGone, StreamEnds, Refuse, session, client
<1>2. ASSUME NEW w \in Watches, Strand(w) PROVE Kept'
  <2>1. PICK expired \in BOOLEAN :
            /\ stranded' = Stranding(w, expired)
            /\ lost' = IF expired THEN lost ELSE lost \cup watch[w].keys
    BY <1>2, Zenon DEF Strand
  <2>2. watch[w].keys \in SUBSET Keys /\ watch[w].list \in BOOLEAN
    BY <1>0, Zenon DEF WatchType
  <2>3. stranded' \in [Creds -> [keys : SUBSET Keys, list : BOOLEAN]]
    BY <1>0, <2>1, <2>2, Zenon DEF Kept, Stranding
  <2>4. QED
    BY <1>0, <1>2, <2>1, <2>2, <2>3, Zenon DEF Kept, Strand
<1>3. ASSUME NEW w \in Watches, DropWatch(w) PROVE Kept'
  BY <1>0, <1>3, Zenon DEF Kept, DropWatch, client
<1>4. ASSUME NEW w \in Watches, Tell(w) PROVE Kept'
  <2>1. rehome' = RehomeUnlessJustTried(stranded, latest, rehome, {})
    BY <1>4, Zenon DEF Tell, RehomeIfDue
  <2>2. Rehomes(rehome')
    BY <1>0, <2>1, RehomesNext, Zenon DEF Kept
  <2>3. QED
    BY <1>0, <1>4, <2>2, Zenon DEF Kept, Tell
<1>5. ASSUME NEW k \in Keys, NEW w \in Watches, Answer(k, w) PROVE Kept'
  BY <1>0, <1>5, Zenon DEF Kept, Answer, session
<1>6. ASSUME NEW k \in Keys, NEW w \in Watches, Announce(k, w) PROVE Kept'
  BY <1>0, <1>6, Zenon DEF Kept, Announce, session
<1>7. CASE Collect
  <2> DEFINE ks == UNION {stranded[d].keys : d \in Foreign}
             x == [rehome EXCEPT !.pc = "probe", !.todo = ks]
  <2>1. ks \in SUBSET Keys
    BY <1>0 DEF Kept, Foreign
  <2>2. rehome' = x /\ rehome.pc = "start"
    BY <1>7, Zenon DEF Collect
  <2> HIDE DEF ks
  <2>3. Rehomes(x)
    BY <1>0, <2>1, <2>2, Zenon DEF Kept, Rehomes, RehomeType
  <2>4. QED
    BY <1>0, <1>7, <2>2, <2>3, Zenon DEF Kept, Collect, client
<1>8. CASE Probe
  <2>1. PICK k \in rehome.todo, move, drop \in BOOLEAN :
            rehome' = [rehome EXCEPT !.todo = @ \ {k},
                                     !.move = IF move THEN @ \cup {k} ELSE @,
                                     !.drop = IF drop THEN @ \cup {k} ELSE @]
    BY <1>8, Zenon DEF Probe
  <2>2. Rehomes(rehome')
    BY <1>0, <2>1, ZenonT(30) DEF Kept, Rehomes, RehomeType
  <2>3. QED
    BY <1>0, <1>8, <2>2, Zenon DEF Kept, Probe, client
<1>9. CASE Apply
  <2> DEFINE c == rehome.cred
             probed == rehome.move \cup rehome.drop
             go == StillStranded(rehome.move)
             left == [d \in Creds |-> IF d = c THEN stranded[d]
                                      ELSE [keys |-> stranded[d].keys \ probed, list |-> FALSE]]
             kept == IF latest = c THEN UNION {left[d].keys : d \in Foreign} ELSE {}
             gone == StillStranded(rehome.drop)
  <2>1. /\ stranded' = left /\ lost' = lost \cup gone
        /\ rehome' = RehomeUnlessJustTried(left, latest, NoRehome, kept)
        /\ UNCHANGED <<latest, calls, keeper, ended, wants>>
        /\ unseen' = unseen \ (gone \cup raced')
        /\ \/ UNCHANGED <<moved, raced>>
           \/ /\ \E list \in BOOLEAN : Take(c, go, list)
              /\ raced' \in {raced, raced \cup go}
              /\ moved' = moved \cup {<<k, WatchOf(c)>> : k \in go}
    BY <1>9, Zenon DEF Apply
  <2>2. /\ go \in SUBSET Keys /\ gone \in SUBSET Keys /\ c \in Creds
        /\ left \in [Creds -> [keys : SUBSET Keys, list : BOOLEAN]]
    BY <1>0, <1>9, Zenon DEF Kept, Apply, Rehomes, RehomeType, StillStranded
  <2> HIDE DEF go, left, kept, gone, c
  <2>3. Rehomes(rehome')
    BY <1>0, <2>1, RehomesFirst, RehomesNext, Zenon DEF Kept
  <2>4. moved' \in SUBSET (Keys \X Watches) /\ raced' \in SUBSET Keys
    <3>1. CASE UNCHANGED <<moved, raced>>
      BY <1>0, <3>1, Zenon DEF Kept
    <3>2. ASSUME \E list \in BOOLEAN : Take(c, go, list), raced' \in {raced, raced \cup go},
                 moved' = moved \cup {<<k, WatchOf(c)>> : k \in go}
          PROVE  moved' \in SUBSET (Keys \X Watches) /\ raced' \in SUBSET Keys
      <4>1. WatchOf(c) \in Watches
        BY <2>2, <3>2, TakenKeeps, Zenon
      <4>2. QED
        BY <1>0, <2>2, <3>2, <4>1 DEF Kept
    <3>3. QED
      BY <2>1, <3>1, <3>2, Zenon
  <2>5. QED
    BY <1>0, <2>1, <2>2, <2>3, <2>4, Zenon DEF Kept
<1>10. ASSUME NEW c \in Creds, Request(c) \/ WatchListChanges(c) PROVE Kept'
  <2>1. NoteCaller(c) /\ UNCHANGED <<stranded, moved, calls, keeper, ended, client>>
    BY <1>10, Zenon DEF Request, WatchListChanges
  <2>2. QED
    BY <1>0, <2>1, NoteCallerKeeps, Zenon DEF Kept, client
<1>11. ASSUME NEW c \in Creds, Expire(c) PROVE Kept'
  BY <1>0, <1>11, Zenon DEF Kept, Expire, Empty
<1>12. ASSUME NEW c \in Creds, NEW k \in Keys, Subscribe(c, k) PROVE Kept'
  <2>1. WatchOf(c) \in Watches
    <3>1. {k} \in SUBSET Keys /\ \E list \in BOOLEAN : Take(c, {k}, list)
      BY <1>12, Zenon DEF Subscribe
    <3>2. QED
      BY <3>1, TakenKeeps, Zenon
  <2>2. latest' \in Creds \cup {None} /\ Rehomes(rehome')
    BY <1>0, <1>12, NoteCallerKeeps, Zenon DEF Subscribe
  <2>3. QED
    BY <1>0, <1>12, <2>1, <2>2 DEF Kept, Subscribe, client
<1>13. ASSUME NEW c \in Creds, NEW k \in Keys, Unsubscribe(c, k) PROVE Kept'
  <2>1. latest' \in Creds \cup {None} /\ Rehomes(rehome')
    BY <1>0, <1>13, NoteCallerKeeps, Zenon DEF Unsubscribe
  <2>2. stranded' \in [Creds -> [keys : SUBSET Keys, list : BOOLEAN]]
    BY <1>0, <1>13, Zenon DEF Kept, Unsubscribe
  <2>3. QED
    BY <1>0, <1>13, <2>1, <2>2, Zenon DEF Kept, Unsubscribe
<1>14. CASE KeeperWakes \/ Pinged
  BY <1>0, <1>14, Zenon DEF Kept, KeeperWakes, StandDown, Pinged, session, client
<1>15. ASSUME NEW k \in Keys, Write(k) PROVE Kept'
  BY <1>0, <1>15, Zenon DEF Kept, Write, session
<1>16. QED
  BY <1>1, <1>2, <1>3, <1>4, <1>5, <1>6, <1>7, <1>8, <1>9, <1>10, <1>11, <1>12, <1>13, <1>14, <1>15, Zenon
     DEF Next

\* The verdicts of a re-home: what is moved, what is lost and what stays stranded.
LEMMA ApplyGives ==
    ASSUME SubInv, Apply
    PROVE  LET c == rehome.cred
               go == StillStranded(rehome.move)
               gone == StillStranded(rehome.drop)
           IN  /\ c \in Creds /\ go \in SUBSET Keys /\ gone \in SUBSET Keys
               /\ \A k \in go : \E d \in Creds : k \in stranded[d].keys
               /\ \A d \in Creds : stranded'[d].keys \subseteq stranded[d].keys
               /\ \A d \in Creds : \A k \in stranded[d].keys :
                    k \in stranded'[d].keys \/ k \in go \/ k \in gone
               /\ lost' = lost \cup gone /\ UNCHANGED <<calls, keeper, ended, wants>>
               /\ unseen' = unseen \ (gone \cup raced')
               /\ \/ go = {} /\ UNCHANGED <<kbs, watch, moved, raced>>
                  \/ /\ \E list \in BOOLEAN : Take(c, go, list)
                     /\ raced' = IF Joins(c) /\ watch[kbs[c]].pc = "drop" THEN raced \cup go ELSE raced
                     /\ moved' = moved \cup {<<k, WatchOf(c)>> : k \in go}
<1> DEFINE c == rehome.cred
           probed == rehome.move \cup rehome.drop
           go == StillStranded(rehome.move)
           gone == StillStranded(rehome.drop)
           left == [d \in Creds |-> IF d = c THEN stranded[d]
                                    ELSE [keys |-> stranded[d].keys \ probed, list |-> FALSE]]
<1>1. /\ stranded' = left /\ lost' = lost \cup gone
      /\ UNCHANGED <<calls, keeper, ended, wants>>
      /\ unseen' = unseen \ (gone \cup raced')
      /\ \/ go = {} /\ UNCHANGED <<kbs, watch, moved, raced>>
         \/ /\ \E list \in BOOLEAN : Take(c, go, list)
            /\ raced' = IF Joins(c) /\ watch[kbs[c]].pc = "drop" THEN raced \cup go ELSE raced
            /\ moved' = moved \cup {<<k, WatchOf(c)>> : k \in go}
  BY Zenon DEF Apply
<1>2. Kept /\ c \in Creds
  BY KeptHere, Zenon DEF Apply, Kept, Rehomes
<1>3. go \in SUBSET Keys /\ gone \in SUBSET Keys
  BY <1>2, SMTT(30) DEF Kept, Rehomes, RehomeType, StillStranded
<1>4. \A k \in go : \E d \in Creds : k \in stranded[d].keys
  BY Zenon DEF StillStranded, Foreign
<1>5. \A d \in Creds : left[d].keys \subseteq stranded[d].keys
  BY Zenon
<1>6. ASSUME NEW d \in Creds, NEW k \in stranded[d].keys PROVE k \in left[d].keys \/ k \in go \/ k \in gone
  <2>1. CASE d = c
    BY <2>1, Zenon
  <2>2. CASE d # c
    <3>1. d \in Foreign
      BY <2>2, Zenon DEF Foreign
    <3>2. QED
      BY <2>2, <3>1, Zenon DEF StillStranded
  <2>3. QED
    BY <2>1, <2>2, Zenon
<1> HIDE DEF left, go, gone, c
<1>7. QED
  BY <1>1, <1>2, <1>3, <1>4, <1>5, <1>6, Zenon DEF go, gone, c

\* The strengthened invariant is kept by every step.
LEMMA SubInvStep ==
    ASSUME SubInv, Next
    PROVE  SubInv'
<1>0. Kept' /\ kbs \in [Creds -> Watches \cup {None}] /\ watch \in [Watches -> WatchType]
      /\ Bound(watch, kbs, calls)
  BY KeptStep, TiesHere, Zenon
<1>1. ASSUME NEW w \in Watches, Opened(w) \/ Frame(w) \/ PositionGone(w) \/ StreamEnds(w)
      PROVE  SubInv'
  BY <1>0, <1>1, ReadingKeeps, SubInvFrom, Zenon
<1>2. ASSUME NEW w \in Watches, Refuse(w) \/ Strand(w) PROVE SubInv'
  BY <1>0, <1>2, RefusedKeeps, SubInvFrom, Zenon
<1>3. ASSUME NEW w \in Watches, DropWatch(w) PROVE SubInv'
  BY <1>0, <1>3, DroppedKeeps, SubInvFrom, Zenon
<1>4. ASSUME NEW w \in Watches, Tell(w) PROVE SubInv'
  <2>1. /\ watch[w].pc = "tell" /\ Set(w, Returned(w, moved \cup calls))
        /\ kbs' = kbs /\ calls' = calls /\ \A k : <<k, w>> \in calls => <<k, w>> \in moved \cup calls
    BY <1>4, Zenon DEF Tell
  <2>2. watch' \in [Watches -> WatchType] /\ Bound(watch', kbs, calls)
    BY <2>1, ReleasedKeeps, Zenon
  <2>3. QED
    BY <1>0, <2>1, <2>2, SubInvFrom, Zenon
<1>5. ASSUME NEW k \in Keys, NEW w \in Watches, Answer(k, w) \/ Announce(k, w) PROVE SubInv'
  <2>1. PICK refs : /\ \A j : <<j, w>> \in calls' => <<j, w>> \in refs
                    /\ Release(w, refs)
    BY <1>5, Zenon DEF Answer, Announce
  <2>2. kbs' = kbs /\ calls' \in SUBSET calls
    BY <1>5, Zenon DEF Answer, Announce, session
  <2>3. (watch[w].pc \in {"tell", "done"} /\ Set(w, Returned(w, refs))) \/ watch' = watch
    BY <2>1, Zenon DEF Release
  <2>4. watch' \in [Watches -> WatchType] /\ Bound(watch', kbs, calls')
    BY <2>1, <2>2, <2>3, ReleasedKeeps, Zenon
  <2>5. QED
    BY <1>0, <2>2, <2>4, SubInvFrom, Zenon
<1>6. CASE UNCHANGED <<watch, kbs, calls>>
  BY <1>0, <1>6, SubInvFrom, Zenon
<1>7. CASE Apply
  <2>1. /\ \/ UNCHANGED <<kbs, watch>>
           \/ \E c \in Creds, ks \in SUBSET Keys : \E list \in BOOLEAN : Take(c, ks, list)
        /\ calls' = calls
    BY <1>7, ApplyGives, Zenon
  <2>2. CASE UNCHANGED <<kbs, watch>>
    BY <1>6, <2>1, <2>2, Zenon
  <2>3. ASSUME NEW c \in Creds, NEW ks \in SUBSET Keys, \E list \in BOOLEAN : Take(c, ks, list)
        PROVE  SubInv'
    <3>1. /\ watch' \in [Watches -> WatchType] /\ kbs' \in [Creds -> Watches \cup {None}]
          /\ Bound(watch', kbs', calls)
      BY <2>3, TakenKeeps, Zenon
    <3>2. QED
      BY <1>0, <2>1, <3>1, SubInvFrom, SMTT(30)
  <2>4. QED
    BY <2>1, <2>2, <2>3, Zenon
<1>8. ASSUME NEW c \in Creds, WatchListChanges(c) PROVE SubInv'
  <2>1. /\ {} \in SUBSET Keys /\ calls' = calls /\ \E list \in BOOLEAN : Take(c, {}, list)
    BY <1>8, Zenon DEF WatchListChanges
  <2>2. /\ watch' \in [Watches -> WatchType] /\ kbs' \in [Creds -> Watches \cup {None}]
        /\ Bound(watch', kbs', calls)
    BY <2>1, TakenKeeps, Zenon
  <2>3. QED
    BY <1>0, <2>1, <2>2, SubInvFrom, Zenon
<1>9. ASSUME NEW c \in Creds, NEW k \in Keys, Subscribe(c, k) PROVE SubInv'
  <2>1. /\ {k} \in SUBSET Keys /\ \E list \in BOOLEAN : Take(c, {k}, list)
        /\ calls' = calls \cup {<<k, WatchOf(c)>>}
    BY <1>9, Zenon DEF Subscribe
  <2>2. /\ WatchOf(c) \in Watches
        /\ watch' \in [Watches -> WatchType] /\ kbs' \in [Creds -> Watches \cup {None}]
        /\ Bound(watch', kbs', calls)
        /\ watch'[WatchOf(c)].pc = "run" \/ watch'[WatchOf(c)].link = "refused"
        /\ watch'[WatchOf(c)].keys = watch[WatchOf(c)].keys \cup {k}
    BY <2>1, TakenKeeps, Zenon
  <2>3. Awaits(watch'[WatchOf(c)], k)
    BY <2>2, Zenon DEF Awaits
  <2>4. Bound(watch', kbs', calls')
    BY <2>1, <2>2, <2>3 DEF Bound
  <2>5. QED
    BY <1>0, <2>2, <2>4, SubInvFrom, Zenon
<1>10. ASSUME NEW c \in Creds, NEW k \in Keys, Unsubscribe(c, k) PROVE SubInv'
  BY <1>0, <1>10, UnsubscribedKeeps, SubInvFrom, Zenon
<1>11. ASSUME NEW k \in Keys, Write(k) PROVE SubInv'
  BY <1>0, <1>11, WriteKeeps, SubInvFrom, Zenon
<1>12. ASSUME NEW c \in Creds, Request(c) \/ Expire(c) PROVE UNCHANGED <<watch, kbs, calls>>
  BY <1>12, Zenon DEF Request, Expire
<1>13. ASSUME Collect \/ Probe \/ KeeperWakes \/ Pinged PROVE UNCHANGED <<watch, kbs, calls>>
  BY <1>13, Zenon DEF Collect, Probe, KeeperWakes, Pinged, session
<1>14. QED
  BY <1>1, <1>2, <1>3, <1>4, <1>5, <1>6, <1>7, <1>8, <1>9, <1>10, <1>11, <1>12, <1>13, Zenon DEF Next

LEMMA SubInvInit ==
    ASSUME Init
    PROVE  SubInv
<1>1. watch \in [Watches -> WatchType] /\ \A w \in Watches : watch[w] = Free
  BY FreeType, Zenon DEF Init
<1>2. kbs \in [Creds -> Watches \cup {None}] /\ (\A c \in Creds : kbs[c] = None) /\ calls = {}
  BY Zenon DEF Init
<1>3. Bound(watch, kbs, calls)
  BY <1>1, <1>2 DEF Bound, Shape, Owned, Live, Free
<1>4. stranded \in [Creds -> [keys : SUBSET Keys, list : BOOLEAN]] /\ Rehomes(rehome)
  BY RehomesFirst, Zenon DEF Init, Empty
<1>5. QED
  BY <1>1, <1>2, <1>3, <1>4, Zenon DEF Init, SubInv, TypeOK, Rehomes, RehomeType, WatchType

\* The invariant of a session's subscriptions: a watch that feeds keys is the one
\* registered for its credential, a registered watch is served by its forwarder,
\* and every subscribe that waits is fed or sees the refusal (ensure_watch,
\* run_forwarder, strand, drop_watch, rehome).
THEOREM SubscriptionsAreTied == Spec => []SubInv
<1>1. SubInv /\ [Next]_vars => SubInv'
  <2>1. CASE Next
    BY <2>1, SubInvStep, Zenon
  <2>2. CASE UNCHANGED vars
    BY <2>2, Zenon DEF vars, session, client, bounds, SubInv, TypeOK
  <2>3. QED
    BY <2>1, <2>2, Zenon
<1>2. QED
  BY <1>1, SubInvInit, PTL DEF Spec

-----------------------------------------------------------------------------
(* What is subscribed is held.                                              *)

Feeds(x, k) == x.pc \in {"run", "strand"} /\ k \in x.keys

LEMMA HeldIs ==
    ASSUME NEW k
    PROVE  Held(k) <=> \/ \E c \in Creds : kbs[c] # None /\ Feeds(watch[kbs[c]], k)
                       \/ \E c \in Creds : k \in stranded[c].keys
BY Zenon DEF Held, Feeds

\* A watch that feeds a key is registered.
LEMMA FedIsHeld ==
    ASSUME SubInv, NEW w \in Watches, NEW k, Feeds(watch[w], k)
    PROVE  Held(k)
<1>1. watch[w].cred \in Creds /\ kbs[watch[w].cred] = w
  BY TiesHere, Zenon DEF Feeds, Shape, Owned, Live
<1>2. QED
  BY <1>1, HeldIs, NoneIsNothing, Zenon

LEMMA HeldAlike ==
    ASSUME SubInv, kbs' = kbs, stranded' = stranded, NEW k,
           \A v \in Watches : Feeds(watch'[v], k) <=> Feeds(watch[v], k)
    PROVE  Held(k)' <=> Held(k)
<1>1. \A c \in Creds : kbs[c] # None => kbs[c] \in Watches
  BY TiesHere, Zenon
<1>2. QED
  BY <1>1, Zenon DEF Held, Feeds

\* A watch that takes keys goes on feeding those it fed.
LEMMA TakenHolds ==
    ASSUME SubInv, NEW c \in Creds, NEW ks \in SUBSET Keys, \E list \in BOOLEAN : Take(c, ks, list),
           NEW k
    PROVE  LET w == WatchOf(c) IN
           /\ \A d \in Creds : kbs[d] # None /\ Feeds(watch[kbs[d]], k) =>
                  kbs'[d] # None /\ Feeds(watch'[kbs'[d]], k)
           /\ k \in ks => \/ kbs'[c] # None /\ Feeds(watch'[kbs'[c]], k)
                          \/ Joins(c) /\ watch[kbs[c]].pc = "drop"
           /\ \A d \in Creds : kbs'[d] # None /\ Feeds(watch'[kbs'[d]], k) =>
                  k \in ks \/ (kbs[d] # None /\ Feeds(watch[kbs[d]], k))
<1> DEFINE w == WatchOf(c)
<1>1. /\ w \in Watches /\ kbs'[c] = w
      /\ watch' \in [Watches -> WatchType] /\ Bound(watch', kbs', calls)
      /\ \A d \in Creds : d # c => kbs'[d] = kbs[d]
      /\ \A v \in Watches : v # w => watch'[v] = watch[v]
      /\ watch'[w].keys = watch[w].keys \cup ks
      /\ kbs[c] # None => Joins(c) /\ kbs[c] = w /\ watch'[w].pc = watch[w].pc
      /\ kbs[c] = None => watch[w] = Free /\ watch'[w].pc = "run"
  BY TakenKeeps, Zenon
<1>2. w # None
  BY <1>1, NoneIsNothing, ZenonT(30)
<1> HIDE DEF w
<1>3. ASSUME NEW d \in Creds, d # c, kbs[d] # None PROVE kbs[d] \in Watches /\ kbs[d] # w
  <2>1. kbs[d] \in Watches /\ Serves(watch[kbs[d]], d)
    BY <1>3, TiesHere, Zenon
  <2>2. CASE kbs[c] # None
    BY <1>1, <1>3, <2>1, <2>2, TiesHere, SMTT(30) DEF Serves
  <2>3. CASE kbs[c] = None
    BY <1>1, <2>1, <2>3, SMTT(30) DEF Serves, Live, Free
  <2>4. QED
    BY <2>1, <2>2, <2>3, Zenon
<1>4. ASSUME NEW d \in Creds, kbs[d] # None, Feeds(watch[kbs[d]], k)
      PROVE  kbs'[d] # None /\ Feeds(watch'[kbs'[d]], k)
  <2>1. CASE d = c
    BY <1>1, <1>2, <1>4, <2>1, Zenon DEF Feeds
  <2>2. CASE d # c
    BY <1>1, <1>3, <1>4, <2>2, SMTT(30)
  <2>3. QED
    BY <2>1, <2>2, Zenon
<1>5. ASSUME k \in ks PROVE \/ kbs'[c] # None /\ Feeds(watch'[kbs'[c]], k)
                            \/ Joins(c) /\ watch[kbs[c]].pc = "drop"
  <2>1. CASE kbs[c] = None
    BY <1>1, <1>2, <1>5, <2>1, Zenon DEF Feeds
  <2>2. CASE kbs[c] # None
    <3>1. watch[w].pc \in Live
      BY <1>1, <2>2, TiesHere, Zenon DEF Serves
    <3>2. QED
      BY <1>1, <1>2, <1>5, <2>2, <3>1, SMTT(30) DEF Feeds, Live
  <2>3. QED
    BY <2>1, <2>2, Zenon
<1>6. ASSUME NEW d \in Creds, kbs'[d] # None, Feeds(watch'[kbs'[d]], k)
      PROVE  k \in ks \/ (kbs[d] # None /\ Feeds(watch[kbs[d]], k))
  <2>1. CASE d = c /\ kbs[c] # None
    BY <1>1, <1>6, <2>1, Zenon DEF Feeds
  <2>2. CASE d = c /\ kbs[c] = None
    BY <1>1, <1>6, <2>2, SMTT(30) DEF Feeds, Free
  <2>3. CASE d # c
    BY <1>1, <1>3, <1>6, <2>3, Zenon
  <2>4. QED
    BY <2>1, <2>2, <2>3, Zenon
<1>7. QED
  BY <1>4, <1>5, <1>6, Zenon

\* What a step may do to a key that is held, and to one that is not.
LEMMA HeldStep ==
    ASSUME SubInv, Next, NEW k \in Keys
    PROVE  /\ Held(k) => Held(k)' \/ k \notin wants' \/ k \in lost' \cup raced'
           /\ Held(k)' => Held(k) \/ \E w \in Watches : <<k, w>> \in calls'
<1> DEFINE Goal == /\ Held(k) => Held(k)' \/ k \notin wants' \/ k \in lost' \cup raced'
                   /\ Held(k)' => Held(k) \/ \E w \in Watches : <<k, w>> \in calls'
<1>1. ASSUME NEW w \in Watches, Opened(w) \/ Frame(w) \/ PositionGone(w) \/ StreamEnds(w)
      PROVE  Held(k)' <=> Held(k)
  <2>1. /\ kbs' = kbs /\ stranded' = stranded
        /\ \A v \in Watches : Feeds(watch'[v], k) <=> Feeds(watch[v], k)
    BY <1>1, ReadingKeeps, Zenon DEF Feeds
  <2>2. QED
    BY <2>1, HeldAlike, Zenon
<1>2. ASSUME NEW w \in Watches, Refuse(w) PROVE Held(k)' <=> Held(k)
  <2>1. /\ kbs' = kbs /\ stranded' = stranded
        /\ \A v \in Watches : Feeds(watch'[v], k) <=> Feeds(watch[v], k)
    BY <1>2, RefusedKeeps, Zenon DEF Feeds, Refuse, session
  <2>2. QED
    BY <2>1, HeldAlike, Zenon
<1>3. ASSUME NEW w \in Watches, Strand(w) PROVE Goal
  <2>1. PICK expired \in BOOLEAN :
            /\ stranded' = Stranding(w, expired)
            /\ lost' = IF expired THEN lost ELSE lost \cup watch[w].keys
    BY <1>3, SMTT(30) DEF Strand
  <2>2. /\ kbs' = kbs /\ watch[w].pc = "strand"
        /\ \A v \in Watches : v # w => watch'[v] = watch[v]
        /\ watch'[w].pc = "drop"
    BY <1>3, RefusedKeeps, Zenon
  <2>3. watch[w].cred \in Creds /\ Kept
    BY <2>2, KeptHere, TiesHere, SMTT(30) DEF Shape, Live
  <2>4. /\ \A d \in Creds : stranded[d].keys \subseteq stranded'[d].keys
        /\ \A d \in Creds : stranded'[d].keys \subseteq stranded[d].keys \cup watch[w].keys
        /\ expired => watch[w].keys \subseteq stranded'[watch[w].cred].keys
        /\ ~ expired => watch[w].keys \subseteq lost'
    BY <2>1, <2>3, Zenon DEF Kept, Stranding
  <2>5. ASSUME Held(k) PROVE Held(k)' \/ k \in lost'
    <3>1. CASE k \in watch[w].keys
      BY <2>3, <2>4, <3>1, Zenon DEF Held
    <3>2. CASE k \notin watch[w].keys
      <4>1. \A c \in Creds : kbs[c] # None => kbs[c] \in Watches
        BY TiesHere, Zenon
      <4>2. QED
        BY <2>2, <2>4, <2>5, <3>2, <4>1, Zenon DEF Held
    <3>3. QED
      BY <3>1, <3>2, Zenon
  <2>6. ASSUME Held(k)' PROVE Held(k)
    <3>1. CASE k \in watch[w].keys
      BY <2>2, <3>1, FedIsHeld, Zenon DEF Feeds
    <3>2. CASE k \notin watch[w].keys
      <4>1. \A c \in Creds : kbs[c] # None => kbs[c] \in Watches
        BY TiesHere, Zenon
      <4>2. QED
        BY <2>2, <2>4, <2>6, <3>2, <4>1, Zenon DEF Held
    <3>3. QED
      BY <3>1, <3>2, Zenon
  <2>7. QED
    BY <2>5, <2>6, Zenon
<1>4. ASSUME NEW w \in Watches, DropWatch(w) PROVE Held(k)' <=> Held(k)
  <2>1. /\ \A c \in Creds : kbs'[c] = IF kbs[c] = w THEN None ELSE kbs[c]
        /\ \A v \in Watches : v # w => watch'[v] = watch[v]
        /\ watch[w].pc = "drop"
    BY <1>4, DroppedKeeps, Zenon
  <2>2. stranded' = stranded /\ \A c \in Creds : kbs[c] # None => kbs[c] \in Watches
    BY <1>4, TiesHere, Zenon DEF DropWatch
  <2>3. QED
    BY <2>1, <2>2, Zenon DEF Held
<1>5. ASSUME NEW w \in Watches, NEW refs, kbs' = kbs, stranded' = stranded,
             (watch[w].pc \in {"tell", "done"} /\ Set(w, Returned(w, refs))) \/ watch' = watch
      PROVE  Held(k)' <=> Held(k)
  <2>1. /\ {} \in SUBSET calls /\ \A j : <<j, w>> \in {} => <<j, w>> \in refs
    BY Zenon
  <2>2. /\ \A v \in Watches : v # w => watch'[v] = watch[v]
        /\ \/ watch' = watch
           \/ watch[w].pc \in {"tell", "done"} /\ watch'[w].pc \in {"free", "done"}
    BY <1>5, <2>1, ReleasedKeeps, Zenon
  <2>3. \A v \in Watches : Feeds(watch'[v], k) <=> Feeds(watch[v], k)
    BY <2>2, Zenon DEF Feeds
  <2>4. QED
    BY <1>5, <2>3, HeldAlike, Zenon
<1>6. ASSUME NEW w \in Watches, Tell(w) PROVE Held(k)' <=> Held(k)
  BY <1>5, <1>6, Zenon DEF Tell
<1>7. ASSUME NEW j \in Keys, NEW w \in Watches, Answer(j, w) \/ Announce(j, w)
      PROVE  Held(k)' <=> Held(k)
  <2>1. PICK refs : Release(w, refs)
    BY <1>7, Zenon DEF Answer, Announce
  <2>2. kbs' = kbs /\ stranded' = stranded
    BY <1>7, Zenon DEF Answer, Announce, session
  <2>3. (watch[w].pc \in {"tell", "done"} /\ Set(w, Returned(w, refs))) \/ watch' = watch
    BY <2>1, SMTT(30) DEF Release
  <2>4. QED
    BY <1>5, <2>2, <2>3, Zenon
<1>8. CASE Apply
  <2> DEFINE c == rehome.cred
             go == StillStranded(rehome.move)
             gone == StillStranded(rehome.drop)
  <2>1. /\ c \in Creds /\ go \in SUBSET Keys
        /\ \A j \in go : \E d \in Creds : j \in stranded[d].keys
        /\ \A d \in Creds : stranded'[d].keys \subseteq stranded[d].keys
        /\ \A d \in Creds : \A j \in stranded[d].keys : j \in stranded'[d].keys \/ j \in go \/ j \in gone
        /\ lost' = lost \cup gone
        /\ \/ go = {} /\ UNCHANGED <<kbs, watch, moved, raced>>
           \/ /\ \E list \in BOOLEAN : Take(c, go, list)
              /\ raced' = IF Joins(c) /\ watch[kbs[c]].pc = "drop" THEN raced \cup go ELSE raced
    BY <1>8, ApplyGives, Zenon
  <2> HIDE DEF c, go, gone
  <2>2. CASE go = {} /\ UNCHANGED <<kbs, watch, moved, raced>>
    <3>1. Held(k) => Held(k)' \/ k \in lost'
      BY <2>1, <2>2, Zenon DEF Held
    <3>2. Held(k)' => Held(k)
      BY <2>1, <2>2, Zenon DEF Held
    <3>3. QED
      BY <3>1, <3>2, Zenon
  <2>3. CASE /\ \E list \in BOOLEAN : Take(c, go, list)
             /\ raced' = IF Joins(c) /\ watch[kbs[c]].pc = "drop" THEN raced \cup go ELSE raced
    <3>1. /\ \A d \in Creds : kbs[d] # None /\ Feeds(watch[kbs[d]], k) =>
                 kbs'[d] # None /\ Feeds(watch'[kbs'[d]], k)
          /\ k \in go => \/ kbs'[c] # None /\ Feeds(watch'[kbs'[c]], k)
                         \/ Joins(c) /\ watch[kbs[c]].pc = "drop"
          /\ \A d \in Creds : kbs'[d] # None /\ Feeds(watch'[kbs'[d]], k) =>
                 k \in go \/ (kbs[d] # None /\ Feeds(watch[kbs[d]], k))
      BY <2>1, <2>3, TakenHolds, ZenonT(30)
    <3>2. k \in go => Held(k)' \/ k \in raced'
      BY <2>1, <2>3, <3>1, Zenon DEF Held, Feeds
    <3>3. Held(k) => Held(k)' \/ k \in lost' \cup raced'
      <4>1. ASSUME NEW d \in Creds, kbs[d] # None, Feeds(watch[kbs[d]], k) PROVE Held(k)'
        BY <3>1, <4>1, Zenon DEF Held, Feeds
      <4>2. ASSUME NEW d \in Creds, k \in stranded[d].keys PROVE Held(k)' \/ k \in lost' \cup raced'
        <5>1. k \in stranded'[d].keys \/ k \in go \/ k \in gone
          BY <2>1, <4>2, Zenon
        <5>2. k \in stranded'[d].keys => Held(k)'
          BY Zenon DEF Held
        <5>3. QED
          BY <2>1, <3>2, <5>1, <5>2, Zenon
      <4>3. QED
        BY <4>1, <4>2, HeldIs, SMTT(30)
    <3>4. Held(k)' => Held(k)
      <4>1. ASSUME NEW d \in Creds, kbs'[d] # None, Feeds(watch'[kbs'[d]], k) PROVE Held(k)
        BY <2>1, <3>1, <4>1, Zenon DEF Held, Feeds
      <4>2. ASSUME NEW d \in Creds, k \in stranded'[d].keys PROVE Held(k)
        BY <2>1, <4>2, Zenon DEF Held
      <4>3. QED
        BY <4>1, <4>2, Zenon DEF Held, Feeds
    <3>5. QED
      BY <3>3, <3>4, Zenon
  <2>4. QED
    BY <2>1, <2>2, <2>3, Zenon
<1>9. ASSUME NEW c \in Creds, WatchListChanges(c) PROVE Held(k)' <=> Held(k)
  <2>1. /\ {} \in SUBSET Keys /\ \E list \in BOOLEAN : Take(c, {}, list)
        /\ stranded' = stranded
    BY <1>9, Zenon DEF WatchListChanges
  <2>2. /\ \A d \in Creds : kbs[d] # None /\ Feeds(watch[kbs[d]], k) =>
               kbs'[d] # None /\ Feeds(watch'[kbs'[d]], k)
        /\ \A d \in Creds : kbs'[d] # None /\ Feeds(watch'[kbs'[d]], k) =>
               k \in {} \/ (kbs[d] # None /\ Feeds(watch[kbs[d]], k))
    BY <2>1, TakenHolds, Zenon
  <2>3. QED
    BY <2>1, <2>2, Zenon DEF Held, Feeds
<1>10. ASSUME NEW c \in Creds, NEW j \in Keys, Subscribe(c, j) PROVE Goal
  <2>1. /\ {j} \in SUBSET Keys /\ \E list \in BOOLEAN : Take(c, {j}, list)
        /\ stranded' = stranded /\ calls' = calls \cup {<<j, WatchOf(c)>>}
    BY <1>10, Zenon DEF Subscribe
  <2>2. /\ \A d \in Creds : kbs[d] # None /\ Feeds(watch[kbs[d]], k) =>
               kbs'[d] # None /\ Feeds(watch'[kbs'[d]], k)
        /\ \A d \in Creds : kbs'[d] # None /\ Feeds(watch'[kbs'[d]], k) =>
               k \in {j} \/ (kbs[d] # None /\ Feeds(watch[kbs[d]], k))
    BY <2>1, TakenHolds, Zenon
  <2>3. WatchOf(c) \in Watches
    BY <2>1, TakenKeeps, Zenon
  <2>4. Held(k) => Held(k)'
    BY <2>1, <2>2, ZenonT(30) DEF Held, Feeds
  <2>5. Held(k)' => Held(k) \/ k = j
    BY <2>1, <2>2, SMTT(30) DEF Held, Feeds
  <2>6. QED
    BY <2>1, <2>3, <2>4, <2>5, Zenon
<1>11. ASSUME NEW c \in Creds, NEW j \in Keys, Unsubscribe(c, j) PROVE Goal
  <2>1. /\ \A d \in Creds : kbs'[d] = IF kbs[d] # None /\ Wanted(watch[kbs[d]], j) THEN kbs[d] ELSE None
        /\ \A v \in Watches :
             /\ watch'[v].keys \subseteq watch[v].keys /\ watch[v].keys \ {j} \subseteq watch'[v].keys
             /\ watch[v].keys \ {j} # {} => watch'[v].pc = watch[v].pc
             /\ watch'[v].pc = "run" => watch[v].pc = "run"
             /\ watch'[v].pc = "strand" <=> watch[v].pc = "strand"
    BY <1>11, UnsubscribedKeeps
  <2>2. /\ \A d \in Creds : stranded'[d].keys = stranded[d].keys \ {j}
        /\ wants' = wants \ {j} /\ \A d \in Creds : kbs[d] # None => kbs[d] \in Watches
    BY <1>11, KeptHere, TiesHere, Zenon DEF Unsubscribe, Kept
  <2>3. k # j /\ Held(k) => Held(k)'
    <3>1. SUFFICES ASSUME k # j, Held(k) PROVE Held(k)'
      BY Zenon
    <3>2. ASSUME NEW d \in Creds, kbs[d] # None, Feeds(watch[kbs[d]], k) PROVE Held(k)'
      <4>1. kbs'[d] = kbs[d] /\ kbs[d] \in Watches
        BY <2>1, <2>2, <3>1, <3>2, Zenon DEF Wanted, Feeds
      <4>2. Feeds(watch'[kbs[d]], k)
        BY <2>1, <3>1, <3>2, <4>1, SMTT(30) DEF Feeds
      <4>3. QED
        BY <3>2, <4>1, <4>2, Zenon DEF Held, Feeds
    <3>3. ASSUME NEW d \in Creds, k \in stranded[d].keys PROVE Held(k)'
      BY <2>2, <3>1, <3>3, Zenon DEF Held
    <3>4. QED
      BY <3>1, <3>2, <3>3, HeldIs, Zenon
  <2>4. Held(k)' => Held(k)
    <3>1. ASSUME NEW d \in Creds, kbs'[d] # None, watch'[kbs'[d]].pc \in {"run", "strand"},
                 k \in watch'[kbs'[d]].keys
          PROVE  Held(k)
      <4>1. kbs'[d] = kbs[d] /\ kbs[d] # None /\ kbs[d] \in Watches
        BY <2>1, <2>2, <3>1, Zenon
      <4>2. QED
        BY <2>1, <3>1, <4>1, Zenon DEF Held
    <3>2. ASSUME NEW d \in Creds, k \in stranded'[d].keys PROVE Held(k)
      BY <2>2, <3>2, SMTT(30) DEF Held
    <3>3. QED
      BY <3>1, <3>2, Zenon DEF Held
  <2>5. QED
    BY <2>2, <2>3, <2>4, SMTT(30)
<1>12. ASSUME NEW j \in Keys, Write(j) PROVE Held(k)' <=> Held(k)
  <2>1. /\ kbs' = kbs /\ stranded' = stranded
        /\ \A v \in Watches : Feeds(watch'[v], k) <=> Feeds(watch[v], k)
    BY <1>12, WriteKeeps, Zenon DEF Feeds
  <2>2. QED
    BY <2>1, HeldAlike, Zenon
<1>13. ASSUME NEW c \in Creds, Expire(c) PROVE Goal
  <2>1. /\ UNCHANGED <<kbs, watch>> /\ lost' = lost \cup stranded[c].keys
        /\ stranded' = [stranded EXCEPT ![c] = Empty]
    BY <1>13, Zenon DEF Expire
  <2>2. \A d \in Creds : stranded'[d].keys = IF d = c THEN {} ELSE stranded[d].keys
    BY <2>1, KeptHere, Zenon DEF Kept, Empty
  <2>3. Held(k) => Held(k)' \/ k \in lost'
    BY <2>1, <2>2, Zenon DEF Held
  <2>4. Held(k)' => Held(k)
    BY <2>1, <2>2 DEF Held
  <2>5. QED
    BY <2>3, <2>4, Zenon
<1>14. ASSUME UNCHANGED <<kbs, watch, stranded>> PROVE Held(k)' <=> Held(k)
  BY <1>14, Zenon DEF Held
<1>15. ASSUME NEW c \in Creds, Request(c) PROVE UNCHANGED <<kbs, watch, stranded>>
  BY <1>15, Zenon DEF Request
<1>16. ASSUME Collect \/ Probe \/ KeeperWakes \/ Pinged PROVE UNCHANGED <<kbs, watch, stranded>>
  BY <1>16, Zenon DEF Collect, Probe, KeeperWakes, Pinged, session
<1>17. QED
  BY <1>1, <1>2, <1>3, <1>4, <1>6, <1>7, <1>8, <1>9, <1>10, <1>11, <1>12, <1>13, <1>14, <1>15, <1>16, SMTT(30)
     DEF Next

\* What a step may do to the keys the client counts on.
LEMMA WantsStep ==
    ASSUME SubInv, Next, ~ ended', NEW k \in wants' \ (lost' \cup raced')
    PROVE  ~ ended /\ (k \in wants \ (lost \cup raced) \/ Held(k))
<1> DEFINE Goal == ~ ended /\ (k \in wants \ (lost \cup raced) \/ Held(k))
<1>1. ASSUME NEW w \in Watches, Opened(w) \/ Frame(w) \/ PositionGone(w) \/ StreamEnds(w) \/ Refuse(w)
      PROVE  Goal
  <2>1. CASE Opened(w) \/ Refuse(w)
    BY <2>1 DEF Opened, Refuse, client
  <2>2. CASE Frame(w)
    BY <2>2, Zenon DEF Frame
  <2>3. CASE PositionGone(w) \/ StreamEnds(w)
    BY <2>3 DEF PositionGone, StreamEnds
  <2>4. QED
    BY <1>1, <2>1, <2>2, <2>3, Zenon
<1>2. ASSUME NEW w \in Watches, Strand(w) PROVE Goal
  BY <1>2, Zenon DEF Strand
<1>3. ASSUME NEW w \in Watches, DropWatch(w) \/ Tell(w) PROVE Goal
  BY <1>3, Zenon DEF DropWatch, Tell, client
<1>4. ASSUME NEW j \in Keys, NEW w \in Watches, Answer(j, w) PROVE Goal
  <2>1. <<j, w>> \in calls /\ ~ ended
    BY <1>4, Zenon DEF Answer
  <2>2. CASE watch[w].link # "refused" /\ k = j
    <3>1. Feeds(watch[w], k)
      BY <2>1, <2>2, TiesHere, Zenon DEF Awaits, Feeds
    <3>2. QED
      BY <2>1, <3>1, FedIsHeld, Zenon
  <2>3. CASE ~ (watch[w].link # "refused" /\ k = j)
    BY <1>4, <2>1, <2>3, Zenon DEF Answer
  <2>4. QED
    BY <2>2, <2>3, Zenon
<1>5. ASSUME NEW j \in Keys, NEW w \in Watches, Announce(j, w) PROVE Goal
  BY <1>5, Zenon DEF Announce
<1>6. CASE Collect \/ Probe \/ KeeperWakes \/ Pinged
  BY <1>6, Zenon DEF Collect, Probe, KeeperWakes, Pinged, client
<1>7. CASE Apply
  <2>1. lost \subseteq lost' /\ raced \subseteq raced' /\ wants' = wants /\ ~ ended
    BY <1>7, ApplyGives
  <2>2. QED
    BY <2>1, SMTT(30)
<1>8. ASSUME NEW c \in Creds, Request(c) \/ WatchListChanges(c) PROVE Goal
  <2>1. ended' = ended /\ client' = client
    BY <1>8, Zenon DEF Request, WatchListChanges
  <2>2. QED
    BY <2>1, Zenon DEF client
<1>9. ASSUME NEW c \in Creds, Expire(c) PROVE Goal
  BY <1>9, Zenon DEF Expire
<1>10. ASSUME NEW c \in Creds, NEW j \in Keys, Subscribe(c, j) PROVE Goal
  BY <1>10, Zenon DEF Subscribe, client
<1>11. ASSUME NEW c \in Creds, NEW j \in Keys, Unsubscribe(c, j) PROVE Goal
  BY <1>11, Zenon DEF Unsubscribe
<1>12. ASSUME NEW j \in Keys, Write(j) PROVE Goal
  BY <1>12, Zenon DEF Write
<1>13. QED
  BY <1>1, <1>2, <1>3, <1>4, <1>5, <1>6, <1>7, <1>8, <1>9, <1>10, <1>11, <1>12, Zenon DEF Next

\* A subscription that was answered Ok is fed by a registered watch or kept for a
\* re-home, until the client unsubscribes or is told that it ended (subscribe,
\* strand, drop_watch, rehome).
THEOREM SubscriptionsAreHeld == Spec => []SubscribedIsHeld
<1>1. Init => SubscribedIsHeld
  BY Zenon DEF Init, SubscribedIsHeld
<1>2. SubInv /\ SubscribedIsHeld /\ [Next]_vars => SubscribedIsHeld'
  <2>1. ASSUME SubInv, SubscribedIsHeld, Next PROVE SubscribedIsHeld'
    <3>1. SUFFICES ASSUME ~ ended', NEW k \in wants' \ (lost' \cup raced') PROVE Held(k)'
      BY Zenon DEF SubscribedIsHeld
    <3>2. Held(k)
      BY <2>1, <3>1, WantsStep, Zenon DEF SubscribedIsHeld
    <3>3. k \in Keys
      BY <2>1, KeptStep, Zenon DEF Kept
    <3>4. QED
      BY <2>1, <3>2, <3>3, HeldStep, Zenon
  <2>2. ASSUME SubscribedIsHeld, UNCHANGED vars PROVE SubscribedIsHeld'
    BY <2>2, Zenon DEF vars, session, client, SubscribedIsHeld, Held
  <2>3. QED
    BY <2>1, <2>2, Zenon
<1>3. QED
  BY <1>1, <1>2, SubscriptionsAreTied, PTL DEF Spec

\* unsubscribe wins over a re-home and over a late strand: a key that nothing
\* holds is held again only by a subscribe (unsubscribe, rehome, strand).
THEOREM UnsubscribedStaysGone == Spec => UnsubscribeWins
<1> DEFINE Wins == \A k \in Keys : (~ Held(k) /\ Held(k)') => \E w \in Watches : <<k, w>> \in calls'
<1>1. SubInv /\ [Next]_vars => [Wins]_vars
  <2>1. ASSUME SubInv, Next PROVE Wins
    BY <2>1, HeldStep, Zenon
  <2>2. QED
    BY <2>1, Zenon
<1>2. QED
  BY <1>1, SubscriptionsAreTied, PTL DEF Spec, UnsubscribeWins

-----------------------------------------------------------------------------
(* What is written is told.                                                 *)

\* Watch w, being x, owes or carries a notice of k while mv is to be announced.
Tells(x, w, k, mv) ==
    \/ x.pc = "strand" /\ k \in x.keys
    \/ k \in x.tell
    \/ x.pc = "run" /\ k \in x.keys /\ (<<k, w>> \in mv \/ ((x.open \/ x.id) /\ k \in x.feed))

Told(k) == (\E w \in Watches : Tells(watch[w], w, k, moved)) \/ \E c \in Creds : k \in stranded[c].keys

LEMMA ToldIs ==
    ASSUME NEW k
    PROVE  Told(k) <=> OnItsWay(k) \/ \E w \in Watches : Sees(w) /\ k \in watch[w].keys /\ k \in watch[w].feed
BY Zenon DEF Told, Tells, OnItsWay, Sees

\* A watch that changes, and every other that does not.
LEMMA ToldByOne ==
    ASSUME NEW w \in Watches, NEW k, Told(k),
           stranded' = stranded,
           \A v \in Watches : v # w => (Tells(watch[v], v, k, moved) => Tells(watch'[v], v, k, moved')),
           Tells(watch[w], w, k, moved) => Tells(watch'[w], w, k, moved')
    PROVE  Told(k)'
BY Zenon DEF Told

\* What a stream does to a notice that is on its way.
LEMMA StreamTells ==
    ASSUME SubInv, NEW w \in Watches, Opened(w) \/ PositionGone(w) \/ StreamEnds(w) \/ Frame(w) \/ Refuse(w),
           NEW k \in unseen', k \in unseen => Told(k)
    PROVE  Told(k)'
<1>0. watch[w] \in WatchType /\ watch \in [Watches -> WatchType] /\ watch[w].pc = "run"
  BY TiesHere, Zenon DEF Opened, PositionGone, StreamEnds, Frame, Refuse, Forwards
<1>1. /\ stranded' = stranded /\ moved' = moved
      /\ \A v \in Watches : v # w => watch'[v] = watch[v]
      /\ watch'[w].keys = watch[w].keys /\ watch'[w].tell = watch[w].tell
      /\ Refuse(w) => watch'[w].pc = "strand"
      /\ ~ Refuse(w) => watch'[w].pc = "run"
  <2>1. CASE Refuse(w)
    BY <2>1, RefusedKeeps, Zenon DEF Refuse, session
  <2>2. CASE ~ Refuse(w)
    BY <2>2, ReadingKeeps, Zenon
  <2>3. QED
    BY <2>1, <2>2, Zenon
<1>2. k \in unseen
  <2>1. CASE Opened(w) \/ Refuse(w)
    BY <2>1, Zenon DEF Opened, Refuse, client
  <2>2. CASE PositionGone(w) \/ StreamEnds(w)
    BY <2>2, Zenon DEF PositionGone, StreamEnds
  <2>3. CASE Frame(w)
    BY <2>3, Zenon DEF Frame
  <2>4. QED
    BY <2>1, <2>2, <2>3, Zenon
<1>3. ASSUME Tells(watch[w], w, k, moved) PROVE Tells(watch'[w], w, k, moved')
  <2>0. k \in watch[w].tell \/ k \in watch[w].keys
    BY <1>3, SMTT(30) DEF Tells
  <2>1. CASE Refuse(w)
    BY <1>1, <2>0, <2>1, SMTT(30) DEF Tells
  <2>2. CASE Opened(w)
    <3>1. watch'[w].open /\ watch'[w].feed = watch[w].feed
      BY <1>0, <2>2, SMTT(30) DEF Opened, Set, WatchType
    <3>2. ~ Refuse(w)
      BY <1>1, <2>2, ReadingKeeps, SMTT(30)
    <3>3. QED
      BY <1>0, <1>1, <1>3, <3>1, <3>2, Zenon DEF Tells
  <2>3. CASE PositionGone(w)
    <3>1. k \notin watch[w].feed
      BY <2>3, SMTT(30) DEF PositionGone
    <3>2. ~ Refuse(w)
      BY <1>1, <2>3, ReadingKeeps, Zenon
    <3>3. QED
      BY <1>0, <1>1, <1>3, <3>1, <3>2, Zenon DEF Tells
  <2>4. CASE StreamEnds(w)
    <3> DEFINE kept == IF watch[w].id THEN watch[w].feed ELSE {}
    <3>1. watch'[w].id = watch[w].id /\ watch'[w].feed = kept /\ k \notin watch[w].feed \ kept
      BY <1>0, <2>4, Zenon DEF StreamEnds, Set, WatchType
    <3>2. ~ Refuse(w)
      BY <1>1, <2>4, ReadingKeeps, Zenon
    <3>3. QED
      BY <1>0, <1>1, <1>3, <3>1, <3>2, Zenon DEF Tells
  <2>5. CASE Frame(w)
    <3>1. PICK j \in watch[w].feed :
              /\ Set(w, [watch[w] EXCEPT !.id = TRUE, !.feed = @ \ {j}])
              /\ unseen' = IF j \in watch[w].keys THEN unseen \ {j} ELSE unseen
      BY <2>5, Zenon DEF Frame
    <3>2. watch'[w].id /\ watch'[w].feed = watch[w].feed \ {j}
      BY <1>0, <3>1, SMTT(30) DEF Set, WatchType
    <3>3. ~ Refuse(w)
      BY <1>1, <2>5, ReadingKeeps, Zenon
    <3>4. QED
      BY <1>0, <1>1, <1>3, <3>1, <3>2, <3>3, Zenon DEF Tells
  <2>6. QED
    BY <2>1, <2>2, <2>3, <2>4, <2>5, SMTT(30)
<1>4. QED
  BY <1>1, <1>2, <1>3, ToldByOne, Zenon

\* A watch that takes keys goes on telling, and announces those it was moved.
LEMMA TakingTells ==
    ASSUME SubInv, NEW c \in Creds, NEW ks \in SUBSET Keys, \E list \in BOOLEAN : Take(c, ks, list),
           moved \subseteq moved', NEW k
    PROVE  /\ \A v \in Watches : Tells(watch[v], v, k, moved) => Tells(watch'[v], v, k, moved')
           /\ k \in ks /\ <<k, WatchOf(c)>> \in moved' /\ ~ (Joins(c) /\ watch[kbs[c]].pc = "drop") =>
                \E v \in Watches : Tells(watch'[v], v, k, moved')
<1> DEFINE w == WatchOf(c)
<1>1. /\ w \in Watches
      /\ \A v \in Watches : v # w => watch'[v] = watch[v]
      /\ watch'[w].keys = watch[w].keys \cup ks /\ watch'[w].tell = watch[w].tell
      /\ kbs[c] # None =>
           /\ Joins(c) /\ kbs[c] = w /\ watch'[w].pc = watch[w].pc
           /\ watch'[w].open = watch[w].open /\ watch'[w].id = watch[w].id
           /\ watch'[w].feed = watch[w].feed
      /\ kbs[c] = None => watch[w] = Free /\ watch'[w].pc = "run"
  BY TakenKeeps, Zenon
<1>2. kbs[c] # None => watch[w].pc \in Live
  BY <1>1, TiesHere, Zenon DEF Serves
<1> HIDE DEF w
<1>3. Tells(watch[w], w, k, moved) => Tells(watch'[w], w, k, moved')
  <2>1. CASE kbs[c] # None
    BY <1>1, <2>1, Zenon DEF Tells
  <2>2. CASE kbs[c] = None
    BY <1>1, <2>2, SMTT(30) DEF Tells, Free
  <2>3. QED
    BY <2>1, <2>2, ZenonT(30)
<1>4. \A v \in Watches : v # w => (Tells(watch[v], v, k, moved) => Tells(watch'[v], v, k, moved'))
  BY <1>1, Zenon DEF Tells
<1>5. ASSUME k \in ks, <<k, w>> \in moved', ~ (Joins(c) /\ watch[kbs[c]].pc = "drop")
      PROVE  Tells(watch'[w], w, k, moved')
  BY <1>1, <1>2, <1>5, Zenon DEF Tells, Live
<1>6. QED
  BY <1>1, <1>3, <1>4, <1>5, Zenon DEF w

\* No step drops a notice that is owed.
LEMMA ToldStep ==
    ASSUME SubInv, Next, NEW k \in unseen', k \in unseen => Told(k)
    PROVE  Told(k)'
<1>1. ASSUME NEW w \in Watches, Opened(w) \/ Frame(w) \/ PositionGone(w) \/ StreamEnds(w) \/ Refuse(w)
      PROVE  Told(k)'
  BY <1>1, StreamTells, SMTT(30)
<1>2. ASSUME NEW w \in Watches, Strand(w) PROVE Told(k)'
  <2>1. /\ moved' = moved /\ \A v \in Watches : v # w => watch'[v] = watch[v]
        /\ watch[w].pc = "strand" /\ watch'[w].tell = watch[w].keys
    BY <1>2, RefusedKeeps, Zenon
  <2>2. Told(k) /\ Shape(watch[w]) /\ watch[w].cred \in Creds /\ Kept
    BY <1>2, <2>1, TiesHere, KeptHere, Zenon DEF Strand, Shape, Live
  <2>3. \A d \in Creds : stranded[d].keys \subseteq stranded'[d].keys
    BY <1>2, <2>2, SMTT(30) DEF Strand, Stranding, Kept
  <2>4. Tells(watch[w], w, k, moved) => Tells(watch'[w], w, k, moved')
    BY <2>1, <2>2, Zenon DEF Tells, Shape
  <2>5. QED
    BY <2>1, <2>2, <2>3, <2>4, Zenon DEF Told
<1>3. ASSUME NEW w \in Watches, DropWatch(w) PROVE Told(k)'
  <2>1. /\ \A v \in Watches : v # w => watch'[v] = watch[v]
        /\ watch[w].pc = "drop" /\ watch'[w].tell = watch[w].tell
    BY <1>3, DroppedKeeps, Zenon
  <2>2. Told(k) /\ stranded' = stranded /\ moved' = moved
    BY <1>3, Zenon DEF DropWatch, client
  <2>3. Tells(watch[w], w, k, moved) => Tells(watch'[w], w, k, moved')
    BY <2>1, Zenon DEF Tells
  <2>4. QED
    BY <2>1, <2>2, <2>3, ToldByOne, Zenon
<1>4. ASSUME NEW w \in Watches, Tell(w) PROVE Told(k)'
  <2>1. /\ watch[w].pc = "tell" /\ stranded' = stranded /\ moved' = moved
        /\ k \in unseen /\ k \notin watch[w].tell /\ Set(w, Returned(w, moved \cup calls))
    BY <1>4, Zenon DEF Tell
  <2>2. \A v \in Watches : v # w => watch'[v] = watch[v]
    BY <2>1, ReturnedTyped, SetTyped, TiesHere, Zenon
  <2>3. ~ Tells(watch[w], w, k, moved)
    BY <2>1, SMTT(30) DEF Tells
  <2>4. QED
    BY <2>1, <2>2, <2>3, ToldByOne, Zenon
<1>5. ASSUME NEW j \in Keys, NEW w \in Watches, Answer(j, w) \/ Announce(j, w) PROVE Told(k)'
  <2>1. PICK refs : Release(w, refs)
    BY <1>5, Zenon DEF Answer, Announce
  <2>2. \A v \in Watches : v # w => watch'[v] = watch[v]
    BY <2>1, ReturnedTyped, SetTyped, TiesHere, Zenon DEF Release
  <2>3. /\ stranded' = stranded /\ k \in unseen
        /\ \A v \in Watches : v # w => (<<k, v>> \in moved => <<k, v>> \in moved')
    BY <1>5, Zenon DEF Answer, Announce, session
  <2>4. <<k, w>> \in moved => <<k, w>> \in moved' \/ watch[w].link = "refused"
    BY <1>5, Zenon DEF Answer, Announce
  <2>5. Shape(watch[w])
    BY TiesHere, Zenon
  <2>6. Tells(watch[w], w, k, moved) => Tells(watch'[w], w, k, moved')
    <3>1. CASE watch[w].pc = "done"
      BY <2>5, <3>1, SMTT(30) DEF Tells, Shape
    <3>2. CASE watch[w].pc # "done"
      <4>1. watch' = watch
        BY <2>1, <3>2, Zenon DEF Release
      <4>2. QED
        BY <2>4, <2>5, <4>1, SMTT(30) DEF Tells, Shape
    <3>3. QED
      BY <3>1, <3>2, Zenon
  <2>7. ASSUME NEW v \in Watches, v # w, Tells(watch[v], v, k, moved)
        PROVE  Tells(watch'[v], v, k, moved')
    BY <2>2, <2>3, <2>7, Zenon DEF Tells
  <2>8. QED
    BY <2>3, <2>6, <2>7, ToldByOne, Zenon
<1>6. CASE Collect \/ Probe \/ KeeperWakes \/ Pinged
  <2>1. UNCHANGED <<stranded, watch, moved, unseen>>
    BY <1>6, Zenon DEF Collect, Probe, KeeperWakes, Pinged, session, client
  <2>2. QED
    BY <2>1, Zenon DEF Told
<1>7. CASE Apply
  <2> DEFINE c == rehome.cred
             go == StillStranded(rehome.move)
             gone == StillStranded(rehome.drop)
  <2>1. /\ c \in Creds /\ go \in SUBSET Keys
        /\ \A d \in Creds : \A j \in stranded[d].keys : j \in stranded'[d].keys \/ j \in go \/ j \in gone
        /\ unseen' = unseen \ (gone \cup raced')
        /\ \/ go = {} /\ UNCHANGED <<kbs, watch, moved, raced>>
           \/ /\ \E list \in BOOLEAN : Take(c, go, list)
              /\ raced' = IF Joins(c) /\ watch[kbs[c]].pc = "drop" THEN raced \cup go ELSE raced
              /\ moved' = moved \cup {<<j, WatchOf(c)>> : j \in go}
    BY <1>7, ApplyGives, Zenon
  <2> HIDE DEF c, go, gone
  <2>2. k \in unseen /\ k \notin gone /\ k \notin raced' /\ Told(k)
    BY <2>1, Zenon
  <2>3. CASE go = {} /\ UNCHANGED <<kbs, watch, moved, raced>>
    BY <2>1, <2>2, <2>3, Zenon DEF Told
  <2>4. CASE /\ \E list \in BOOLEAN : Take(c, go, list)
             /\ raced' = IF Joins(c) /\ watch[kbs[c]].pc = "drop" THEN raced \cup go ELSE raced
             /\ moved' = moved \cup {<<j, WatchOf(c)>> : j \in go}
    <3>1. /\ \A v \in Watches : Tells(watch[v], v, k, moved) => Tells(watch'[v], v, k, moved')
          /\ k \in go /\ <<k, WatchOf(c)>> \in moved' /\ ~ (Joins(c) /\ watch[kbs[c]].pc = "drop") =>
               \E v \in Watches : Tells(watch'[v], v, k, moved')
      BY <2>1, <2>4, TakingTells, Zenon
    <3>2. k \in go => \E v \in Watches : Tells(watch'[v], v, k, moved')
      BY <2>2, <2>4, <3>1, Zenon
    <3>3. QED
      BY <2>1, <2>2, <3>1, <3>2, Zenon DEF Told
  <2>5. QED
    BY <2>1, <2>3, <2>4, Zenon
<1>8. ASSUME NEW c \in Creds, Request(c) PROVE Told(k)'
  BY <1>8, Zenon DEF Request, client, Told
<1>9. ASSUME NEW c \in Creds, NEW ks \in SUBSET Keys, \E list \in BOOLEAN : Take(c, ks, list),
             UNCHANGED <<stranded, moved, client>>
      PROVE  Told(k)'
  <2>1. \A v \in Watches : Tells(watch[v], v, k, moved) => Tells(watch'[v], v, k, moved')
    BY <1>9, TakingTells, Zenon
  <2>2. QED
    BY <1>9, <2>1, SMTT(30) DEF Told, client
<1>10. ASSUME NEW c \in Creds, WatchListChanges(c) PROVE Told(k)'
  <2>1. {} \in SUBSET Keys /\ (\E list \in BOOLEAN : Take(c, {}, list)) /\ UNCHANGED <<stranded, moved, client>>
    BY <1>10, Zenon DEF WatchListChanges
  <2>2. QED
    BY <1>9, <2>1, Zenon
<1>11. ASSUME NEW c \in Creds, NEW j \in Keys, Subscribe(c, j) PROVE Told(k)'
  BY <1>9, <1>11, Zenon DEF Subscribe
<1>12. ASSUME NEW c \in Creds, NEW j \in Keys, Unsubscribe(c, j) PROVE Told(k)'
  <2>1. /\ k \in unseen /\ k # j /\ moved' = moved /\ Told(k)
        /\ \A d \in Creds : stranded'[d].keys = stranded[d].keys \ {j}
    BY <1>12, KeptHere, Zenon DEF Unsubscribe, Kept
  <2>2. \A v \in Watches :
          /\ watch[v].keys \ {j} \subseteq watch'[v].keys
          /\ watch'[v].tell = watch[v].tell /\ watch'[v].open = watch[v].open
          /\ watch'[v].id = watch[v].id /\ watch'[v].feed = watch[v].feed
          /\ watch[v].keys \ {j} # {} => watch'[v].pc = watch[v].pc
    BY <1>12, UnsubscribedKeeps, SMTT(30)
  <2>3. ASSUME NEW v \in Watches, Tells(watch[v], v, k, moved) PROVE Tells(watch'[v], v, k, moved')
    BY <2>1, <2>2, <2>3, Zenon DEF Tells
  <2>4. QED
    BY <2>1, <2>3, Zenon DEF Told
<1>13. ASSUME NEW j \in Keys, Write(j) PROVE Told(k)'
  <2>1. /\ stranded' = stranded /\ moved' = moved
        /\ \A v \in Watches :
             /\ watch'[v].pc = watch[v].pc /\ watch'[v].keys = watch[v].keys
             /\ watch'[v].tell = watch[v].tell /\ watch'[v].open = watch[v].open
             /\ watch'[v].id = watch[v].id /\ watch[v].feed \subseteq watch'[v].feed
             /\ Sees(v) => j \in watch'[v].feed
    BY <1>13, WriteKeeps, Zenon
  <2>2. Told(k) => Told(k)'
    BY <2>1, Zenon DEF Told, Tells
  <2>3. CASE k \in unseen
    BY <2>2, <2>3, Zenon
  <2>4. CASE k \notin unseen
    <3>1. k = j /\ (OnItsWay(j) \/ \E w \in Watches : Sees(w) /\ j \in watch[w].keys)
      BY <1>13, <2>4, Zenon DEF Write
    <3>2. CASE OnItsWay(j)
      BY <2>2, <3>1, <3>2, ToldIs, Zenon
    <3>3. ASSUME NEW w \in Watches, Sees(w), j \in watch[w].keys PROVE Told(k)'
      <4>1. Tells(watch'[w], w, k, moved')
        BY <2>1, <3>1, <3>3, Zenon DEF Sees, Tells
      <4>2. QED
        BY <4>1, SMTT(30) DEF Told
    <3>4. QED
      BY <3>1, <3>2, <3>3, Zenon
  <2>5. QED
    BY <2>3, <2>4, Zenon
<1>14. ASSUME NEW c \in Creds, Expire(c) PROVE Told(k)'
  <2>1. /\ UNCHANGED <<watch, moved>> /\ k \in unseen /\ k \notin stranded[c].keys
        /\ stranded' = [stranded EXCEPT ![c] = Empty]
    BY <1>14, Zenon DEF Expire
  <2>2. \A d \in Creds : d # c => stranded'[d] = stranded[d]
    BY <2>1, KeptHere, Zenon DEF Kept
  <2>3. QED
    BY <2>1, <2>2, Zenon DEF Told
<1>15. QED
  BY <1>1, <1>2, <1>3, <1>4, <1>5, <1>6, <1>7, <1>8, <1>10, <1>11, <1>12, <1>13, <1>14, Zenon DEF Next

-----------------------------------------------------------------------------
(* The keeper runs while anything is subscribed.                            *)

\* Only a subscribe makes a session subscribed.
LEMMA SubscribedStep ==
    ASSUME SubInv, Next, AnySubscribed'
    PROVE  AnySubscribed \/ \E c \in Creds, j \in Keys : Subscribe(c, j)
<1>1. ASSUME NEW w \in Watches, Opened(w) \/ Frame(w) \/ PositionGone(w) \/ StreamEnds(w) \/ Refuse(w)
      PROVE  AnySubscribed
  <2>1. /\ kbs' = kbs /\ stranded' = stranded
        /\ \A v \in Watches : watch'[v].keys = watch[v].keys
    BY <1>1, ReadingKeeps, RefusedKeeps, Zenon DEF Refuse, session
  <2>2. \A c \in Creds : kbs[c] # None => kbs[c] \in Watches
    BY TiesHere, Zenon
  <2>3. QED
    BY <2>1, <2>2, Zenon DEF AnySubscribed
<1>2. ASSUME NEW w \in Watches, Strand(w) PROVE AnySubscribed
  <2>1. /\ kbs' = kbs /\ watch[w].pc = "strand" /\ \A v \in Watches : watch'[v].keys = watch[v].keys
    BY <1>2, RefusedKeeps, Zenon
  <2>2. /\ watch[w].cred \in Creds /\ Kept /\ (watch[w].keys # {} => kbs[watch[w].cred] = w)
        /\ w # None
        /\ \A c \in Creds : kbs[c] # None => kbs[c] \in Watches
    BY <2>1, TiesHere, KeptHere, NoneIsNothing, Zenon DEF Shape, Owned, Live
  <2>3. \A d \in Creds : stranded'[d].keys \subseteq stranded[d].keys \cup watch[w].keys
    BY <1>2, <2>2 DEF Strand, Stranding, Kept
  <2>4. CASE watch[w].keys # {}
    BY <2>2, <2>4, Zenon DEF AnySubscribed
  <2>5. CASE watch[w].keys = {}
    BY <2>1, <2>2, <2>3, <2>5, Zenon DEF AnySubscribed
  <2>6. QED
    BY <2>4, <2>5, Zenon
<1>3. ASSUME NEW w \in Watches, DropWatch(w) PROVE AnySubscribed
  <2>1. /\ \A c \in Creds : kbs'[c] = IF kbs[c] = w THEN None ELSE kbs[c]
        /\ \A v \in Watches : v # w => watch'[v] = watch[v]
    BY <1>3, DroppedKeeps, Zenon
  <2>2. stranded' = stranded /\ \A c \in Creds : kbs[c] # None => kbs[c] \in Watches
    BY <1>3, TiesHere, Zenon DEF DropWatch
  <2>3. QED
    BY <2>1, <2>2 DEF AnySubscribed
<1>4. ASSUME NEW w \in Watches, Tell(w) \/ \E j \in Keys : Answer(j, w) \/ Announce(j, w)
      PROVE  AnySubscribed
  <2>1. PICK refs : (watch[w].pc \in {"tell", "done"} /\ Set(w, Returned(w, refs))) \/ watch' = watch
    BY <1>4, Zenon DEF Tell, Answer, Announce, Release
  <2>2. kbs' = kbs /\ stranded' = stranded
    BY <1>4, Zenon DEF Tell, Answer, Announce, session
  <2>3. \A c \in Creds : kbs[c] # None => watch'[kbs[c]] = watch[kbs[c]]
    <3>1. CASE watch' = watch
      BY <3>1, Zenon
    <3>2. CASE watch[w].pc \in {"tell", "done"} /\ Set(w, Returned(w, refs))
      <4>1. \A v \in Watches : v # w => watch'[v] = watch[v]
        BY <3>2, ReturnedTyped, SetTyped, TiesHere, Zenon
      <4>2. \A c \in Creds : kbs[c] # None => kbs[c] \in Watches /\ watch[kbs[c]].pc \in Live
        BY TiesHere, Zenon DEF Serves
      <4>3. QED
        BY <3>2, <4>1, <4>2, Zenon DEF Live
    <3>3. QED
      BY <2>1, <3>1, <3>2, Zenon
  <2>4. QED
    BY <2>2, <2>3, Zenon DEF AnySubscribed
<1>5. CASE Collect \/ Probe \/ KeeperWakes \/ Pinged
  BY <1>5, Zenon DEF Collect, Probe, KeeperWakes, Pinged, session, AnySubscribed
<1>6. ASSUME NEW c \in Creds, \E list \in BOOLEAN : Take(c, {}, list),
             NEW d \in Creds, kbs'[d] # None, watch'[kbs'[d]].keys # {}
      PROVE  AnySubscribed
  <2> DEFINE w == WatchOf(c)
  <2>1. /\ w \in Watches /\ kbs'[c] = w
        /\ \A e \in Creds : e # c => kbs'[e] = kbs[e]
        /\ \A v \in Watches : v # w => watch'[v] = watch[v]
        /\ watch'[w].keys = watch[w].keys \cup {}
        /\ kbs[c] # None => kbs[c] = w
        /\ kbs[c] = None => watch[w] = Free
    <3>1. {} \in SUBSET Keys
      BY Zenon
    <3>2. QED
      BY <1>6, <3>1, TakenKeeps, Zenon
  <2>2. \A e \in Creds : kbs[e] # None => kbs[e] \in Watches
    BY TiesHere, Zenon
  <2> HIDE DEF w
  <2>3. CASE d = c
    BY <1>6, <2>1, <2>3, SMTT(30) DEF AnySubscribed, Free
  <2>4. CASE d # c
    BY <1>6, <2>1, <2>2, <2>4, SMTT(30) DEF AnySubscribed
  <2>5. QED
    BY <2>3, <2>4, SMTT(30)
<1>7. CASE Apply
  <2> DEFINE c == rehome.cred
             go == StillStranded(rehome.move)
  <2>1. /\ c \in Creds /\ go \in SUBSET Keys
        /\ \A j \in go : \E d \in Creds : j \in stranded[d].keys
        /\ \A d \in Creds : stranded'[d].keys \subseteq stranded[d].keys
        /\ \/ go = {} /\ UNCHANGED <<kbs, watch, moved, raced>>
           \/ \E list \in BOOLEAN : Take(c, go, list)
    BY <1>7, ApplyGives, Zenon
  <2> HIDE DEF c, go
  <2>2. CASE \E d \in Creds : stranded[d].keys # {}
    BY <2>2, Zenon DEF AnySubscribed
  <2>3. CASE ~ \E d \in Creds : stranded[d].keys # {}
    <3>1. go = {} /\ \A d \in Creds : stranded'[d].keys = {}
      BY <2>1, <2>3, Zenon
    <3>2. PICK d \in Creds : kbs'[d] # None /\ watch'[kbs'[d]].keys # {}
      BY <3>1, Zenon DEF AnySubscribed
    <3>3. CASE UNCHANGED <<kbs, watch, moved, raced>>
      BY <3>2, <3>3, Zenon DEF AnySubscribed
    <3>4. CASE \E list \in BOOLEAN : Take(c, go, list)
      <4>1. \E list \in BOOLEAN : Take(c, {}, list)
        BY <3>1, <3>4, Zenon
      <4>2. QED
        BY <1>6, <2>1, <3>2, <4>1, Zenon
    <3>5. QED
      BY <2>1, <3>3, <3>4, Zenon
  <2>4. QED
    BY <2>2, <2>3, Zenon
<1>8. ASSUME NEW c \in Creds, WatchListChanges(c) PROVE AnySubscribed
  <2>1. stranded' = stranded /\ {} \in SUBSET Keys /\ \E list \in BOOLEAN : Take(c, {}, list)
    BY <1>8, Zenon DEF WatchListChanges
  <2>2. CASE \E d \in Creds : stranded[d].keys # {}
    BY <2>2, Zenon DEF AnySubscribed
  <2>3. CASE ~ \E d \in Creds : stranded[d].keys # {}
    <3>1. PICK d \in Creds : kbs'[d] # None /\ watch'[kbs'[d]].keys # {}
      BY <2>1, <2>3, Zenon DEF AnySubscribed
    <3>2. QED
      BY <1>6, <2>1, <3>1, Zenon
  <2>4. QED
    BY <2>2, <2>3, Zenon
<1>9. ASSUME NEW c \in Creds, NEW j \in Keys, Unsubscribe(c, j) PROVE AnySubscribed
  <2>1. /\ \A d \in Creds : kbs'[d] # None => kbs'[d] = kbs[d] /\ kbs[d] \in Watches
        /\ \A v \in Watches : watch'[v].keys \subseteq watch[v].keys
    BY <1>9, UnsubscribedKeeps, TiesHere, Zenon
  <2>2. \A d \in Creds : stranded'[d].keys = stranded[d].keys \ {j}
    BY <1>9, KeptHere, Zenon DEF Unsubscribe, Kept
  <2>3. QED
    BY <2>1, <2>2, SMTT(30) DEF AnySubscribed
<1>10. ASSUME NEW j \in Keys, Write(j) PROVE AnySubscribed
  <2>1. /\ kbs' = kbs /\ stranded' = stranded
        /\ \A v \in Watches : watch'[v].keys = watch[v].keys
    BY <1>10, WriteKeeps, Zenon
  <2>2. \A c \in Creds : kbs[c] # None => kbs[c] \in Watches
    BY TiesHere, SMTT(30)
  <2>3. QED
    BY <2>1, <2>2, Zenon DEF AnySubscribed
<1>11. ASSUME NEW c \in Creds, Expire(c) PROVE AnySubscribed
  <2>1. UNCHANGED <<kbs, watch>> /\ stranded' = [stranded EXCEPT ![c] = Empty]
    BY <1>11, Zenon DEF Expire
  <2>2. \A d \in Creds : stranded'[d].keys = IF d = c THEN {} ELSE stranded[d].keys
    BY <2>1, KeptHere, Zenon DEF Kept, Empty
  <2>3. QED
    BY <2>1, <2>2, SMTT(30) DEF AnySubscribed
<1>12. ASSUME NEW c \in Creds, Request(c) PROVE AnySubscribed
  BY <1>12, Zenon DEF Request, AnySubscribed
<1>13. QED
  BY <1>1, <1>2, <1>3, <1>4, <1>5, <1>7, <1>8, <1>9, <1>10, <1>11, <1>12, Zenon DEF Next

LEMMA EndedStays ==
    ASSUME Next, ~ ended'
    PROVE  ~ ended
<1>1. ASSUME NEW w \in Watches, Opened(w) \/ Frame(w) \/ PositionGone(w) \/ StreamEnds(w) \/ Refuse(w)
      PROVE  ~ ended
  BY <1>1, Zenon DEF Opened, Frame, PositionGone, StreamEnds, Refuse, Forwards
<1>2. ASSUME NEW w \in Watches, Strand(w) \/ DropWatch(w) \/ Tell(w) PROVE ~ ended
  BY <1>2, SMTT(30) DEF Strand, DropWatch, Tell
<1>3. ASSUME NEW j \in Keys, NEW w \in Watches, Answer(j, w) \/ Announce(j, w) PROVE ~ ended
  BY <1>3, Zenon DEF Answer, Announce
<1>4. CASE Collect \/ Probe \/ Apply \/ KeeperWakes \/ Pinged
  BY <1>4, Zenon DEF Collect, Probe, Apply, KeeperWakes, Pinged
<1>5. ASSUME NEW c \in Creds, Request(c) \/ WatchListChanges(c) \/ Expire(c) PROVE ~ ended
  BY <1>5, Zenon DEF Request, WatchListChanges, Expire, NoteCaller
<1>6. ASSUME NEW c \in Creds, NEW j \in Keys, Subscribe(c, j) \/ Unsubscribe(c, j) PROVE ~ ended
  BY <1>6, Zenon DEF Subscribe, Unsubscribe, NoteCaller
<1>7. ASSUME NEW j \in Keys, Write(j) PROVE ~ ended
  BY <1>7, Zenon DEF Write
<1>8. QED
  BY <1>1, <1>2, <1>3, <1>4, <1>5, <1>6, <1>7, Zenon DEF Next

\* The keeper stands down only when nothing is subscribed.
LEMMA KeeperStep ==
    ASSUME SubInv, KeeperRuns, Next
    PROVE  KeeperRuns'
<1>0. SUFFICES ASSUME AnySubscribed', ~ ended' PROVE keeper' # "off"
  BY Zenon DEF KeeperRuns
<1>1. ASSUME NEW c \in Creds, NEW j \in Keys, Subscribe(c, j) PROVE keeper' # "off"
  BY <1>1, Zenon DEF Subscribe
<1>2. CASE Pinged
  BY <1>0, <1>2, Zenon DEF Pinged
<1>3. CASE KeeperWakes
  <2>1. UNCHANGED <<kbs, stranded, watch>>
    BY <1>3, Zenon DEF KeeperWakes, session
  <2>2. AnySubscribed
    BY <1>0, <2>1, Zenon DEF AnySubscribed
  <2>3. QED
    BY <1>3, <2>2, Zenon DEF KeeperWakes, StandDown
<1>4. CASE ~ (Pinged \/ KeeperWakes \/ \E c \in Creds, j \in Keys : Subscribe(c, j))
  <2>1. keeper' = keeper /\ ended' = ended
    <3>1. ASSUME NEW w \in Watches,
                 Opened(w) \/ Frame(w) \/ PositionGone(w) \/ StreamEnds(w) \/ Refuse(w) \/ Strand(w)
          PROVE  keeper' = keeper /\ ended' = ended
      BY <3>1, Zenon DEF Opened, Frame, PositionGone, StreamEnds, Refuse, Strand
    <3>2. ASSUME NEW w \in Watches,
                 DropWatch(w) \/ Tell(w) \/ \E j \in Keys : Answer(j, w) \/ Announce(j, w)
          PROVE  keeper' = keeper /\ ended' = ended
      BY <3>2, Zenon DEF DropWatch, Tell, Answer, Announce
    <3>3. ASSUME NEW c \in Creds, Request(c) \/ WatchListChanges(c) \/ Expire(c)
          PROVE  keeper' = keeper /\ ended' = ended
      BY <3>3, Zenon DEF Request, WatchListChanges, Expire
    <3>4. ASSUME NEW c \in Creds, NEW j \in Keys, Unsubscribe(c, j) \/ Write(j)
          PROVE  keeper' = keeper /\ ended' = ended
      BY <3>4, Zenon DEF Unsubscribe, Write
    <3>5. ASSUME NEW j \in Keys, Write(j) PROVE keeper' = keeper /\ ended' = ended
      BY <3>5, Zenon DEF Write
    <3>6. CASE Collect \/ Probe \/ Apply
      BY <3>6, Zenon DEF Collect, Probe, Apply
    <3>7. QED
      BY <1>4, <3>1, <3>2, <3>3, <3>4, <3>5, <3>6, Zenon DEF Next
  <2>2. AnySubscribed
    BY <1>0, <1>4, SubscribedStep, Zenon
  <2>3. QED
    BY <1>0, <2>1, <2>2, Zenon DEF KeeperRuns
<1>5. QED
  BY <1>1, <1>2, <1>3, <1>4, Zenon

\* A write of a subscribed key that a stream saw, or that fell into a stranding or
\* a move, has its notice on its way, and a keeper holds the session open while
\* anything is subscribed (forward, announce_moved, stand_down_if_idle).
THEOREM SubscribersHearOfWrites == Spec => []SubscribersAreTold
<1>1. Init => SubscribersAreTold
  BY SMTT(30) DEF Init, SubscribersAreTold, WrittenIsTold, KeeperRuns, AnySubscribed, Empty
<1>2. SubInv /\ SubscribersAreTold /\ [Next]_vars => SubscribersAreTold'
  <2>1. ASSUME SubInv, SubscribersAreTold, Next PROVE SubscribersAreTold'
    <3>1. KeeperRuns'
      BY <2>1, KeeperStep, Zenon DEF SubscribersAreTold
    <3>2. WrittenIsTold'
      <4>1. SUFFICES ASSUME ~ ended', NEW k \in unseen' PROVE Told(k)'
        BY ToldIs, Zenon DEF WrittenIsTold, Told, Tells, OnItsWay, Sees
      <4>2. ~ ended
        BY <2>1, <4>1, EndedStays, Zenon
      <4>3. k \in unseen => Told(k)
        BY <2>1, <4>2, ToldIs, SMTT(30) DEF SubscribersAreTold, WrittenIsTold
      <4>4. QED
        BY <2>1, <4>1, <4>3, ToldStep, Zenon
    <3>3. QED
      BY <3>1, <3>2, Zenon DEF SubscribersAreTold
  <2>2. ASSUME SubscribersAreTold, UNCHANGED vars PROVE SubscribersAreTold'
    BY <2>2, Zenon DEF vars, session, client, SubscribersAreTold, WrittenIsTold, KeeperRuns, OnItsWay, Sees,
                AnySubscribed
  <2>3. QED
    BY <2>1, <2>2, Zenon
<1>3. QED
  BY <1>1, <1>2, SubscriptionsAreTied, PTL DEF Spec
=============================================================================
