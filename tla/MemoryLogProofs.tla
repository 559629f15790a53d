--------------------------- MODULE MemoryLogProofs ---------------------------
(***************************************************************************)
(* Proofs about the in-memory log, about the change feed served from it and *)
(* about the connections it is served on, for every ring capacity, channel  *)
(* depth, number of subscriptions, log, query and grant.                    *)
(***************************************************************************)
EXTENDS EventStream, TLAPS, FiniteSetTheorems

\* The ring holds the newest Capacity ids.
RingIsNewest == ring = {i \in 1 .. Latest : i + Capacity > Latest}

\* A stream's cursor, backlog and receiver divide the ids up.
SubOK(s) ==
    /\ state[s] \in {"open", "lagged"} =>
          /\ start[s] <= cursor[s]
          /\ cursor[s] <= Latest
          /\ got[s] = {i \in (start[s] + 1) .. cursor[s] : log[i] = kb[s]}
    /\ state[s] = "open" =>
          /\ cursor[s] < rx[s]
          /\ rx[s] <= NextId
          /\ backlog[s] = (cursor[s] + 1) .. (rx[s] - 1)

LogInv ==
    /\ TypeOK
    /\ RingIsNewest
    /\ \A s \in Subs : SubOK(s)

\* A queue that is not empty.
LEMMA HeadAndTail ==
    ASSUME NEW S, NEW q \in Seq(S), q # <<>>
    PROVE  Tail(q) \in Seq(S) /\ Head(q) \in S
OBVIOUS

\* Popping the front down to the capacity leaves the newest ids.
LEMMA NewestInterval ==
    ASSUME NEW n \in Nat, NEW S, S = {i \in 1 .. n : i + Capacity > n}
    PROVE  Newest(S \cup {n + 1}) = {i \in 1 .. (n + 1) : i + Capacity > n + 1}
<1> DEFINE T == S \cup {n + 1}
<1>1. \A i \in T : {j \in T : j >= i} = i .. (n + 1)
    BY CapacityAssumption
<1>2. \A i \in T : i \in Nat /\ i <= n + 1
    BY CapacityAssumption
<1>3. \A i \in T : Cardinality({j \in T : j >= i}) = n + 2 - i
  <2>1. ASSUME NEW i \in T PROVE Cardinality(i .. (n + 1)) = n + 2 - i
    <3>1. i \in Int /\ n + 1 \in Int /\ i <= n + 1
        BY <1>2
    <3>2. Cardinality(i .. (n + 1)) = IF i > n + 1 THEN 0 ELSE (n + 1) - i + 1
        BY <3>1, FS_Interval, Zenon
    <3> QED
        BY <3>1, <3>2
  <2> QED
      BY <2>1, <1>1, Zenon
<1>4. Newest(T) = {i \in T : n + 2 - i <= Capacity}
    BY <1>3, Zenon DEF Newest
<1>5. {i \in T : n + 2 - i <= Capacity} = {i \in 1 .. (n + 1) : i + Capacity > n + 1}
    BY <1>2, CapacityAssumption
<1> QED
    BY <1>4, <1>5, Zenon

\* The ring's front, and what lies between a position and the newest id.
LEMMA OldestOfRing ==
    ASSUME LogInv
    PROVE  /\ Latest \in Nat
           /\ Oldest \in Nat \ {0}
           /\ Oldest <= NextId
           /\ \A i \in 1 .. Latest : i \in ring <=> i >= Oldest
<1>1. Latest \in Nat
    BY DEF LogInv, TypeOK, Latest
<1>2. CASE Latest = 0
  <2>1. ring = {}
      BY <1>2 DEF LogInv, RingIsNewest
  <2> QED
      BY <1>1, <1>2, <2>1 DEF Oldest, NextId
<1>3. CASE Latest # 0
  <2> DEFINE lo == IF Latest < Capacity THEN 1 ELSE Latest - Capacity + 1
  <2>1. lo \in ring /\ (\A j \in ring : lo <= j) /\ lo \in Nat \ {0} /\ lo <= Latest
      BY <1>1, <1>3, CapacityAssumption DEF LogInv, RingIsNewest
  <2>2. \A i \in ring : i \in Nat
      BY DEF LogInv, TypeOK
  <2> HIDE DEF lo
  <2>3. Oldest \in ring /\ \A j \in ring : Oldest <= j
      BY <2>1, Zenon DEF Oldest
  <2>4. Oldest = lo
      BY <2>1, <2>2, <2>3
  <2>5. \A i \in 1 .. Latest : i \in ring <=> i >= lo
      BY <1>1, CapacityAssumption DEF LogInv, RingIsNewest, lo
  <2> QED
      BY <1>1, <2>1, <2>4, <2>5 DEF NextId
<1> QED
    BY <1>1, <1>2, <1>3, Zenon

\* subscribe refuses a position exactly when it would miss an event.
LEMMA GoneExactly ==
    ASSUME LogInv, NEW a \in Nat
    PROVE  IsGone(a) <=> a > Latest \/ \E i \in (a + 1) .. Latest : i \notin ring
<1>1. /\ Latest \in Nat
      /\ Oldest \in Nat \ {0}
      /\ Oldest <= NextId
      /\ \A i \in 1 .. Latest : i \in ring <=> i >= Oldest
    BY OldestOfRing, Zenon
<1>2. ASSUME a < Latest, a + 1 < Oldest PROVE a + 1 \in (a + 1) .. Latest /\ a + 1 \notin ring
    BY <1>1, <1>2
<1>3. ASSUME NEW i \in (a + 1) .. Latest, i \notin ring PROVE a < Latest /\ a + 1 < Oldest
    BY <1>1, <1>3
<1> QED
    BY <1>2, <1>3, Zenon DEF IsGone, Behind
\* What Ring::after returns.
LEMMA AfterInRing ==
    ASSUME LogInv, NEW c \in Nat
    PROVE  /\ After(c) \in SUBSET Nat
           /\ (\A i \in (c + 1) .. Latest : i \in ring) => After(c) = (c + 1) .. Latest
<1>1. \A i \in ring : i \in Nat /\ i <= Latest
    BY DEF LogInv, RingIsNewest, TypeOK
<1>2. Latest \in Nat
    BY OldestOfRing, Zenon
<1>3. After(c) \in SUBSET Nat
    BY <1>1, Zenon DEF After
<1>4. ASSUME \A i \in (c + 1) .. Latest : i \in ring
      PROVE  After(c) = (c + 1) .. Latest
  <2>1. ASSUME NEW i \in After(c) PROVE i \in (c + 1) .. Latest
      BY <1>1, <1>2, <2>1 DEF After
  <2>2. ASSUME NEW i \in (c + 1) .. Latest PROVE i \in After(c)
      BY <1>2, <1>4, <2>2 DEF After
  <2> QED
      BY <2>1, <2>2, Zenon
<1> QED
    BY <1>3, <1>4, Zenon

\* A log that has just been built, and readers that hold no stream yet, satisfy the inductive invariant.
LEMMA LogInvInit == Init => LogInv
<1> SUFFICES ASSUME Init PROVE LogInv
    BY Zenon
<1>1. log \in Seq(Kbs) /\ Latest = 0
    BY DEF Init, Latest
<1>2. TypeOK
    BY <1>1 DEF Init, TypeOK
<1>3. RingIsNewest
    BY <1>1 DEF Init, RingIsNewest
<1> QED
    BY <1>2, <1>3, Zenon DEF LogInv, SubOK, Init

\* A stream other than the one that moves, while the log stands still.
LEMMA OthersKept ==
    ASSUME NEW s \in Subs, SubOK(s), UNCHANGED log,
           state'[s] = state[s], kb'[s] = kb[s], backlog'[s] = backlog[s], rx'[s] = rx[s],
           cursor'[s] = cursor[s], start'[s] = start[s], got'[s] = got[s]
    PROVE  SubOK(s)'
    BY Zenon DEF SubOK, Latest, NextId

\* A new stream follows its position without a hole.
LEMMA OpenKeeps ==
    ASSUME LogInv, NEW s \in Subs, NEW k \in Kbs, NEW c \in Nat, NEW replay,
           c <= Latest, replay = (c + 1) .. Latest, Open(s, k, replay, c)
    PROVE  LogInv'
<1>1. Latest \in Nat /\ Latest' = Latest
    BY OldestOfRing, Zenon DEF Open, logVars, Latest
<1>2. TypeOK'
    BY <1>1 DEF LogInv, TypeOK, Open, logVars, NextId
<1>3. RingIsNewest'
    BY <1>1, Zenon DEF LogInv, RingIsNewest, Open, logVars
<1>4. SubOK(s)'
  <2>1. /\ state'[s] = "open" /\ backlog'[s] = (c + 1) .. Latest /\ rx'[s] = Latest + 1
        /\ cursor'[s] = c /\ start'[s] = c /\ got'[s] = {}
      BY Zenon DEF Open, LogInv, TypeOK, NextId
  <2> QED
      BY <1>1, <2>1 DEF SubOK, NextId
<1>5. ASSUME NEW t \in Subs, t # s PROVE SubOK(t)'
  <2>1. /\ state'[t] = state[t] /\ kb'[t] = kb[t] /\ backlog'[t] = backlog[t] /\ rx'[t] = rx[t]
        /\ cursor'[t] = cursor[t] /\ start'[t] = start[t] /\ got'[t] = got[t] /\ UNCHANGED log
      BY <1>5, Zenon DEF Open, LogInv, TypeOK, logVars
  <2> QED
      BY <2>1, OthersKept, Zenon DEF LogInv
<1> QED
    BY <1>2, <1>3, <1>4, <1>5, Zenon DEF LogInv

\* A stream that passes the entry after its cursor.
LEMMA PassKeeps ==
    ASSUME LogInv, NEW s \in Subs, NEW i \in Nat, state[s] = "open", i = cursor[s] + 1, i <= Latest,
           Pass(s, i), UNCHANGED <<logVars, state, kb, start>>,
           backlog' \in [Subs -> SUBSET Nat], rx' \in [Subs -> Nat \ {0}],
           \A t \in Subs : t # s => backlog'[t] = backlog[t] /\ rx'[t] = rx[t],
           backlog'[s] = (i + 1) .. (rx'[s] - 1), i < rx'[s], rx'[s] <= NextId
    PROVE  LogInv'
<1>1. Latest \in Nat /\ Latest' = Latest
    BY OldestOfRing, Zenon DEF logVars, Latest
<1>2. /\ cursor' = [cursor EXCEPT ![s] = i]
      /\ got' = [got EXCEPT ![s] = IF log[i] = kb[s] THEN got[s] \cup {i} ELSE got[s]]
      /\ cursor[s] \in Nat /\ start[s] \in Nat
    BY DEF Pass, LogInv, TypeOK
<1>3. TypeOK'
    BY <1>1, <1>2, Zenon DEF LogInv, TypeOK, logVars
<1>4. RingIsNewest'
    BY <1>1, Zenon DEF LogInv, RingIsNewest, logVars
<1>5. SubOK(s)'
  <2>1. /\ start[s] <= cursor[s] /\ cursor[s] <= Latest
        /\ got[s] = {j \in (start[s] + 1) .. cursor[s] : log[j] = kb[s]}
      BY Zenon DEF LogInv, SubOK
  <2>2. cursor'[s] = i /\ got'[s] = IF log[i] = kb[s] THEN got[s] \cup {i} ELSE got[s]
      BY <1>2, Zenon DEF LogInv, TypeOK
  <2>3. (start[s] + 1) .. i = ((start[s] + 1) .. cursor[s]) \cup {i}
      BY <1>2, <2>1
  <2>4. got'[s] = {j \in (start[s] + 1) .. i : log[j] = kb[s]}
      BY <2>1, <2>2, <2>3, Zenon
  <2> QED
      BY <1>1, <1>2, <2>1, <2>2, <2>4 DEF SubOK, logVars, NextId
<1>6. ASSUME NEW t \in Subs, t # s PROVE SubOK(t)'
  <2>1. cursor'[t] = cursor[t] /\ got'[t] = got[t]
      BY <1>2, <1>6, Zenon DEF LogInv, TypeOK
  <2> QED
      BY <1>6, <2>1, OthersKept, Zenon DEF LogInv, logVars
<1> QED
    BY <1>3, <1>4, <1>5, <1>6, Zenon DEF LogInv

\* Every publish, subscribe, resume, delivery, lag and close of the log preserves it.
LEMMA LogInvStep ==
    ASSUME LogInv, [Next]_vars
    PROVE  LogInv'
<1>0. /\ Latest \in Nat
      /\ Oldest \in Nat \ {0}
      /\ Oldest <= NextId
      /\ \A i \in 1 .. Latest : i \in ring <=> i >= Oldest
      /\ ring \subseteq 1 .. Latest
    BY OldestOfRing, Zenon DEF LogInv, TypeOK
<1>1. ASSUME NEW k \in Kbs, Publish(k) PROVE LogInv'
  <2>1. /\ log' \in Seq(Kbs)
        /\ Latest' = Latest + 1
        /\ \A i \in 1 .. Latest : log'[i] = log[i]
    <3>1. /\ log \in Seq(Kbs)
          /\ log' = Append(log, k)
        BY <1>1, Zenon DEF Publish, LogInv, TypeOK
    <3> QED
        BY <3>1 DEF Latest
  <2>2. RingIsNewest'
      BY <1>0, <1>1, <2>1, NewestInterval, Zenon DEF LogInv, RingIsNewest, Publish, NextId
  <2>3. TypeOK'
      BY <1>1, <2>1, <2>2, Zenon DEF LogInv, TypeOK, Publish, subVars, RingIsNewest
  <2>4. ASSUME NEW s \in Subs PROVE SubOK(s)'
    <3>1. UNCHANGED <<state, kb, backlog, rx, cursor, start, got>>
        BY <1>1, Zenon DEF Publish, subVars
    <3>2. cursor[s] \in Nat /\ start[s] \in Nat /\ rx[s] \in Nat
        BY Zenon DEF LogInv, TypeOK
    <3>3. ASSUME state[s] \in {"open", "lagged"}
          PROVE  /\ start[s] <= cursor[s]
                 /\ cursor[s] <= Latest
                 /\ got[s] = {i \in (start[s] + 1) .. cursor[s] : log'[i] = kb[s]}
      <4>1. /\ start[s] <= cursor[s] /\ cursor[s] <= Latest
            /\ got[s] = {i \in (start[s] + 1) .. cursor[s] : log[i] = kb[s]}
          BY <3>3, Zenon DEF LogInv, SubOK
      <4>2. \A i \in (start[s] + 1) .. cursor[s] : log'[i] = log[i]
          BY <1>0, <2>1, <3>2, <4>1
      <4> QED
          BY <4>1, <4>2, Zenon
    <3> QED
        BY <1>0, <2>1, <3>1, <3>2, <3>3 DEF LogInv, SubOK, NextId
  <2> QED
      BY <2>2, <2>3, <2>4, Zenon DEF LogInv
<1>2. ASSUME NEW s \in Subs, NEW k \in Kbs, Attach(s, k) PROVE LogInv'
  <2>1. {} = (Latest + 1) .. Latest
      BY <1>0
  <2> QED
      BY <1>0, <1>2, <2>1, OpenKeeps DEF Attach
<1>3. ASSUME NEW s \in Subs, NEW k \in Kbs, NEW a \in 0 .. MaxEvents + 1, Resume(s, k, a) PROVE LogInv'
  <2>1. a \in Nat /\ ~IsGone(a)
      BY <1>3, MaxEventsAssumption DEF Resume
  <2>2. a <= Latest /\ \A i \in (a + 1) .. Latest : i \in ring
      BY <1>0, <2>1, GoneExactly
  <2>3. After(a) = (a + 1) .. Latest
      BY <2>1, <2>2, AfterInRing, Zenon
  <2>4. CASE a < Latest
      BY <1>3, <2>1, <2>2, <2>3, <2>4, OpenKeeps, Zenon DEF Resume
  <2>5. CASE ~(a < Latest)
    <3>1. {} = (Latest + 1) .. Latest
        BY <1>0
    <3> QED
        BY <1>0, <1>3, <2>5, <3>1, OpenKeeps DEF Resume
  <2> QED
      BY <2>4, <2>5, Zenon
<1>4. ASSUME NEW s \in Subs,
             \/ Close(s)
             \/ \E a \in 0 .. MaxEvents + 1 : Refuse(s, a)
      PROVE  LogInv'
  <2>1. /\ UNCHANGED <<log, ring, kb, backlog, rx, cursor, start, got>>
        /\ \E v \in {"off", "gone"} : state' = [state EXCEPT ![s] = v]
      BY <1>4, Zenon DEF Close, Refuse, logVars
  <2>2. TypeOK' /\ RingIsNewest'
      BY <2>1, Zenon DEF LogInv, TypeOK, RingIsNewest, Latest
  <2>3. SubOK(s)'
      BY <2>1, Zenon DEF SubOK, LogInv, TypeOK
  <2>4. ASSUME NEW t \in Subs, t # s PROVE SubOK(t)'
    <3>1. state'[t] = state[t]
        BY <2>1, <2>4, Zenon DEF LogInv, TypeOK
    <3> QED
        BY <2>1, <3>1, OthersKept, Zenon DEF LogInv
  <2> QED
      BY <2>2, <2>3, <2>4, Zenon DEF LogInv
<1>5. ASSUME NEW s \in Subs, StepBacklog(s) PROVE LogInv'
  <2>1. PICK i \in backlog[s] :
          /\ \A j \in backlog[s] : i <= j
          /\ backlog' = [backlog EXCEPT ![s] = backlog[s] \ {i}]
          /\ Pass(s, i)
      BY <1>5, Zenon DEF StepBacklog
  <2>2. /\ state[s] = "open" /\ cursor[s] < rx[s] /\ rx[s] <= NextId
        /\ backlog[s] = (cursor[s] + 1) .. (rx[s] - 1)
        /\ cursor[s] \in Nat /\ rx[s] \in Nat
        /\ backlog \in [Subs -> SUBSET Nat] /\ rx \in [Subs -> Nat \ {0}]
      BY <1>5, Zenon DEF StepBacklog, LogInv, SubOK, TypeOK
  <2>3. i = cursor[s] + 1 /\ i <= rx[s] - 1 /\ i \in Nat
      BY <2>1, <2>2
  <2>4. backlog'[s] = (i + 1) .. (rx[s] - 1)
      BY <2>1, <2>2, <2>3
  <2>5. UNCHANGED <<logVars, state, kb, start>> /\ rx' = rx
      BY <1>5, Zenon DEF StepBacklog
  <2>6. i <= Latest
      BY <1>0, <2>2, <2>3 DEF NextId
  <2>7. /\ backlog' \in [Subs -> SUBSET Nat]
        /\ \A t \in Subs : t # s => backlog'[t] = backlog[t]
      BY <2>1, <2>2, Zenon
  <2> QED
    <3>1. /\ rx' \in [Subs -> Nat \ {0}]
          /\ \A t \in Subs : t # s => backlog'[t] = backlog[t] /\ rx'[t] = rx[t]
          /\ backlog'[s] = (i + 1) .. (rx'[s] - 1) /\ i < rx'[s] /\ rx'[s] <= NextId
        BY <2>2, <2>3, <2>4, <2>5, <2>7
    <3> QED
        BY <2>1, <2>2, <2>3, <2>5, <2>6, <2>7, <3>1, PassKeeps, Zenon
<1>6. ASSUME NEW s \in Subs, StepLive(s) PROVE LogInv'
  <2>1. /\ state[s] = "open" /\ cursor[s] < rx[s] /\ rx[s] <= Latest
        /\ (cursor[s] + 1) .. (rx[s] - 1) = {}
        /\ backlog[s] = {}
        /\ cursor[s] \in Nat /\ rx[s] \in Nat
        /\ backlog \in [Subs -> SUBSET Nat] /\ rx \in [Subs -> Nat \ {0}]
      BY <1>6, Zenon DEF StepLive, LogInv, SubOK, TypeOK
  <2>2. rx[s] = cursor[s] + 1
    <3>1. cursor[s] + 1 \notin (cursor[s] + 1) .. (rx[s] - 1)
        BY <2>1, Zenon
    <3> QED
        BY <2>1, <3>1
  <2>3. /\ rx' = [rx EXCEPT ![s] = rx[s] + 1]
        /\ Pass(s, rx[s])
        /\ UNCHANGED <<logVars, state, kb, start>> /\ backlog' = backlog
      BY <1>6, Zenon DEF StepLive
  <2>4. rx'[s] = rx[s] + 1 /\ rx' \in [Subs -> Nat \ {0}] /\ \A t \in Subs : t # s => rx'[t] = rx[t]
      BY <2>1, <2>3
  <2>5. backlog'[s] = (rx[s] + 1) .. (rx'[s] - 1)
    <3>1. (rx[s] + 1) .. rx[s] = {}
        BY <2>1
    <3>2. rx'[s] - 1 = rx[s]
        BY <2>1, <2>4
    <3> QED
        BY <2>1, <2>3, <3>1, <3>2, Zenon
  <2>6. rx[s] < rx'[s] /\ rx'[s] <= NextId
      BY <1>0, <2>1, <2>4 DEF NextId
  <2> QED
      BY <2>1, <2>2, <2>3, <2>4, <2>5, <2>6, PassKeeps, Zenon
<1>7. ASSUME NEW s \in Subs, StepLag(s) PROVE LogInv'
  <2>1. /\ state[s] = "open"
        /\ cursor[s] \in Nat /\ cursor[s] <= Latest
        /\ rx' = [rx EXCEPT ![s] = NextId]
        /\ UNCHANGED <<log, ring, kb, cursor, start, got>>
        /\ rx \in [Subs -> Nat \ {0}] /\ NextId \in Nat \ {0}
        /\ backlog \in [Subs -> SUBSET Nat]
        /\ state \in [Subs -> {"off", "open", "lagged", "gone"}]
      BY <1>0, <1>7 DEF StepLag, LogInv, SubOK, TypeOK, logVars, NextId
  <2>2. \/ state' = [state EXCEPT ![s] = "lagged"] /\ backlog' = backlog
        \/ /\ Oldest <= cursor[s] + 1
           /\ backlog' = [backlog EXCEPT ![s] = After(cursor[s])] /\ state' = state
      BY <1>7, Zenon DEF StepLag
  <2>3. After(cursor[s]) \in SUBSET Nat
      BY <2>1, AfterInRing, Zenon
  <2>4. TypeOK' /\ RingIsNewest'
    <3>1. RingIsNewest'
        BY <2>1, Zenon DEF LogInv, RingIsNewest, Latest
    <3>2. state' \in [Subs -> {"off", "open", "lagged", "gone"}] /\ backlog' \in [Subs -> SUBSET Nat]
        BY <2>1, <2>2, <2>3, Zenon
    <3>3. rx' \in [Subs -> Nat \ {0}]
        BY <2>1, Zenon
    <3> QED
        BY <2>1, <3>1, <3>2, <3>3, Zenon DEF LogInv, TypeOK, Latest
  <2>5. SubOK(s)'
    <3>1. rx'[s] = NextId /\ Latest' = Latest /\ NextId' = NextId /\ NextId = Latest + 1
        BY <2>1, Zenon DEF Latest, NextId
    <3>2. CASE state' = [state EXCEPT ![s] = "lagged"]
      <4>1. state'[s] = "lagged"
          BY <2>1, <3>2, Zenon
      <4> QED
          BY <2>1, <3>1, <4>1, Zenon DEF LogInv, SubOK
    <3>3. CASE Oldest <= cursor[s] + 1 /\ backlog' = [backlog EXCEPT ![s] = After(cursor[s])] /\ state' = state
      <4>1. backlog'[s] = After(cursor[s])
          BY <2>1, <3>3, Zenon
      <4>2. After(cursor[s]) = (cursor[s] + 1) .. Latest
        <5>1. \A i \in (cursor[s] + 1) .. Latest : i \in ring
            BY <1>0, <2>1, <3>3
        <5> QED
            BY <2>1, <5>1, AfterInRing, Zenon
      <4> QED
          BY <1>0, <2>1, <3>1, <3>3, <4>1, <4>2 DEF LogInv, SubOK
    <3> QED
        BY <2>2, <3>2, <3>3, Zenon
  <2>6. ASSUME NEW t \in Subs, t # s PROVE SubOK(t)'
    <3>1. state'[t] = state[t] /\ backlog'[t] = backlog[t] /\ rx'[t] = rx[t]
        BY <2>1, <2>2, <2>6, Zenon
    <3> QED
        BY <2>1, <3>1, OthersKept, Zenon DEF LogInv
  <2> QED
      BY <2>4, <2>5, <2>6, Zenon DEF LogInv
<1>8. ASSUME UNCHANGED vars PROVE LogInv'
  <2>1. TypeOK' /\ RingIsNewest'
      BY <1>8, Zenon DEF vars, logVars, subVars, LogInv, TypeOK, RingIsNewest, Latest
  <2>2. ASSUME NEW s \in Subs PROVE SubOK(s)'
      BY <1>8, OthersKept, Zenon DEF vars, logVars, subVars, LogInv
  <2> QED
      BY <2>1, <2>2, Zenon DEF LogInv
<1> QED
    BY <1>1, <1>2, <1>3, <1>4, <1>5, <1>6, <1>7, <1>8, Zenon DEF Next, Step

\* The inductive invariant holds in every state of the memory log: what each open
\* stream of MemoryEvents still has to deliver is exactly what was published after its place.
THEOREM LogInvariant == Spec => []LogInv
<1>1. LogInv /\ [Next]_vars => LogInv'
    BY LogInvStep, Zenon
<1> QED
    BY <1>1, LogInvInit, PTL DEF Spec

\* Subscription: every stream has yielded exactly the events of its knowledge
\* base between its position and its cursor, and what it has still to pass is
\* ahead of it without hole or overlap.
THEOREM StreamsHaveNoGap == Spec => [](NoGap /\ NothingSkipped)
<1>1. LogInv => NoGap /\ NothingSkipped
    BY Zenon DEF LogInv, SubOK, NoGap, NothingSkipped
<1> QED
    BY <1>1, LogInvariant, PTL

\* subscribe answers Gone exactly when resuming would miss an event, or when the
\* position was never handed out.
THEOREM GoneMeansLoss == Spec => []GoneIsALoss
<1>1. LogInv => GoneIsALoss
  <2> SUFFICES ASSUME LogInv, NEW a \in 0 .. MaxEvents + 1
               PROVE  IsGone(a) <=> a > Latest \/ \E i \in (a + 1) .. Latest : i \notin ring
      BY Zenon DEF GoneIsALoss
  <2>1. a \in Nat
      BY MaxEventsAssumption
  <2> QED
      BY <2>1, GoneExactly, Zenon
<1> QED
    BY <1>1, LogInvariant, PTL

\* step ends a stream as lagged only when the ring has lost an event it needs.
THEOREM LagMeansLoss == Spec => LagIsALoss
<1> DEFINE Loss == \A s \in Subs : state[s] # "lagged" /\ state'[s] = "lagged" =>
                      \E i \in (cursor[s] + 1) .. Latest : i \notin ring
<1>1. LogInv /\ [Next]_vars => [Loss]_vars
  <2> SUFFICES ASSUME LogInv, Next, NEW s \in Subs, state[s] # "lagged", state'[s] = "lagged"
               PROVE  \E i \in (cursor[s] + 1) .. Latest : i \notin ring
      BY Zenon
  <2>1. state \in [Subs -> {"off", "open", "lagged", "gone"}] /\ cursor[s] \in Nat
      BY Zenon DEF LogInv, TypeOK
  <2>2. /\ Latest \in Nat
        /\ Oldest \in Nat \ {0}
        /\ Oldest <= NextId
        /\ \A i \in 1 .. Latest : i \in ring <=> i >= Oldest
      BY OldestOfRing, Zenon
  <2>3. \/ state' = state
        \/ \E t \in Subs, v \in {"off", "open", "gone"} : state' = [state EXCEPT ![t] = v]
        \/ \E t \in Subs : state' = [state EXCEPT ![t] = "lagged"] /\ Oldest > cursor[t] + 1
      BY Zenon DEF Next, Publish, Attach, Resume, Refuse, Open, Step, StepBacklog, StepLive, StepLag,
             Close, subVars
  <2>4. Oldest > cursor[s] + 1
      BY <2>1, <2>3, Zenon
  <2>5. cursor[s] + 1 \in (cursor[s] + 1) .. Latest /\ cursor[s] + 1 \notin ring
      BY <2>1, <2>2, <2>4 DEF NextId
  <2> QED
      BY <2>5, Zenon
<1> QED
    BY <1>1, LogInvariant, PTL DEF Spec, LagIsALoss
-----------------------------------------------------------------------------
(* The feed a client follows across its connections.  What it holds is told  *)
(* by its own state and by the log, so the operators below take both.        *)

\* Event i of the log l is of the knowledge base k, and v says it is shown.
Sees(l, v, k, i) == l[i] = k /\ v[i]

\* The events after position a, up to b, that it sees, and two logs that agree on what is seen.
Seen(l, v, k, a, b) == {i \in (a + 1) .. b : Sees(l, v, k, i)}
SeenAlike(l, v, l2, v2, k) == \A i \in 1 .. Len(l) : Sees(l2, v2, k, i) <=> Sees(l, v, k, i)

\* Where a client stands: its Last-Event-ID, or where it synced before it had one.
Place(last, at) == IF last = NoId THEN at ELSE last

\* The frames w on the way are events the client is to see, in order, and none
\* of those up to the last of them is missing.
Carries(l, v, k, place, w) ==
    /\ \A n \in DOMAIN w : w[n] \in (place + 1) .. Len(l) /\ Sees(l, v, k, w[n])
    /\ \A m, n \in DOMAIN w : m < n => w[m] < w[n]
    /\ \A n \in DOMAIN w : \A i \in (place + 1) .. w[n] :
          Sees(l, v, k, i) => \E m \in DOMAIN w : w[m] = i

\* The frames on the way are all those up to the stream's cursor.
Reaches(l, v, k, place, w, cur) ==
    /\ place <= cur /\ cur <= Len(l)
    /\ \A n \in DOMAIN w : w[n] <= cur
    /\ \A i \in (place + 1) .. cur : Sees(l, v, k, i) => \E m \in DOMAIN w : w[m] = i

\* A client that synced during this run of the server.
ClientOK(l, v, k, st, cur, w, last, h, at) ==
    /\ at \in 0 .. Len(l) /\ last \in 0 .. Len(l)
    /\ last # NoId => at < last /\ h = Seen(l, v, k, at, last)
    /\ Carries(l, v, k, Place(last, at), w)
    /\ st \in {"open", "lagged"} => Reaches(l, v, k, Place(last, at), w, cur)
    /\ last = NoId /\ (w # <<>> \/ st \in {"open", "lagged"}) => h = {}

Client(c) ==
    ClientOK(log, shown, kb[c], state[c], cursor[c], wire[c], lastId[c], held[c], syncedAt[c])

FeedTypeOK ==
    /\ Latest <= MaxEvents
    /\ shown \in Seq(BOOLEAN) /\ Len(shown) = Latest
    /\ wire \in [Subs -> Seq(1 .. MaxEvents)]
    /\ lastId \in [Subs -> 0 .. MaxEvents]
    /\ held \in [Subs -> SUBSET Nat]
    /\ syncedAt \in [Subs -> Nat]
    /\ syncEpoch \in [Subs -> Nat]
    /\ epoch \in Nat

FeedInv ==
    /\ LogInv
    /\ FeedTypeOK
    /\ \A c \in Subs : syncEpoch[c] <= epoch
    /\ \A c \in Subs : syncEpoch[c] = epoch => Client(c)

\* publish appends: what a client has been sent is what it was.
LEMMA ClientGrows ==
    ASSUME NEW l, NEW v, NEW k, NEW st, NEW cur \in Nat, NEW w, NEW last, NEW h, NEW at,
           NEW l2, NEW v2, Len(l) \in Nat, Len(l2) \in Nat, Len(l) <= Len(l2),
           SeenAlike(l, v, l2, v2, k),
           ClientOK(l, v, k, st, cur, w, last, h, at)
    PROVE  ClientOK(l2, v2, k, st, cur, w, last, h, at)
<1> DEFINE place == Place(last, at)
<1>1. place \in Nat /\ at \in Nat /\ last \in Nat /\ at <= Len(l) /\ last <= Len(l)
    BY DEF ClientOK, Place
<1>2. last # NoId => at < last /\ h = Seen(l2, v2, k, at, last)
    BY <1>1 DEF ClientOK, Seen, SeenAlike
<1>3. Carries(l2, v2, k, place, w)
  <2>1. Carries(l, v, k, place, w)
      BY Zenon DEF ClientOK
  <2> HIDE DEF place
  <2> QED
      BY <1>1, <2>1 DEF Carries, SeenAlike
<1>4. ASSUME st \in {"open", "lagged"} PROVE Reaches(l2, v2, k, place, w, cur)
  <2>1. Reaches(l, v, k, place, w, cur)
      BY <1>4, Zenon DEF ClientOK
  <2> HIDE DEF place
  <2> QED
      BY <1>1, <2>1 DEF Reaches, SeenAlike
<1> QED
    BY <1>1, <1>2, <1>3, <1>4 DEF ClientOK

\* Where the frames after the first are, once it is read.
LEMMA AfterTheFirst ==
    ASSUME NEW w \in Seq(Nat), w # <<>>
    PROVE  /\ Head(w) = w[1] /\ 1 \in DOMAIN w /\ Tail(w) \in Seq(Nat)
           /\ \A m \in DOMAIN w : m \in Nat /\ w[m] \in Nat /\ m >= 1
           /\ \A n \in DOMAIN Tail(w) :
                n \in Nat /\ n >= 1 /\ n + 1 \in DOMAIN w /\ Tail(w)[n] = w[n + 1]
           /\ \A m \in DOMAIN w : m # 1 => m - 1 \in DOMAIN Tail(w) /\ Tail(w)[m - 1] = w[m]
<1> DEFINE t == Tail(w)
<1>1. /\ Len(w) \in Nat /\ Len(w) # 0 /\ Head(w) = w[1] /\ t \in Seq(Nat) /\ Len(t) = Len(w) - 1
      /\ \A n \in 1 .. Len(t) : t[n] = w[n + 1]
    OBVIOUS
<1>2. DOMAIN w = 1 .. Len(w) /\ DOMAIN t = 1 .. Len(t)
    BY <1>1
<1> HIDE DEF t
<1>3. \A m \in DOMAIN w : m \in Nat /\ w[m] \in Nat /\ m >= 1
    BY <1>1, <1>2
<1>4. 1 \in DOMAIN w
    BY <1>1, <1>2
<1>5. \A n \in DOMAIN t : n \in Nat /\ n >= 1 /\ n + 1 \in DOMAIN w /\ t[n] = w[n + 1]
    BY <1>1, <1>2
<1>6. ASSUME NEW m \in DOMAIN w, m # 1 PROVE m - 1 \in DOMAIN t /\ t[m - 1] = w[m]
  <2>1. m - 1 \in 1 .. (Len(w) - 1) /\ (m - 1) + 1 = m
      BY <1>1, <1>2, <1>6
  <2>2. t[m - 1] = w[(m - 1) + 1]
      BY <1>1, <2>1, Zenon
  <2> QED
      BY <1>1, <1>2, <2>1, <2>2, Zenon
<1> QED
    BY <1>1, <1>3, <1>4, <1>5, <1>6, Zenon DEF t

\* The client reads the first frame: it is the next event it was to see.
LEMMA ClientReceives ==
    ASSUME NEW l, NEW v, NEW k, NEW st, NEW cur \in Nat, NEW w \in Seq(Nat), NEW last, NEW h, NEW at,
           Len(l) \in Nat, w # <<>>, ClientOK(l, v, k, st, cur, w, last, h, at)
    PROVE  ClientOK(l, v, k, st, cur, Tail(w), Head(w), h \cup {Head(w)}, at)
<1> DEFINE place == Place(last, at)
           x == Head(w)
           t == Tail(w)
<1>1. /\ place \in Nat /\ at \in Nat /\ last \in Nat /\ at <= place
      /\ last # NoId => at < last /\ h = Seen(l, v, k, at, last)
      /\ last = NoId => h = {} /\ place = at
      /\ last # NoId => place = last
      /\ Carries(l, v, k, place, w)
    BY DEF ClientOK, Place, NoId
<1>2. /\ x = w[1] /\ 1 \in DOMAIN w
      /\ \A m \in DOMAIN w : m \in Nat /\ w[m] \in Nat /\ m >= 1
      /\ \A n \in DOMAIN t : n \in Nat /\ n >= 1 /\ n + 1 \in DOMAIN w /\ t[n] = w[n + 1]
      /\ \A m \in DOMAIN w : m # 1 => m - 1 \in DOMAIN t /\ t[m - 1] = w[m]
    BY AfterTheFirst, Zenon
<1> HIDE DEF place, x, t
<1>3. x \in Nat /\ x \in (place + 1) .. Len(l) /\ Sees(l, v, k, x)
    BY <1>1, <1>2, Zenon DEF Carries
<1>4. \A i \in (place + 1) .. x : Sees(l, v, k, i) => i = x
  <2> SUFFICES ASSUME NEW i \in (place + 1) .. x, Sees(l, v, k, i) PROVE i = x
      BY Zenon
  <2>1. PICK m \in DOMAIN w : w[m] = i
      BY <1>1, <1>2, Zenon DEF Carries
  <2>2. ASSUME m # 1 PROVE w[1] < w[m]
    <3>1. 1 < m
        BY <1>2, <2>2
    <3> QED
        BY <1>1, <1>2, <3>1, Zenon DEF Carries
  <2> QED
      BY <1>1, <1>2, <1>3, <2>1, <2>2
<1>5. h \cup {x} = Seen(l, v, k, at, x)
  <2>1. h = Seen(l, v, k, at, place)
    <3>1. (at + 1) .. at = {}
        BY <1>1
    <3> QED
        BY <1>1, <3>1, Zenon DEF Seen
  <2>2. (at + 1) .. x = ((at + 1) .. place) \cup ((place + 1) .. x)
      BY <1>1, <1>3
  <2> QED
      BY <1>1, <1>3, <1>4, <2>1, <2>2 DEF Seen
<1>6. x # NoId /\ at < x /\ Place(x, at) = x /\ x \in 0 .. Len(l)
    BY <1>1, <1>3 DEF NoId, Place
<1>7. Carries(l, v, k, x, t)
  <2>1. ASSUME NEW n \in DOMAIN t PROVE t[n] \in (x + 1) .. Len(l) /\ Sees(l, v, k, t[n])
    <3>1. n + 1 \in DOMAIN w /\ 1 \in DOMAIN w /\ 1 < n + 1 /\ t[n] = w[n + 1]
        BY <1>2
    <3>2. w[n + 1] \in (place + 1) .. Len(l) /\ Sees(l, v, k, w[n + 1]) /\ w[1] < w[n + 1]
        BY <1>1, <3>1, Zenon DEF Carries
    <3> QED
        BY <1>1, <1>2, <1>3, <3>1, <3>2
  <2>2. ASSUME NEW m \in DOMAIN t, NEW n \in DOMAIN t, m < n PROVE t[m] < t[n]
    <3>1. m + 1 \in DOMAIN w /\ n + 1 \in DOMAIN w /\ m + 1 < n + 1
        BY <1>2, <2>2
    <3> QED
        BY <1>1, <1>2, <3>1, Zenon DEF Carries
  <2>3. ASSUME NEW n \in DOMAIN t, NEW i \in (x + 1) .. t[n], Sees(l, v, k, i)
        PROVE  \E m \in DOMAIN t : t[m] = i
    <3>1. n + 1 \in DOMAIN w /\ i \in (place + 1) .. w[n + 1]
      <4>1. w[n + 1] \in Nat
          BY <1>2, Zenon
      <4> QED
          BY <1>1, <1>2, <1>3, <4>1
    <3>2. PICK m \in DOMAIN w : w[m] = i
        BY <1>1, <2>3, <3>1, Zenon DEF Carries
    <3>3. m # 1
        BY <1>2, <1>3, <3>2
    <3>4. m - 1 \in DOMAIN t /\ t[m - 1] = i
        BY <1>2, <3>2, <3>3, Zenon
    <3> QED
        BY <3>4, Zenon
  <2> QED
      BY <2>1, <2>2, <2>3, Zenon DEF Carries
<1>8. ASSUME st \in {"open", "lagged"} PROVE Reaches(l, v, k, x, t, cur)
  <2>1. Reaches(l, v, k, place, w, cur)
      BY <1>8, Zenon DEF ClientOK, place
  <2>2. x <= cur /\ cur <= Len(l)
      BY <1>2, <2>1, Zenon DEF Reaches
  <2>3. \A n \in DOMAIN t : t[n] <= cur
    <3>1. \A n \in DOMAIN t : n + 1 \in DOMAIN w /\ t[n] = w[n + 1]
        BY <1>2, Zenon
    <3> QED
        BY <2>1, <3>1, Zenon DEF Reaches
  <2>4. ASSUME NEW i \in (x + 1) .. cur, Sees(l, v, k, i) PROVE \E m \in DOMAIN t : t[m] = i
    <3>1. i \in (place + 1) .. cur
        BY <1>1, <1>3
    <3>2. PICK m \in DOMAIN w : w[m] = i
        BY <2>1, <2>4, <3>1, Zenon DEF Reaches
    <3>3. m # 1
        BY <1>2, <1>3, <3>2
    <3>4. m - 1 \in DOMAIN t /\ t[m - 1] = i
        BY <1>2, <3>2, <3>3, Zenon
    <3> QED
        BY <3>4, Zenon
  <2> QED
      BY <2>2, <2>3, <2>4, Zenon DEF Reaches
<1>9. at \in 0 .. Len(l)
    BY Zenon DEF ClientOK
<1> QED
    BY <1>5, <1>6, <1>7, <1>8, <1>9, Zenon DEF ClientOK, x, t

\* A stream passes the event after its cursor: its frame is added if it is shown.
LEMMA ClientFrame ==
    ASSUME NEW l, NEW v, NEW k, NEW st \in {"open", "lagged"}, NEW cur \in Nat, NEW w \in Seq(Nat),
           NEW last, NEW h, NEW at, NEW w2,
           Len(l) \in Nat, cur + 1 <= Len(l), ClientOK(l, v, k, st, cur, w, last, h, at),
           w2 = IF Sees(l, v, k, cur + 1) THEN Append(w, cur + 1) ELSE w
    PROVE  ClientOK(l, v, k, st, cur + 1, w2, last, h, at)
<1> DEFINE place == Place(last, at)
<1>1. /\ place \in Nat /\ Carries(l, v, k, place, w) /\ Reaches(l, v, k, place, w, cur)
      /\ at \in 0 .. Len(l) /\ last \in 0 .. Len(l) /\ last = NoId => h = {}
    BY DEF ClientOK, Place
<1> HIDE DEF place
<1>2. CASE ~ Sees(l, v, k, cur + 1)
  <2>1. w2 = w
      BY <1>2, Zenon
  <2>2. Reaches(l, v, k, place, w, cur + 1)
    <3>1. place <= cur + 1 /\ \A n \in DOMAIN w : w[n] <= cur + 1
      <4>1. \A n \in DOMAIN w : w[n] \in Int
          BY <1>1 DEF Carries
      <4> QED
          BY <1>1, <4>1 DEF Reaches
    <3>2. \A i \in (place + 1) .. (cur + 1) : i = cur + 1 \/ i \in (place + 1) .. cur
        BY <1>1
    <3> QED
        BY <1>1, <1>2, <3>1, <3>2, Zenon DEF Reaches
  <2> QED
      BY <1>1, <2>1, <2>2, Zenon DEF ClientOK, place
<1>3. CASE Sees(l, v, k, cur + 1)
  <2> DEFINE e == Len(w) + 1
  <2>1. /\ DOMAIN w2 = DOMAIN w \cup {e} /\ w2[e] = cur + 1
        /\ \A n \in DOMAIN w : w2[n] = w[n] /\ n \in Nat /\ n < e /\ w[n] \in Nat
        /\ e \in Nat
    <3>1. w2 = Append(w, cur + 1) /\ Len(w) \in Nat /\ DOMAIN w = 1 .. Len(w)
        BY <1>3
    <3>2. w2 \in Seq(Nat) /\ Len(w2) = e /\ w2[e] = cur + 1 /\ \A n \in 1 .. Len(w) : w2[n] = w[n]
        BY <3>1
    <3>3. DOMAIN w2 = 1 .. e
        BY <3>2
    <3>4. \A n \in DOMAIN w : w[n] \in Nat
        BY <3>1
    <3> HIDE DEF e
    <3>5. e = Len(w) + 1
        BY Zenon DEF e
    <3>6. DOMAIN w2 = DOMAIN w \cup {e}
        BY <3>1, <3>3, <3>5
    <3> QED
        BY <3>1, <3>2, <3>4, <3>5, <3>6
  <2> HIDE DEF e
  <2>2. \A n \in DOMAIN w : w[n] <= cur
      BY <1>1, Zenon DEF Reaches
  <2>3. \A i \in (place + 1) .. (cur + 1) : Sees(l, v, k, i) => \E m \in DOMAIN w2 : w2[m] = i
    <3> SUFFICES ASSUME NEW i \in (place + 1) .. (cur + 1), Sees(l, v, k, i)
                 PROVE  \E m \in DOMAIN w2 : w2[m] = i
        BY Zenon
    <3>1. CASE i = cur + 1
        BY <2>1, <3>1, Zenon
    <3>2. CASE i # cur + 1
      <4>1. i \in (place + 1) .. cur
          BY <1>1, <3>2
      <4>2. PICK m \in DOMAIN w : w[m] = i
          BY <1>1, <4>1, Zenon DEF Reaches
      <4> QED
          BY <2>1, <4>2, Zenon
    <3> QED
        BY <3>1, <3>2, Zenon
  <2>4. place <= cur
      BY <1>1, Zenon DEF Reaches
  <2>5. Reaches(l, v, k, place, w2, cur + 1)
    <3>1. \A n \in DOMAIN w2 : w2[n] <= cur + 1
        BY <2>1, <2>2
    <3> QED
        BY <1>1, <2>3, <2>4, <3>1 DEF Reaches
  <2>6. Carries(l, v, k, place, w2)
    <3>1. \A n \in DOMAIN w2 : w2[n] \in (place + 1) .. Len(l) /\ Sees(l, v, k, w2[n])
      <4>1. cur + 1 \in (place + 1) .. Len(l)
          BY <1>1, <2>4
      <4>2. \A n \in DOMAIN w : w[n] \in (place + 1) .. Len(l) /\ Sees(l, v, k, w[n])
          BY <1>1, Zenon DEF Carries
      <4> QED
          BY <1>3, <2>1, <4>1, <4>2, Zenon
    <3>2. ASSUME NEW m \in DOMAIN w2, NEW n \in DOMAIN w2, m < n PROVE w2[m] < w2[n]
      <4>1. m \in DOMAIN w
          BY <2>1, <3>2
      <4>2. CASE n = e
          BY <2>1, <2>2, <4>1, <4>2
      <4>3. CASE n # e
          BY <1>1, <2>1, <3>2, <4>1, <4>3, Zenon DEF Carries
      <4> QED
          BY <4>2, <4>3, Zenon
    <3>3. ASSUME NEW n \in DOMAIN w2, NEW i \in (place + 1) .. w2[n], Sees(l, v, k, i)
          PROVE  \E m \in DOMAIN w2 : w2[m] = i
      <4>1. w2[n] \in Nat /\ w2[n] <= cur + 1
          BY <2>1, <2>2
      <4>2. i \in (place + 1) .. (cur + 1)
          BY <1>1, <4>1
      <4> QED
          BY <2>3, <3>3, <4>2, Zenon
    <3> QED
        BY <3>1, <3>2, <3>3, Zenon DEF Carries
  <2> QED
      BY <1>1, <2>5, <2>6, Zenon DEF ClientOK, place
<1> QED
    BY <1>2, <1>3, Zenon

\* What one step of a stream does to its cursor and to what it has yielded.
LEMMA StepMoves ==
    ASSUME LogInv, NEW s \in Subs, Step(s)
    PROVE  /\ UNCHANGED <<log, kb>> /\ state[s] = "open"
           /\ \A t \in Subs : t # s => state'[t] = state[t] /\ cursor'[t] = cursor[t]
           /\ \/ /\ state'[s] \in {"open", "lagged"} /\ cursor'[s] = cursor[s] /\ got'[s] = got[s]
              \/ /\ state'[s] = "open" /\ cursor'[s] = cursor[s] + 1 /\ cursor[s] + 1 <= Latest
                 /\ got'[s] \ got[s] = IF log[cursor[s] + 1] = kb[s] THEN {cursor[s] + 1} ELSE {}
<1>0. Latest \in Nat
    BY OldestOfRing, Zenon
<1>1. /\ cursor \in [Subs -> Nat] /\ got \in [Subs -> SUBSET Nat]
      /\ state \in [Subs -> {"off", "open", "lagged", "gone"}]
      /\ rx[s] \in Nat /\ cursor[s] \in Nat /\ start[s] \in Nat
    BY Zenon DEF LogInv, TypeOK
<1>2. /\ state[s] = "open" /\ UNCHANGED <<log, kb>>
    BY Zenon DEF Step, StepBacklog, StepLive, StepLag, logVars
<1>3. /\ cursor[s] < rx[s] /\ rx[s] <= NextId
      /\ backlog[s] = (cursor[s] + 1) .. (rx[s] - 1)
      /\ got[s] = {i \in (start[s] + 1) .. cursor[s] : log[i] = kb[s]}
    BY <1>2, Zenon DEF LogInv, SubOK
<1>4. ASSUME NEW i \in Nat, i = cursor[s] + 1, Pass(s, i)
      PROVE  /\ cursor'[s] = i /\ \A t \in Subs : t # s => cursor'[t] = cursor[t]
             /\ got'[s] \ got[s] = IF log[i] = kb[s] THEN {i} ELSE {}
  <2>1. /\ cursor' = [cursor EXCEPT ![s] = i]
        /\ got' = [got EXCEPT ![s] = IF log[i] = kb[s] THEN got[s] \cup {i} ELSE got[s]]
      BY <1>1, <1>4 DEF Pass
  <2>2. got'[s] = IF log[i] = kb[s] THEN got[s] \cup {i} ELSE got[s]
      BY <1>1, <2>1, Zenon
  <2>3. i \notin got[s]
      BY <1>1, <1>3, <1>4
  <2>4. got'[s] \ got[s] = IF log[i] = kb[s] THEN {i} ELSE {}
      BY <2>2, <2>3, Zenon
  <2> QED
      BY <1>1, <2>1, <2>4, Zenon
<1>5. CASE StepBacklog(s)
  <2>1. PICK i \in backlog[s] : (\A j \in backlog[s] : i <= j) /\ Pass(s, i)
      BY <1>5, Zenon DEF StepBacklog
  <2>2. i = cursor[s] + 1 /\ i \in Nat /\ i <= Latest
    <3>1. i \in (cursor[s] + 1) .. (rx[s] - 1)
        BY <1>3, <2>1, Zenon
    <3>2. cursor[s] + 1 \in (cursor[s] + 1) .. (rx[s] - 1)
        BY <1>1, <3>1
    <3>3. i <= cursor[s] + 1
        BY <1>3, <2>1, <3>2, Zenon
    <3> QED
        BY <1>0, <1>1, <1>3, <3>1, <3>3 DEF NextId
  <2>3. state' = state
      BY <1>5, Zenon DEF StepBacklog
  <2> QED
      BY <1>2, <1>4, <2>1, <2>2, <2>3, Zenon
<1>6. CASE StepLive(s)
  <2>1. rx[s] = cursor[s] + 1 /\ rx[s] <= Latest
    <3>1. backlog[s] = {} /\ rx[s] <= Latest
        BY <1>6, Zenon DEF StepLive
    <3>2. cursor[s] + 1 \notin (cursor[s] + 1) .. (rx[s] - 1)
        BY <1>3, <3>1, Zenon
    <3> QED
        BY <1>1, <1>3, <3>1, <3>2
  <2>2. Pass(s, rx[s]) /\ state' = state
      BY <1>6, Zenon DEF StepLive
  <2>3. /\ cursor'[s] = rx[s] /\ \A t \in Subs : t # s => cursor'[t] = cursor[t]
        /\ got'[s] \ got[s] = IF log[rx[s]] = kb[s] THEN {rx[s]} ELSE {}
      BY <1>1, <1>4, <2>1, <2>2, Zenon
  <2> QED
      BY <1>2, <2>1, <2>2, <2>3, Zenon
<1>7. CASE StepLag(s)
  <2>1. cursor' = cursor /\ got' = got /\ (state' = state \/ state' = [state EXCEPT ![s] = "lagged"])
      BY <1>7, Zenon DEF StepLag
  <2> QED
      BY <1>1, <1>2, <2>1, Zenon
<1> QED
    BY <1>5, <1>6, <1>7, Zenon DEF Step

\* A client other than the one that moves, while the log stands still.
LEMMA OtherClients ==
    ASSUME NEW c \in Subs, syncEpoch[c] = epoch => Client(c), UNCHANGED <<log, shown, epoch>>,
           kb'[c] = kb[c], state'[c] = state[c], cursor'[c] = cursor[c], wire'[c] = wire[c],
           lastId'[c] = lastId[c], held'[c] = held[c], syncedAt'[c] = syncedAt[c],
           syncEpoch'[c] = syncEpoch[c]
    PROVE  (syncEpoch[c] = epoch => Client(c))'
    BY Zenon DEF Client

\* A client whose connection ends or has nothing on the way.
LEMMA ClientWaits ==
    ASSUME NEW l, NEW v, NEW k, NEW st, NEW cur \in Nat, NEW w, NEW last, NEW h, NEW at,
           Len(l) \in Nat, ClientOK(l, v, k, st, cur, w, last, h, at),
           NEW st2, NEW cur2, NEW w2, NEW last2, st2 \notin {"open", "lagged"},
           w2 \in {w, <<>>}, last2 = last \/ (last2 = NoId /\ w2 = <<>>)
    PROVE  ClientOK(l, v, k, st2, cur2, w2, last2, h, at)
<1>1. Carries(l, v, k, Place(last2, at), <<>>)
    BY DEF Carries
<1>2. Carries(l, v, k, Place(last2, at), w2)
    BY <1>1, Zenon DEF ClientOK
<1>3. last2 \in 0 .. Len(l)
    BY DEF ClientOK, NoId
<1> QED
    BY <1>2, <1>3, Zenon DEF ClientOK

\* A client whose connection has just been opened where it stands.
LEMMA ClientOpens ==
    ASSUME NEW l, NEW v, NEW k, NEW cur \in Nat, NEW last \in Nat, NEW h, NEW at \in Nat,
           Len(l) \in Nat, cur = Place(last, at), at <= Len(l), last <= Len(l),
           last # NoId => at < last /\ h = Seen(l, v, k, at, last),
           last = NoId => h = {}
    PROVE  ClientOK(l, v, k, "open", cur, <<>>, last, h, at)
<1>1. Carries(l, v, k, Place(last, at), <<>>)
    BY DEF Carries
<1>2. Place(last, at) \in Nat /\ Place(last, at) <= Len(l)
    BY Zenon DEF Place
<1>3. Reaches(l, v, k, Place(last, at), <<>>, cur)
  <2>1. (cur + 1) .. cur = {}
      OBVIOUS
  <2> QED
      BY <1>2, <2>1 DEF Reaches
<1> QED
    BY <1>1, <1>3 DEF ClientOK

\* Each step of the feed is a step of the log, a restart of it or no step of it.
LEMMA StreamLog ==
    ASSUME FeedInv, [StreamNext]_allVars
    PROVE  LogInv'
<1>1. CASE Restart
  <2>1. log' = <<>> /\ ring' = {} /\ UNCHANGED <<kb, backlog, rx, cursor, start, got>>
        /\ state' = [c \in Subs |-> "off"]
      BY <1>1, Zenon DEF Restart
  <2>2. Latest' = 0 /\ log' \in Seq(Kbs)
      BY <2>1 DEF Latest
  <2>3. TypeOK'
      BY <2>1, <2>2, Zenon DEF FeedInv, LogInv, TypeOK
  <2>4. RingIsNewest'
      BY <2>1, <2>2 DEF RingIsNewest
  <2>5. \A s \in Subs : SubOK(s)'
      BY <2>1, Zenon DEF SubOK
  <2> QED
      BY <2>3, <2>4, <2>5, Zenon DEF LogInv
<1>2. CASE ~ Restart
  <2>1. \A c \in Subs : kb[c] \in Kbs /\ lastId[c] \in 0 .. MaxEvents + 1
      BY MaxEventsAssumption DEF FeedInv, LogInv, TypeOK, FeedTypeOK
  <2>2. [Next]_vars
    <3>1. CASE UNCHANGED allVars
        BY <3>1, Zenon DEF allVars
    <3>2. ASSUME NEW k \in Kbs, NEW v \in BOOLEAN, Happen(k, v) PROVE Next
        BY <3>2, Zenon DEF Happen, Next
    <3>3. ASSUME NEW c \in Subs, ConnectFresh(c) PROVE Next
        BY <2>1, <3>3, Zenon DEF ConnectFresh, Next
    <3>4. ASSUME NEW c \in Subs, Reconnect(c) PROVE Next
        BY <2>1, <3>4, Zenon DEF Reconnect, Next
    <3>5. ASSUME NEW c \in Subs, Resync(c) PROVE Next
        BY <2>1, <3>5, Zenon DEF Resync, Next
    <3>6. ASSUME NEW c \in Subs, Frame(c) PROVE Next
        BY <3>6, Zenon DEF Frame, Next
    <3>7. ASSUME NEW c \in Subs, Receive(c) PROVE UNCHANGED vars
        BY <3>7, Zenon DEF Receive
    <3>8. ASSUME NEW c \in Subs, Expire(c) \/ Disconnect(c) PROVE Next
        BY <3>8, Zenon DEF Expire, Disconnect, Next
    <3> QED
        BY <1>2, <3>1, <3>2, <3>3, <3>4, <3>5, <3>6, <3>7, <3>8, Zenon DEF StreamNext
  <2> QED
      BY <2>2, LogInvStep, Zenon DEF FeedInv
<1> QED
    BY <1>1, <1>2, Zenon

\* A new event, the only step that changes what can be seen.
LEMMA FeedHappens ==
    ASSUME FeedInv, NEW k \in Kbs, NEW v \in BOOLEAN, Happen(k, v), NEW c \in Subs
    PROVE  (syncEpoch[c] = epoch => Client(c))'
<1> SUFFICES ASSUME syncEpoch[c] = epoch PROVE Client(c)'
    BY Zenon DEF Happen, clientVars
<1>1. /\ log' = Append(log, k) /\ log \in Seq(Kbs) /\ shown' = Append(shown, v)
      /\ UNCHANGED <<kb, state, cursor, wire, lastId, held, syncedAt>>
      /\ cursor[c] \in Nat /\ Client(c) /\ shown \in Seq(BOOLEAN) /\ Len(shown) = Len(log)
    BY Zenon DEF Happen, Publish, subVars, clientVars, FeedInv, FeedTypeOK, LogInv, TypeOK, Latest
<1>2. /\ Len(log) \in Nat /\ Len(log') = Len(log) + 1
      /\ \A i \in 1 .. Len(log) : log'[i] = log[i] /\ shown'[i] = shown[i]
    BY <1>1
<1>3. SeenAlike(log, shown, log', shown', kb[c])
    BY <1>2, Zenon DEF Sees, SeenAlike
<1>4. ClientOK(log', shown', kb[c], state[c], cursor[c], wire[c], lastId[c], held[c], syncedAt[c])
  <2>1. ClientOK(log, shown, kb[c], state[c], cursor[c], wire[c], lastId[c], held[c], syncedAt[c])
      BY <1>1, Zenon DEF Client
  <2>2. cursor[c] \in Nat /\ Len(log) \in Nat /\ Len(log') \in Nat /\ Len(log) <= Len(log')
      BY <1>1, <1>2
  <2> QED
      BY <1>3, <2>1, <2>2, ClientGrows, Zenon
<1> QED
    BY <1>1, <1>4, Zenon DEF Client

\* The state of the client that moves, in the other steps of the feed.
LEMMA FeedMoves ==
    ASSUME FeedInv, NEW c \in Subs, NEW d \in Subs,
           \/ ConnectFresh(c) \/ Reconnect(c) \/ Resync(c) \/ Frame(c)
           \/ Receive(c) \/ Expire(c) \/ Disconnect(c)
    PROVE  (syncEpoch[d] = epoch => Client(d))'
<1>0. /\ Latest \in Nat /\ Len(log) = Latest
      /\ kb[c] \in Kbs /\ cursor[c] \in Nat /\ lastId[c] \in Nat /\ wire[c] \in Seq(Nat)
      /\ syncedAt[c] \in Nat
      /\ state \in [Subs -> {"off", "open", "lagged", "gone"}] /\ cursor \in [Subs -> Nat]
      /\ kb \in [Subs -> Kbs]
      /\ wire \in [Subs -> Seq(1 .. MaxEvents)] /\ lastId \in [Subs -> 0 .. MaxEvents]
      /\ held \in [Subs -> SUBSET Nat] /\ syncedAt \in [Subs -> Nat] /\ syncEpoch \in [Subs -> Nat]
      /\ syncEpoch[d] = epoch => Client(d)
  <2>1. Latest \in Nat
      BY OldestOfRing, Zenon DEF FeedInv
  <2>2. wire[c] \in Seq(Nat)
    <3>1. wire[c] \in Seq(1 .. MaxEvents)
        BY Zenon DEF FeedInv, FeedTypeOK
    <3> QED
        BY <3>1, MaxEventsAssumption
  <2>3. FeedTypeOK /\ TypeOK /\ Len(log) = Latest
      BY Zenon DEF FeedInv, LogInv, Latest
  <2>4. /\ state \in [Subs -> {"off", "open", "lagged", "gone"}] /\ cursor \in [Subs -> Nat]
        /\ kb \in [Subs -> Kbs]
      BY <2>3, Zenon DEF TypeOK
  <2>5. /\ wire \in [Subs -> Seq(1 .. MaxEvents)] /\ lastId \in [Subs -> 0 .. MaxEvents]
        /\ held \in [Subs -> SUBSET Nat] /\ syncedAt \in [Subs -> Nat] /\ syncEpoch \in [Subs -> Nat]
      BY <2>3, Zenon DEF FeedTypeOK
  <2>6. lastId[c] \in Nat
      BY <2>5, MaxEventsAssumption
  <2>7. syncEpoch[d] = epoch => Client(d)
      BY Zenon DEF FeedInv
  <2> QED
      BY <2>1, <2>2, <2>3, <2>4, <2>5, <2>6, <2>7, Zenon
<1>1. UNCHANGED <<log, shown, epoch>>
    BY StepMoves, Zenon DEF ConnectFresh, Reconnect, Resync, Frame, Receive, Expire, Disconnect,
       Attach, Resume, Open, Refuse, Close, vars, logVars, clientVars, FeedInv
<1>2. /\ d # c =>
          /\ kb'[d] = kb[d] /\ state'[d] = state[d] /\ cursor'[d] = cursor[d] /\ wire'[d] = wire[d]
          /\ lastId'[d] = lastId[d] /\ held'[d] = held[d] /\ syncedAt'[d] = syncedAt[d]
          /\ syncEpoch'[d] = syncEpoch[d]
      /\ kb'[c] = kb[c]
  <2>1. CASE ConnectFresh(c)
      BY <1>0, <2>1, Zenon DEF ConnectFresh, Attach, Open
  <2>2. CASE Reconnect(c)
      BY <1>0, <2>2, Zenon DEF Reconnect, Resume, Open
  <2>3. CASE Resync(c)
      BY <1>0, <2>3, Zenon DEF Resync, Refuse
  <2>4. CASE Frame(c)
    <3>1. /\ UNCHANGED <<kb, lastId, held, syncedAt, syncEpoch>>
          /\ \A e \in Subs : e # c => wire'[e] = wire[e]
        BY <1>0, <2>4, StepMoves, Zenon DEF Frame, FeedInv
    <3>2. \A e \in Subs : e # c => state'[e] = state[e] /\ cursor'[e] = cursor[e]
        BY <2>4, StepMoves, Zenon DEF Frame, FeedInv
    <3> QED
        BY <3>1, <3>2, Zenon
  <2>5. CASE Receive(c)
      BY <1>0, <2>5, Zenon DEF Receive, vars, subVars
  <2>6. CASE Expire(c) \/ Disconnect(c)
      BY <1>0, <2>6, Zenon DEF Expire, Disconnect, Close, clientVars
  <2> QED
      BY <2>1, <2>2, <2>3, <2>4, <2>5, <2>6, Zenon
<1>3. CASE d # c
    BY <1>0, <1>1, <1>2, <1>3, OtherClients, Zenon
<1>4. CASE d = c
  <2> SUFFICES ASSUME syncEpoch'[c] = epoch' PROVE Client(c)'
      BY <1>4, Zenon
  <2> DEFINE Goal == ClientOK(log, shown, kb[c], state'[c], cursor'[c], wire'[c], lastId'[c],
                              held'[c], syncedAt'[c])
  <2> SUFFICES Goal
      BY <1>1, <1>2, Zenon DEF Client
  <2>0. ConnectFresh(c) \/ (syncEpoch[c] = epoch /\ Client(c))
    <3>1. ConnectFresh(c) \/ syncEpoch' = syncEpoch
        BY Zenon DEF Reconnect, Resync, Frame, Receive, Expire, Disconnect, clientVars
    <3> QED
        BY <1>0, <1>1, <1>4, <3>1, Zenon
  <2>1. CASE ConnectFresh(c)
    <3>1. /\ state'[c] = "open" /\ cursor'[c] = Latest /\ wire'[c] = <<>> /\ lastId'[c] = NoId
          /\ held'[c] = {} /\ syncedAt'[c] = Latest
        BY <1>0, <2>1, Zenon DEF ConnectFresh, Attach, Open
    <3>2. Place(NoId, Latest) = Latest /\ NoId \in Nat /\ NoId <= Latest
        BY <1>0 DEF Place, NoId
    <3>3. ClientOK(log, shown, kb[c], "open", Latest, <<>>, NoId, {}, Latest)
      <4>1. Latest <= Len(log) /\ NoId <= Len(log) /\ Len(log) \in Nat
          BY <1>0, <3>2
      <4> QED
          BY <1>0, <3>2, <4>1, ClientOpens, Zenon
    <3> QED
        BY <3>1, <3>3, Zenon
  <2> DEFINE Now == ClientOK(log, shown, kb[c], state[c], cursor[c], wire[c], lastId[c], held[c],
                             syncedAt[c])
  <2>2. CASE ~ ConnectFresh(c)
    <3>0. Now
        BY <2>0, <2>2, Zenon DEF Client
    <3>1. CASE Reconnect(c)
      <4>1. /\ state'[c] = "open" /\ cursor'[c] = lastId[c] /\ wire'[c] = <<>>
            /\ UNCHANGED <<lastId, held, syncedAt>> /\ lastId[c] # NoId
        <5>1. lastId[c] <= Latest
            BY <1>0, <3>1 DEF Reconnect, Resume, IsGone
        <5>2. /\ lastId[c] # NoId /\ wire' = [wire EXCEPT ![c] = <<>>]
              /\ UNCHANGED <<lastId, held, syncedAt>>
            BY <3>1, Zenon DEF Reconnect
        <5>3. lastId[c] < Latest \/ lastId[c] = Latest
            BY <1>0, <5>1
        <5>4. /\ state' = [state EXCEPT ![c] = "open"]
              /\ cursor' = [cursor EXCEPT ![c] = lastId[c]]
            BY <3>1, <5>3, Zenon DEF Reconnect, Resume, Open
        <5> QED
            BY <1>0, <5>2, <5>4, Zenon
      <4>2. Place(lastId[c], syncedAt[c]) = lastId[c]
          BY <4>1, Zenon DEF Place
      <4>3. /\ syncedAt[c] <= Len(log) /\ lastId[c] <= Len(log) /\ syncedAt[c] < lastId[c]
            /\ held[c] = Seen(log, shown, kb[c], syncedAt[c], lastId[c])
        <5>1. ClientOK(log, shown, kb[c], state[c], cursor[c], wire[c], lastId[c], held[c],
                       syncedAt[c]) /\ lastId[c] # NoId
            BY <3>0, <4>1, Zenon
        <5>2. /\ syncedAt[c] \in 0 .. Len(log) /\ lastId[c] \in 0 .. Len(log)
              /\ syncedAt[c] < lastId[c]
              /\ held[c] = Seen(log, shown, kb[c], syncedAt[c], lastId[c])
            BY <5>1, Zenon DEF ClientOK
        <5> QED
            BY <1>0, <5>2
      <4> HIDE DEF Now
      <4> QED
        <5>1. ClientOK(log, shown, kb[c], "open", lastId[c], <<>>, lastId[c], held[c], syncedAt[c])
            BY <1>0, <4>1, <4>2, <4>3, ClientOpens, Zenon
        <5> QED
            BY <4>1, <5>1, Zenon
    <3>2. CASE Resync(c)
      <4>1. /\ state'[c] = "gone" /\ wire'[c] = <<>> /\ lastId'[c] = NoId
            /\ UNCHANGED <<held, syncedAt>>
          BY <1>0, <3>2, Zenon DEF Resync, Refuse
      <4> QED
        <5>1. ClientOK(log, shown, kb[c], "gone", cursor'[c], <<>>, NoId, held[c], syncedAt[c])
            BY <1>0, <3>0, ClientWaits, Zenon
        <5> QED
            BY <4>1, <5>1, Zenon
    <3>3. CASE Expire(c) \/ Disconnect(c)
      <4>1. /\ state'[c] = "off" /\ wire'[c] \in {wire[c], <<>>}
            /\ UNCHANGED <<lastId, held, syncedAt>>
          BY <1>0, <3>3, Zenon DEF Expire, Disconnect, Close, clientVars
      <4> QED
        <5>1. ClientOK(log, shown, kb[c], "off", cursor'[c], wire'[c], lastId[c], held[c], syncedAt[c])
            BY <1>0, <3>0, <4>1, ClientWaits, Zenon
        <5> QED
            BY <4>1, <5>1, Zenon
    <3>4. CASE Receive(c)
      <4>1. /\ wire[c] # <<>> /\ wire'[c] = Tail(wire[c]) /\ lastId'[c] = Head(wire[c])
            /\ held'[c] = held[c] \cup {Head(wire[c])} /\ UNCHANGED <<state, cursor, syncedAt>>
          BY <1>0, <3>4, Zenon DEF Receive, vars, subVars
      <4> QED
        <5>1. ClientOK(log, shown, kb[c], state[c], cursor[c], Tail(wire[c]), Head(wire[c]),
                       held[c] \cup {Head(wire[c])}, syncedAt[c])
            BY <1>0, <3>0, <4>1, ClientReceives, Zenon
        <5> QED
            BY <4>1, <5>1, Zenon
    <3>5. CASE Frame(c)
      <4>0. UNCHANGED <<lastId, held, syncedAt>>
          BY <3>5, Zenon DEF Frame
      <4>1. PICK i \in 0 .. MaxEvents :
                  /\ got'[c] \ got[c] = IF i = 0 THEN {} ELSE {i}
                  /\ wire' = [wire EXCEPT ![c] = IF i # 0 /\ shown[i] THEN Append(wire[c], i) ELSE wire[c]]
          BY <3>5, Zenon DEF Frame
      <4>2. wire'[c] = IF i # 0 /\ shown[i] THEN Append(wire[c], i) ELSE wire[c]
          BY <1>0, <4>1, Zenon
      <4>3. state[c] = "open" /\ Step(c)
          BY <3>5, StepMoves, Zenon DEF Frame, FeedInv
      <4>4. CASE /\ state'[c] \in {"open", "lagged"} /\ cursor'[c] = cursor[c] /\ got'[c] = got[c]
        <5>1. i = 0
            BY <4>1, <4>4, Zenon
        <5>2. wire'[c] = wire[c]
            BY <4>2, <5>1, Zenon
        <5> QED
            BY <3>0, <4>0, <4>3, <4>4, <5>2, Zenon DEF ClientOK
      <4>5. CASE /\ state'[c] = "open" /\ cursor'[c] = cursor[c] + 1 /\ cursor[c] + 1 <= Latest
                 /\ got'[c] \ got[c] = IF log[cursor[c] + 1] = kb[c] THEN {cursor[c] + 1} ELSE {}
        <5>1. wire'[c] = IF Sees(log, shown, kb[c], cursor[c] + 1)
                         THEN Append(wire[c], cursor[c] + 1) ELSE wire[c]
          <6>1. CASE log[cursor[c] + 1] = kb[c]
            <7>1. i = cursor[c] + 1 /\ i # 0
                BY <1>0, <4>1, <4>5, <6>1, Zenon
            <7> QED
                BY <4>2, <6>1, <7>1, Zenon DEF Sees
          <6>2. CASE log[cursor[c] + 1] # kb[c]
            <7>1. i = 0
                BY <4>1, <4>5, <6>2, Zenon
            <7> QED
                BY <4>2, <6>2, <7>1, Zenon DEF Sees
          <6> QED
              BY <6>1, <6>2, Zenon
        <5>2. ClientOK(log, shown, kb[c], "open", cursor[c] + 1, wire'[c], lastId[c], held[c], syncedAt[c])
          <6>1. /\ cursor[c] \in Nat /\ wire[c] \in Seq(Nat) /\ Len(log) \in Nat
                /\ cursor[c] + 1 <= Len(log)
              BY <1>0, <4>5 DEF Latest
          <6>2. ClientOK(log, shown, kb[c], "open", cursor[c], wire[c], lastId[c], held[c], syncedAt[c])
              BY <3>0, <4>3, Zenon
          <6> QED
              BY <5>1, <6>1, <6>2, ClientFrame, Zenon
        <5> QED
            BY <4>0, <4>5, <5>2, Zenon
      <4> QED
          BY <4>3, <4>4, <4>5, StepMoves, Zenon DEF FeedInv
    <3> QED
        BY <2>2, <3>1, <3>2, <3>3, <3>4, <3>5, Zenon
  <2> QED
      BY <2>1, <2>2, Zenon
<1> QED
    BY <1>3, <1>4, Zenon

\* A server that has just started, and clients that have not connected, satisfy it.
LEMMA FeedInvInit == StreamInit => FeedInv
<1> SUFFICES ASSUME StreamInit PROVE FeedInv
    BY Zenon
<1>1. LogInv /\ Latest = 0
    BY LogInvInit, Zenon DEF StreamInit, Init, Latest
<1>2. FeedTypeOK
  <2>1. shown = <<>> /\ shown \in Seq(BOOLEAN) /\ Len(shown) = 0
      BY DEF StreamInit
  <2>2. <<>> \in Seq(1 .. MaxEvents)
      OBVIOUS
  <2> QED
      BY <1>1, <2>1, <2>2, MaxEventsAssumption DEF StreamInit, FeedTypeOK, NoId
<1>3. \A c \in Subs : syncEpoch[c] <= epoch
    BY DEF StreamInit
<1>4. ASSUME NEW c \in Subs PROVE Client(c)
  <2>1. ClientOK(log, shown, kb[c], "off", 0, <<>>, NoId, {}, 0)
    <3>1. Len(log) = 0
        BY <1>1, Zenon DEF Latest
    <3>2. Carries(log, shown, kb[c], Place(NoId, 0), <<>>)
        BY DEF Carries
    <3> QED
        BY <3>1, <3>2 DEF ClientOK, NoId
  <2>2. /\ state[c] = "off" /\ cursor[c] = 0 /\ wire[c] = <<>> /\ lastId[c] = NoId
        /\ held[c] = {} /\ syncedAt[c] = 0
      BY Zenon DEF StreamInit, Init
  <2> QED
      BY <2>1, <2>2, Zenon DEF Client
<1> QED
    BY <1>1, <1>2, <1>3, <1>4, Zenon DEF FeedInv

\* The types, and that no client synced in a later run, through every step.
LEMMA FeedTypes ==
    ASSUME FeedInv, [StreamNext]_allVars
    PROVE  FeedTypeOK' /\ \A c \in Subs : syncEpoch'[c] <= epoch'
<1>0. /\ Latest \in Nat /\ Latest <= MaxEvents /\ MaxEvents \in Nat
      /\ shown \in Seq(BOOLEAN) /\ Len(shown) = Latest
      /\ wire \in [Subs -> Seq(1 .. MaxEvents)] /\ lastId \in [Subs -> 0 .. MaxEvents]
      /\ held \in [Subs -> SUBSET Nat] /\ syncedAt \in [Subs -> Nat] /\ syncEpoch \in [Subs -> Nat]
      /\ epoch \in Nat /\ \A c \in Subs : syncEpoch[c] <= epoch
    BY OldestOfRing, MaxEventsAssumption, Zenon DEF FeedInv, FeedTypeOK
<1>e. <<>> \in Seq(1 .. MaxEvents) /\ <<>> \in Seq(BOOLEAN) /\ Len(<<>>) = 0
    OBVIOUS
<1> DEFINE Types == /\ wire' \in [Subs -> Seq(1 .. MaxEvents)] /\ lastId' \in [Subs -> 0 .. MaxEvents]
                    /\ held' \in [Subs -> SUBSET Nat] /\ syncedAt' \in [Subs -> Nat]
                    /\ syncEpoch' \in [Subs -> Nat] /\ epoch' \in Nat
                    /\ \A c \in Subs : syncEpoch'[c] <= epoch'
           Logs == Latest' <= MaxEvents /\ shown' \in Seq(BOOLEAN) /\ Len(shown') = Latest'
<1> SUFFICES Types /\ Logs
    BY Zenon DEF FeedTypeOK
<1>1. CASE UNCHANGED allVars
    BY <1>0, <1>1, Zenon DEF allVars, vars, logVars, clientVars, Latest
<1>2. CASE Restart
  <2>1. Logs
      BY <1>0, <1>2, <1>e DEF Restart, Latest
  <2>2. wire' \in [Subs -> Seq(1 .. MaxEvents)]
      BY <1>2, <1>e, Zenon DEF Restart
  <2> QED
      BY <1>0, <1>2, <2>1, <2>2 DEF Restart
<1>3. ASSUME NEW k \in Kbs, NEW v \in BOOLEAN, Happen(k, v) PROVE Types /\ Logs
  <2>1. Types
      BY <1>0, <1>3, Zenon DEF Happen, clientVars
  <2>2. /\ log \in Seq(Kbs) /\ log' = Append(log, k) /\ shown' = Append(shown, v)
        /\ Latest < MaxEvents
      BY <1>3, Zenon DEF Happen, Publish, FeedInv, LogInv, TypeOK
  <2>3. Latest' = Latest + 1
      BY <2>2 DEF Latest
  <2>4. shown' \in Seq(BOOLEAN) /\ Len(shown') = Len(shown) + 1
      BY <1>0, <2>2
  <2> QED
      BY <1>0, <2>1, <2>2, <2>3, <2>4
<1>4. ASSUME NEW c \in Subs,
             \/ ConnectFresh(c) \/ Reconnect(c) \/ Resync(c) \/ Frame(c)
             \/ Receive(c) \/ Expire(c) \/ Disconnect(c)
      PROVE  Types /\ Logs
  <2>1. UNCHANGED <<log, shown, epoch>>
      BY <1>4, StepMoves, Zenon DEF ConnectFresh, Reconnect, Resync, Frame, Receive, Expire, Disconnect,
         Attach, Resume, Open, Refuse, Close, vars, logVars, clientVars, FeedInv
  <2>2. Logs
      BY <1>0, <2>1, Zenon DEF Latest
  <2>3. CASE ConnectFresh(c) \/ Reconnect(c) \/ Resync(c)
    <3>1. /\ wire' = [wire EXCEPT ![c] = <<>>]
          /\ lastId' \in {lastId, [lastId EXCEPT ![c] = NoId]}
          /\ held' \in {held, [held EXCEPT ![c] = {}]}
          /\ syncedAt' \in {syncedAt, [syncedAt EXCEPT ![c] = Latest]}
          /\ syncEpoch' \in {syncEpoch, [syncEpoch EXCEPT ![c] = epoch]}
        BY <2>3, Zenon DEF ConnectFresh, Reconnect, Resync
    <3>2. wire' \in [Subs -> Seq(1 .. MaxEvents)]
        BY <1>0, <1>e, <3>1, Zenon
    <3>3. lastId' \in [Subs -> 0 .. MaxEvents]
      <4>1. [lastId EXCEPT ![c] = NoId] \in [Subs -> 0 .. MaxEvents]
          BY <1>0 DEF NoId
      <4> QED
          BY <1>0, <3>1, <4>1, Zenon
    <3>4. held' \in [Subs -> SUBSET Nat] /\ syncedAt' \in [Subs -> Nat]
      <4>1. /\ [held EXCEPT ![c] = {}] \in [Subs -> SUBSET Nat]
            /\ [syncedAt EXCEPT ![c] = Latest] \in [Subs -> Nat]
          BY <1>0, Zenon
      <4> QED
          BY <1>0, <3>1, <4>1, Zenon
    <3>5. syncEpoch' \in [Subs -> Nat] /\ \A d \in Subs : syncEpoch'[d] <= epoch
      <4> DEFINE synced == [syncEpoch EXCEPT ![c] = epoch]
      <4>1. synced \in [Subs -> Nat] /\ \A d \in Subs : synced[d] <= epoch
          BY <1>0
      <4> HIDE DEF synced
      <4>2. syncEpoch' = syncEpoch \/ syncEpoch' = synced
          BY <3>1, Zenon DEF synced
      <4> QED
          BY <1>0, <4>1, <4>2, Zenon
    <3> QED
        BY <1>0, <2>1, <2>2, <3>2, <3>3, <3>4, <3>5, Zenon
  <2>4. CASE Frame(c)
    <3>1. PICK i \in 0 .. MaxEvents :
            wire' = [wire EXCEPT ![c] = IF i # 0 /\ shown[i] THEN Append(wire[c], i) ELSE wire[c]]
        BY <2>4, Zenon DEF Frame
    <3>2. i # 0 => Append(wire[c], i) \in Seq(1 .. MaxEvents)
      <4>1. wire[c] \in Seq(1 .. MaxEvents) /\ (i # 0 => i \in 1 .. MaxEvents)
          BY <1>0
      <4> QED
          BY <4>1
    <3>3. wire' \in [Subs -> Seq(1 .. MaxEvents)]
        BY <1>0, <3>1, <3>2, Zenon
    <3>4. UNCHANGED <<lastId, held, syncedAt, syncEpoch>>
        BY <2>4, Zenon DEF Frame
    <3> QED
        BY <1>0, <2>1, <2>2, <3>3, <3>4, Zenon
  <2>5. CASE Receive(c)
    <3>1. /\ wire' = [wire EXCEPT ![c] = Tail(wire[c])]
          /\ lastId' = [lastId EXCEPT ![c] = Head(wire[c])]
          /\ held' = [held EXCEPT ![c] = held[c] \cup {Head(wire[c])}]
          /\ UNCHANGED <<syncedAt, syncEpoch>> /\ wire[c] # <<>>
        BY <2>5, Zenon DEF Receive
    <3>2. Tail(wire[c]) \in Seq(1 .. MaxEvents) /\ Head(wire[c]) \in 1 .. MaxEvents
      <4>1. wire[c] \in Seq(1 .. MaxEvents)
          BY <1>0, Zenon
      <4> QED
          BY <3>1, <4>1, HeadAndTail, Zenon
    <3>3. wire' \in [Subs -> Seq(1 .. MaxEvents)]
        BY <1>0, <3>1, <3>2, Zenon
    <3>4. lastId' \in [Subs -> 0 .. MaxEvents] /\ held' \in [Subs -> SUBSET Nat]
      <4>1. Head(wire[c]) \in 0 .. MaxEvents /\ Head(wire[c]) \in Nat
          BY <1>0, <3>2
      <4> QED
          BY <1>0, <3>1, <4>1, Zenon
    <3> QED
        BY <1>0, <2>1, <2>2, <3>1, <3>3, <3>4, Zenon
  <2>6. CASE Expire(c) \/ Disconnect(c)
    <3>1. /\ wire' \in {wire, [wire EXCEPT ![c] = <<>>]}
          /\ UNCHANGED <<lastId, held, syncedAt, syncEpoch>>
        BY <2>6, Zenon DEF Expire, Disconnect, clientVars
    <3>2. wire' \in [Subs -> Seq(1 .. MaxEvents)]
        BY <1>0, <1>e, <3>1, Zenon
    <3> QED
        BY <1>0, <2>1, <2>2, <3>1, <3>2, Zenon
  <2> QED
      BY <1>4, <2>3, <2>4, <2>5, <2>6, Zenon
<1> QED
    BY <1>1, <1>2, <1>3, <1>4, Zenon DEF StreamNext

\* Publishing, connecting, reconnecting, a refusal, frames sent and read, an
\* expiry, a broken connection and a restart preserve the invariant.
LEMMA FeedInvStep ==
    ASSUME FeedInv, [StreamNext]_allVars
    PROVE  FeedInv'
<1> SUFFICES ASSUME NEW c \in Subs PROVE (syncEpoch[c] = epoch => Client(c))'
    BY StreamLog, FeedTypes, Zenon DEF FeedInv
<1>0. /\ syncEpoch[c] \in Nat /\ epoch \in Nat /\ syncEpoch[c] <= epoch
      /\ syncEpoch[c] = epoch => Client(c)
    BY Zenon DEF FeedInv, FeedTypeOK
<1>1. CASE UNCHANGED allVars
    BY <1>0, <1>1, OtherClients, Zenon DEF allVars, vars, logVars, subVars, clientVars
<1>2. CASE Restart
    BY <1>0, <1>2 DEF Restart
<1>3. ASSUME NEW k \in Kbs, NEW v \in BOOLEAN, Happen(k, v)
      PROVE  (syncEpoch[c] = epoch => Client(c))'
    BY <1>3, FeedHappens, Zenon
<1>4. ASSUME NEW d \in Subs,
             \/ ConnectFresh(d) \/ Reconnect(d) \/ Resync(d) \/ Frame(d)
             \/ Receive(d) \/ Expire(d) \/ Disconnect(d)
      PROVE  (syncEpoch[c] = epoch => Client(c))'
    BY <1>4, FeedMoves, Zenon
<1> QED
    BY <1>1, <1>2, <1>3, <1>4, Zenon DEF StreamNext

\* The change feed's invariant: what a client holds, the frames on the way to it
\* and the cursor of its stream account for every event it may see, through
\* replays, lags, expiries, lost frames, reconnects and refusals (events.rs
\* subscribe_events and frames, over memory.rs).
THEOREM FeedInvariant == StreamSpec => []FeedInv
<1>1. FeedInv /\ [StreamNext]_allVars => FeedInv'
    BY FeedInvStep, Zenon
<1> QED
    BY <1>1, FeedInvInit, PTL DEF StreamSpec

\* docs/API.md 1607 for every number of clients, ring, channel and wire: a client
\* that reconnects with Last-Event-ID (events.rs subscribe_events) holds exactly
\* the events it may see between its last sync and that id, until the server restarts.
THEOREM ReconnectingLosesNothing == StreamSpec => []HoldsEverything
<1>1. FeedInv => HoldsEverything
  <2> SUFFICES ASSUME FeedInv, NEW c \in Subs, syncEpoch[c] = epoch, lastId[c] # NoId
               PROVE  held[c] = {i \in (syncedAt[c] + 1) .. lastId[c] : log[i] = kb[c] /\ shown[i]}
      BY Zenon DEF HoldsEverything
  <2>1. held[c] = Seen(log, shown, kb[c], syncedAt[c], lastId[c])
      BY Zenon DEF FeedInv, Client, ClientOK
  <2> QED
      BY <2>1, Zenon DEF Seen, Sees
<1> QED
    BY <1>1, FeedInvariant, PTL

-----------------------------------------------------------------------------
(* The connections the feed is served on.                                  *)

\* What a frame may carry, and the frames of a stream.
Payloads ==
    {Log[n] : n \in DOMAIN Log} \cup {WithholdSummary(Log[n]) : n \in DOMAIN Log}
    \cup {Ended.event, CredentialExpired.event}
FrameSet == [id : Nat \cup {None}, event : Payloads]

\* A connection whose request was let through.
Begun(r) == r.phase \in {"subscribing", "open", "closed", "gone"}

\* The five fields of a connection, and those of one that was let through.
ConnOK(r) ==
    /\ r = [phase |-> r.phase, caller |-> r.caller, query |-> r.query, at |-> r.at, frames |-> r.frames]
    /\ Begun(r) => /\ r.query \in Queries
                   /\ ParseFilter(r.query) # None
                   /\ ParseLastEventId(r.query.last) \in Nat
                   /\ r.at \in Nat
                   /\ r.frames \in Seq(FrameSet)

\* `frames` are those the query and the grant of connection r select from the log
\* after `first` up to `at`, in order; only a closed stream has one without an id.
TellsUpTo(r, first, at, frames, phase) ==
    /\ \A n \in DOMAIN frames : frames[n].id # None =>
          /\ frames[n].id \in (first + 1) .. at
          /\ frames[n].id \in DOMAIN Log
          /\ Shows(r, Log[frames[n].id])
          /\ frames[n] = FrameOf(r, frames[n].id)
    /\ \A id \in (first + 1) .. at : Shows(r, Log[id]) => \E n \in DOMAIN frames : frames[n].id = id
    /\ \A m, n \in DOMAIN frames :
          m < n /\ frames[m].id # None /\ frames[n].id # None => frames[m].id < frames[n].id
    /\ \A n \in DOMAIN frames : frames[n].id = None => n = Len(frames) /\ phase = "closed"
    /\ first <= at
    /\ phase = "subscribing" => frames = <<>> /\ at = first
Tells(r) == TellsUpTo(r, ParseLastEventId(r.query.last), r.at, r.frames, r.phase)

Held == {c \in Conns : conn[c].phase = "open"}

ConnInv ==
    /\ conn = [c \in Conns |-> conn[c]]
    /\ \A c \in Conns : ConnOK(conn[c]) /\ (Begun(conn[c]) => Tells(conn[c]))
    /\ IsFiniteSet(Held) /\ gauge = Cardinality(Held)

LEMMA HeldIsCounted ==
    ASSUME NEW S, IsFiniteSet(S), NEW c
    PROVE  /\ IsFiniteSet(S \cup {c}) /\ IsFiniteSet(S \ {c})
           /\ c \notin S => Cardinality(S \cup {c}) = Cardinality(S) + 1
           /\ c \in S => Cardinality(S \ {c}) = Cardinality(S) - 1
<1>1. /\ IsFiniteSet(S \cup {c})
      /\ Cardinality(S \cup {c}) = IF c \in S THEN Cardinality(S) ELSE Cardinality(S) + 1
    BY FS_AddElement, Zenon
<1>2. /\ IsFiniteSet(S \ {c})
      /\ Cardinality(S \ {c}) = IF c \in S THEN Cardinality(S) - 1 ELSE Cardinality(S)
    BY FS_RemoveElement, Zenon
<1> QED
    BY <1>1, <1>2, Zenon

LEMMA ConnInvInit == FeedInit => ConnInv
<1> SUFFICES ASSUME FeedInit PROVE ConnInv
    OBVIOUS
<1>1. conn = [c \in Conns |-> Idle] /\ gauge = 0
    BY Zenon DEF FeedInit
<1>2. \A c \in Conns : conn[c].phase = "idle" /\ ConnOK(conn[c]) /\ ~Begun(conn[c])
    BY <1>1 DEF ConnOK, Begun, Idle
<1>3. Held = {}
    BY <1>2 DEF Held
<1>4. IsFiniteSet(Held) /\ Cardinality(Held) = 0
    BY <1>3, FS_EmptySet
<1> QED
    BY <1>1, <1>2, <1>4, Zenon DEF ConnInv

\* One connection moves and the gauge with it.
LEMMA OneMoves ==
    ASSUME ConnInv, NEW c \in Conns, NEW r,
           conn' = [conn EXCEPT ![c] = r],
           ConnOK(r), Begun(r) => Tells(r),
           gauge' = IF r.phase = "open" /\ conn[c].phase # "open" THEN gauge + 1
                    ELSE IF r.phase # "open" /\ conn[c].phase = "open" THEN gauge - 1 ELSE gauge
    PROVE  ConnInv'
<1>1. /\ conn' = [d \in Conns |-> conn'[d]] /\ conn'[c] = r
      /\ \A d \in Conns : d # c => conn'[d] = conn[d]
    BY DEF ConnInv
<1>2. \A d \in Conns : ConnOK(conn'[d]) /\ (Begun(conn'[d]) => Tells(conn'[d]))
    BY <1>1, Zenon DEF ConnInv
<1>3. CASE r.phase = "open" /\ conn[c].phase # "open"
  <2>1. Held' = Held \cup {c} /\ c \notin Held
      BY <1>1, <1>3 DEF Held
  <2>2. IsFiniteSet(Held') /\ Cardinality(Held') = Cardinality(Held) + 1
      BY <2>1, HeldIsCounted, Zenon DEF ConnInv
  <2> QED
      BY <1>1, <1>2, <1>3, <2>2, Zenon DEF ConnInv
<1>4. CASE r.phase # "open" /\ conn[c].phase = "open"
  <2>1. Held' = Held \ {c} /\ c \in Held
      BY <1>1, <1>4 DEF Held
  <2>2. IsFiniteSet(Held') /\ Cardinality(Held') = Cardinality(Held) - 1
      BY <2>1, HeldIsCounted, Zenon DEF ConnInv
  <2> QED
      BY <1>1, <1>2, <1>4, <2>2, Zenon DEF ConnInv
<1>5. CASE (r.phase = "open") = (conn[c].phase = "open")
  <2>1. Held' = Held
      BY <1>1, <1>5 DEF Held
  <2> QED
      BY <1>1, <1>2, <1>5, <2>1, Zenon DEF ConnInv
<1> QED
    BY <1>3, <1>4, <1>5, Zenon

\* A connection's caller and query decide what it is shown.
LEMMA SameShows ==
    ASSUME NEW r, NEW s, s.caller = r.caller, s.query = r.query,
           NEW first, NEW at, NEW frames, NEW phase, TellsUpTo(r, first, at, frames, phase)
    PROVE  TellsUpTo(s, first, at, frames, phase)
<1>1. \A e, id : (Shows(s, e) <=> Shows(r, e)) /\ FrameOf(s, id) = FrameOf(r, id)
    BY Zenon DEF Shows, FrameOf
<1> QED
    BY <1>1, Zenon DEF TellsUpTo

\* Connection r in another phase, at another place, with other frames.
AtPlace(r, phase, at, frames) ==
    [phase |-> phase, caller |-> r.caller, query |-> r.query, at |-> at, frames |-> frames]

\* A connection that moved, field by field.
LEMMA Moved ==
    ASSUME NEW r, ConnOK(r), Begun(r),
           NEW phase \in {"subscribing", "open", "closed", "gone"},
           NEW at \in Nat, NEW frames \in Seq(FrameSet),
           TellsUpTo(r, ParseLastEventId(r.query.last), at, frames, phase),
           NEW s, s = AtPlace(r, phase, at, frames)
    PROVE  ConnOK(s) /\ Begun(s) /\ Tells(s) /\ s.phase = phase
<1>1. s.phase = phase /\ s.caller = r.caller /\ s.query = r.query /\ s.at = at /\ s.frames = frames
    BY DEF AtPlace
<1>2. r.query \in Queries /\ ParseLastEventId(r.query.last) \in Nat /\ ParseFilter(r.query) # None
    BY Zenon DEF ConnOK
<1>3. Begun(s)
    BY <1>1, Zenon DEF Begun
<1>4. ConnOK(s)
    BY <1>1, <1>2 DEF ConnOK, AtPlace
<1>5. TellsUpTo(s, ParseLastEventId(r.query.last), at, frames, phase)
    BY <1>1, SameShows
<1>6. Tells(s)
    BY <1>1, <1>5, Zenon DEF Tells
<1> QED
    BY <1>1, <1>3, <1>4, <1>6, Zenon

\* A stream that opens, or whose client goes away, has sent what it had sent.
LEMMA PhaseMoves ==
    ASSUME NEW r, ConnOK(r), Begun(r), Tells(r), r.phase # "closed", NEW p \in {"open", "gone"},
           NEW s, s = [r EXCEPT !.phase = p]
    PROVE  ConnOK(s) /\ Begun(s) /\ Tells(s) /\ s.phase = p
<1>1. s = AtPlace(r, p, r.at, r.frames)
    BY DEF ConnOK, AtPlace
<1>2. r.at \in Nat /\ r.frames \in Seq(FrameSet)
    BY Zenon DEF ConnOK
<1>3. p # "subscribing" /\ p \in {"subscribing", "open", "closed", "gone"}
    OBVIOUS
<1>4. TellsUpTo(r, ParseLastEventId(r.query.last), r.at, r.frames, p)
    BY <1>3, Zenon DEF Tells, TellsUpTo
<1> QED
    BY <1>1, <1>2, <1>3, <1>4, Moved

\* The last frame of a stream: none, or one without an id.
LEMMA StreamEnds ==
    ASSUME NEW r, ConnOK(r), r.phase = "open", Tells(r), NEW x \in Seq(FrameSet),
           Len(x) <= 1, \A n \in DOMAIN x : x[n].id = None,
           NEW s, s = [r EXCEPT !.phase = "closed", !.frames = @ \o x]
    PROVE  ConnOK(s) /\ Begun(s) /\ Tells(s) /\ s.phase = "closed"
<1> DEFINE f == r.frames
<1> DEFINE g == f \o x
<1> DEFINE first == ParseLastEventId(r.query.last)
<1>0. Begun(r) /\ f \in Seq(FrameSet) /\ r.at \in Nat
    BY DEF ConnOK, Begun
<1>1. s = AtPlace(r, "closed", r.at, g)
    BY DEF ConnOK, AtPlace
<1>2. TellsUpTo(r, first, r.at, f, "open")
    BY Zenon DEF Tells
<1>3. g \in Seq(FrameSet)
    BY <1>0
<1>4. \A n \in DOMAIN f : n \in DOMAIN g /\ g[n] = f[n]
    BY <1>0
<1>5. \A n \in DOMAIN g : n \notin DOMAIN f => n = Len(g) /\ g[n].id = None
    BY <1>0
<1>6. \A n \in DOMAIN f : f[n].id # None
  <2>1. "open" # "closed"
      OBVIOUS
  <2> QED
      BY <1>2, <2>1, Zenon DEF TellsUpTo
<1> HIDE DEF f, g, first
<1>7. \A n \in DOMAIN g : g[n].id # None => n \in DOMAIN f /\ g[n] = f[n]
    BY <1>4, <1>5, Zenon
<1>8. TellsUpTo(r, first, r.at, g, "closed")
  <2>1. \A n \in DOMAIN g : g[n].id # None =>
              /\ g[n].id \in (first + 1) .. r.at
              /\ g[n].id \in DOMAIN Log
              /\ Shows(r, Log[g[n].id])
              /\ g[n] = FrameOf(r, g[n].id)
      BY <1>2, <1>7 DEF TellsUpTo
  <2>2. \A id \in (first + 1) .. r.at : Shows(r, Log[id]) => \E n \in DOMAIN g : g[n].id = id
      BY <1>2, <1>4 DEF TellsUpTo
  <2>3. \A m, n \in DOMAIN g : m < n /\ g[m].id # None /\ g[n].id # None => g[m].id < g[n].id
      BY <1>2, <1>7 DEF TellsUpTo
  <2>4. \A n \in DOMAIN g : g[n].id = None => n = Len(g)
      BY <1>4, <1>5, <1>6, Zenon
  <2>5. first <= r.at /\ "closed" # "subscribing"
      BY <1>2 DEF TellsUpTo
  <2> QED
      BY <2>1, <2>2, <2>3, <2>4, <2>5, Zenon DEF TellsUpTo
<1>9. TellsUpTo(r, ParseLastEventId(r.query.last), r.at, g, "closed")
    BY <1>8, Zenon DEF first
<1>10. "closed" \in {"subscribing", "open", "closed", "gone"}
    OBVIOUS
<1> QED
    BY <1>0, <1>1, <1>3, <1>9, <1>10, Moved

\* The next event of the log, passed over or sent.
LEMMA StreamLogs ==
    ASSUME NEW r, ConnOK(r), r.phase = "open", Tells(r), r.at < Len(Log),
           NEW s, s = [r EXCEPT !.at = r.at + 1,
                                !.frames = IF Shows(r, Log[r.at + 1]) THEN Append(@, FrameOf(r, r.at + 1)) ELSE @]
    PROVE  ConnOK(s) /\ Begun(s) /\ Tells(s) /\ s.phase = "open"
<1> DEFINE f == r.frames
<1> DEFINE id == r.at + 1
<1> DEFINE fr == FrameOf(r, id)
<1> DEFINE g == IF Shows(r, Log[id]) THEN Append(f, fr) ELSE f
<1> DEFINE first == ParseLastEventId(r.query.last)
<1>0. Begun(r) /\ f \in Seq(FrameSet) /\ r.at \in Nat /\ first \in Nat
    BY DEF ConnOK, Begun
<1>1. s = AtPlace(r, "open", id, g)
    BY DEF ConnOK, AtPlace
<1>2. TellsUpTo(r, first, r.at, f, "open")
    BY Zenon DEF Tells
<1>3. id \in DOMAIN Log /\ id \in Nat /\ id # None
    BY <1>0, LogAssumption, NoneIsNoId
<1>4. fr \in FrameSet /\ fr.id = id
  <2>1. (IF r.caller.whole THEN Log[id] ELSE WithholdSummary(Log[id])) \in Payloads
      BY <1>3, Zenon DEF Payloads
  <2> QED
      BY <1>3, <2>1 DEF FrameOf, FrameFor, FrameSet
<1>5. fr = FrameOf(r, id)
    OBVIOUS
<1> HIDE DEF fr
<1>6. g \in Seq(FrameSet)
    BY <1>0, <1>4
<1>7. \A n \in DOMAIN f : n \in DOMAIN g /\ g[n] = f[n]
    BY <1>0, <1>4
<1>8. \A n \in DOMAIN f : f[n].id # None /\ f[n].id \in (first + 1) .. r.at
  <2>1. "open" # "closed"
      OBVIOUS
  <2> QED
      BY <1>2, <2>1, Zenon DEF TellsUpTo
<1>9. \A n \in DOMAIN g : n \notin DOMAIN f =>
          n = Len(f) + 1 /\ n = Len(g) /\ g[n] = fr /\ Shows(r, Log[id])
    BY <1>0, <1>4
<1>10. Shows(r, Log[id]) => \E n \in DOMAIN g : g[n] = fr
  <2>1. Shows(r, Log[id]) => Len(f) + 1 \in DOMAIN g /\ g[Len(f) + 1] = fr
      BY <1>0, <1>4
  <2> QED
      BY <2>1, Zenon
<1>11. first <= r.at
    BY <1>2, Zenon DEF TellsUpTo
<1>12. DOMAIN f = 1 .. Len(f) /\ Len(f) \in Nat
    BY <1>0
<1>13. id = r.at + 1
    OBVIOUS
<1> HIDE DEF f, g, first, id
<1>14. TellsUpTo(r, first, id, g, "open")
  <2>1. \A n \in DOMAIN g : /\ g[n].id # None
                            /\ g[n].id \in (first + 1) .. id
                            /\ g[n].id \in DOMAIN Log
                            /\ Shows(r, Log[g[n].id])
                            /\ g[n] = FrameOf(r, g[n].id)
    <3> SUFFICES ASSUME NEW n \in DOMAIN g
                 PROVE  /\ g[n].id # None
                        /\ g[n].id \in (first + 1) .. id
                        /\ g[n].id \in DOMAIN Log
                        /\ Shows(r, Log[g[n].id])
                        /\ g[n] = FrameOf(r, g[n].id)
        OBVIOUS
    <3>1. CASE n \in DOMAIN f
      <4>1. /\ f[n].id \in DOMAIN Log /\ Shows(r, Log[f[n].id]) /\ f[n] = FrameOf(r, f[n].id)
          BY <1>2, <1>8, <3>1, Zenon DEF TellsUpTo
      <4>2. f[n].id # None /\ f[n].id \in (first + 1) .. id
          BY <1>0, <1>8, <1>13, <3>1
      <4> QED
          BY <1>7, <3>1, <4>1, <4>2, Zenon
    <3>2. CASE n \notin DOMAIN f
      <4>1. g[n] = fr /\ Shows(r, Log[id]) /\ fr.id = id
          BY <1>4, <1>9, <3>2, Zenon
      <4>2. id \in (first + 1) .. id
          BY <1>0, <1>3, <1>11, <1>13
      <4> QED
          BY <1>3, <1>5, <4>1, <4>2, Zenon
    <3> QED
        BY <3>1, <3>2, Zenon
  <2>2. ASSUME NEW i \in (first + 1) .. id, Shows(r, Log[i]) PROVE \E n \in DOMAIN g : g[n].id = i
    <3>1. CASE i = id
        BY <1>4, <1>10, <2>2, <3>1, Zenon
    <3>2. CASE i # id
      <4>1. i \in (first + 1) .. r.at
          BY <1>0, <1>13, <3>2
      <4>2. PICK n \in DOMAIN f : f[n].id = i
          BY <1>2, <2>2, <4>1, Zenon DEF TellsUpTo
      <4> QED
          BY <1>7, <4>2, Zenon
    <3> QED
        BY <3>1, <3>2, Zenon
  <2>3. ASSUME NEW m \in DOMAIN g, NEW n \in DOMAIN g, m < n PROVE g[m].id < g[n].id
    <3>1. CASE n \in DOMAIN f
      <4>1. m \in DOMAIN f
          BY <1>9, <1>12, <2>3, <3>1
      <4> QED
          BY <1>2, <1>7, <1>8, <2>3, <3>1, <4>1, Zenon DEF TellsUpTo
    <3>2. CASE n \notin DOMAIN f
      <4>1. m \in DOMAIN f
          BY <1>9, <1>12, <2>3, <3>2
      <4>2. f[m].id < id
          BY <1>0, <1>8, <1>13, <4>1
      <4> QED
          BY <1>4, <1>7, <1>9, <3>2, <4>1, <4>2, Zenon
    <3> QED
        BY <3>1, <3>2, Zenon
  <2>4. first <= id /\ "open" # "subscribing"
      BY <1>0, <1>11, <1>13
  <2> QED
      BY <2>1, <2>2, <2>3, <2>4, Zenon DEF TellsUpTo
<1>15. "open" \in {"subscribing", "open", "closed", "gone"}
    OBVIOUS
<1>16. TellsUpTo(r, ParseLastEventId(r.query.last), id, g, "open")
    BY <1>14, Zenon DEF first
<1> QED
    BY <1>0, <1>1, <1>3, <1>6, <1>15, <1>16, Moved

\* A connection that has not asked.
LEMMA IdleOK == ConnOK(Idle) /\ Idle.frames = <<>> /\ Idle.phase # "open"
BY DEF ConnOK, Begun, Idle

\* A refused connection.
RefusedWith(status) == [Idle EXCEPT !.phase = "refused", !.at = status]
LEMMA Refused ==
    ASSUME NEW status
    PROVE  LET r == RefusedWith(status) IN ConnOK(r) /\ ~Begun(r) /\ r.phase # "open"
<1> DEFINE r == RefusedWith(status)
<1>0. ASSUME NEW i, ConnOK(i), NEW s, s = [i EXCEPT !.phase = "refused", !.at = status]
      PROVE  s = AtPlace(i, "refused", status, i.frames)
    BY <1>0 DEF ConnOK, AtPlace
<1>1. r = AtPlace(Idle, "refused", status, Idle.frames)
    BY <1>0, IdleOK, Zenon DEF RefusedWith
<1> HIDE DEF r
<1>2. /\ r.phase = "refused" /\ r.caller = Idle.caller /\ r.query = Idle.query
      /\ r.at = status /\ r.frames = Idle.frames
    BY <1>1 DEF AtPlace
<1>3. ~Begun(r) /\ r.phase # "open"
    BY <1>2 DEF Begun
<1>4. ConnOK(r)
    BY <1>1, <1>2, <1>3, Zenon DEF ConnOK, AtPlace
<1> QED
    BY <1>3, <1>4, Zenon DEF r

\* A terminal frame.
LEMMA OneFrame ==
    ASSUME NEW S, NEW x \in S, x.id = None
    PROVE  <<x>> \in Seq(S) /\ Len(<<x>>) <= 1 /\ \A n \in DOMAIN <<x>> : <<x>>[n].id = None
OBVIOUS

\* A connection whose request was let through has sent nothing.
AskedFor(caller, query) ==
    [Idle EXCEPT !.phase = "subscribing", !.caller = caller, !.query = query,
                 !.at = ParseLastEventId(query.last)]
LEMMA LetThrough ==
    ASSUME NEW caller, NEW query \in Queries, Refusal(caller, query) = None,
           NEW r, r = AskedFor(caller, query)
    PROVE  ConnOK(r) /\ Tells(r) /\ r.phase # "open"
<1> DEFINE first == ParseLastEventId(query.last)
<1>1. first # None
    BY NoneIsNoId DEF Refusal
<1> DEFINE nil == <<>>
<1>0. nil \in Seq(FrameSet) /\ DOMAIN nil = {} /\ ParseFilter(query) # None
    BY NoneIsNoId DEF Refusal
<1>2. first \in Nat
    BY <1>1, QueriesAssumption DEF ParseLastEventId
<1>3. r = [phase |-> "subscribing", caller |-> caller, query |-> query, at |-> first, frames |-> nil]
    BY IdleOK DEF AskedFor, ConnOK
<1>4. nil = <<>>
    OBVIOUS
<1> HIDE DEF first, nil
<1>5. /\ r.phase = "subscribing" /\ r.query = query /\ r.caller = caller /\ r.at = first /\ r.frames = nil
    BY <1>3
<1>6. ConnOK(r)
    BY <1>0, <1>2, <1>3, <1>5 DEF ConnOK, first
<1>7. TellsUpTo(r, first, first, nil, "subscribing")
    BY <1>0, <1>2, <1>4 DEF TellsUpTo
<1>8. Tells(r)
    BY <1>5, <1>7, Zenon DEF Tells, first
<1> QED
    BY <1>5, <1>6, <1>8

\* Every step of a connection keeps the invariant.
LEMMA ConnInvStep == ConnInv /\ [FeedNext]_feedVars => ConnInv'
<1> SUFFICES ASSUME ConnInv, [FeedNext]_feedVars PROVE ConnInv'
    OBVIOUS
<1>0. \A c \in Conns : /\ ConnOK(conn[c])
                       /\ Begun(conn[c]) => Tells(conn[c])
    BY Zenon DEF ConnInv
<1>1. CASE UNCHANGED feedVars
  <2>1. conn' = conn /\ gauge' = gauge
      BY <1>1, Zenon DEF feedVars
  <2> QED
      BY <2>1, Zenon DEF ConnInv, Held
<1>2. ASSUME NEW c \in Conns, Ask(c) PROVE ConnInv'
  <2>1. PICK caller \in Callers, query \in Queries :
          conn' = [conn EXCEPT ![c] =
             IF Refusal(caller, query) # None
             THEN [Idle EXCEPT !.phase = "refused", !.at = Refusal(caller, query)]
             ELSE [Idle EXCEPT !.phase = "subscribing", !.caller = caller, !.query = query,
                               !.at = ParseLastEventId(query.last)]]
      BY <1>2, Zenon DEF Ask
  <2>2. conn[c].phase # "open" /\ gauge' = gauge
      BY <1>2 DEF Ask, Idle
  <2>3. CASE Refusal(caller, query) # None
    <3> DEFINE r == RefusedWith(Refusal(caller, query))
    <3>1. conn' = [conn EXCEPT ![c] = r]
        BY <2>1, <2>3, Zenon DEF RefusedWith
    <3>2. ConnOK(r) /\ ~Begun(r) /\ r.phase # "open"
        BY Refused, Zenon
    <3> HIDE DEF r
    <3> QED
        BY <2>2, <3>1, <3>2, OneMoves, Zenon
  <2>4. CASE Refusal(caller, query) = None
    <3> DEFINE r == AskedFor(caller, query)
    <3>1. conn' = [conn EXCEPT ![c] = r]
        BY <2>1, <2>4, Zenon DEF AskedFor
    <3>2. ConnOK(r) /\ Tells(r) /\ r.phase # "open"
        BY <2>4, LetThrough, Zenon
    <3> HIDE DEF r
    <3> QED
        BY <2>2, <3>1, <3>2, OneMoves, Zenon
  <2> QED
      BY <2>3, <2>4, Zenon
<1>3. ASSUME NEW c \in Conns, Subscribed(c) PROVE ConnInv'
  <2> DEFINE r == [conn[c] EXCEPT !.phase = "open"]
  <2>1. conn' = [conn EXCEPT ![c] = r] /\ gauge' = gauge + 1
      BY <1>3, Zenon DEF Subscribed
  <2>2. conn[c].phase # "open" /\ conn[c].phase # "closed" /\ Begun(conn[c])
      BY <1>3 DEF Subscribed, Begun
  <2>3. ConnOK(r) /\ Tells(r) /\ r.phase = "open"
      BY <1>0, <2>2, PhaseMoves, Zenon
  <2> HIDE DEF r
  <2> QED
      BY <2>1, <2>2, <2>3, OneMoves, Zenon
<1>4. ASSUME NEW c \in Conns, NotSubscribed(c) PROVE ConnInv'
  <2>1. PICK status :
          conn' = [conn EXCEPT ![c] = [Idle EXCEPT !.phase = "refused", !.at = status]]
      BY <1>4, Zenon DEF NotSubscribed
  <2> DEFINE r == RefusedWith(status)
  <2>2. conn[c].phase # "open" /\ gauge' = gauge
      BY <1>4 DEF NotSubscribed
  <2>3. ConnOK(r) /\ ~Begun(r) /\ r.phase # "open"
      BY Refused, Zenon
  <2> HIDE DEF r
  <2>4. conn' = [conn EXCEPT ![c] = r]
      BY <2>1, Zenon DEF r, RefusedWith
  <2> QED
      BY <2>2, <2>3, <2>4, OneMoves, Zenon
<1>5. ASSUME NEW c \in Conns, Logged(c) PROVE ConnInv'
  <2> DEFINE r == [conn[c] EXCEPT !.at = conn[c].at + 1,
                     !.frames = IF Shows(conn[c], Log[conn[c].at + 1])
                                THEN Append(@, FrameOf(conn[c], conn[c].at + 1)) ELSE @]
  <2>1. conn[c].phase = "open" /\ conn[c].at < Len(Log) /\ gauge' = gauge /\ Begun(conn[c])
      BY <1>5 DEF Logged, Begun
  <2>2. conn' = [conn EXCEPT ![c] = r]
      BY <1>5 DEF Logged, ConnInv
  <2>3. ConnOK(r) /\ Tells(r) /\ r.phase = "open"
      BY <1>0, <2>1, StreamLogs, Zenon
  <2> HIDE DEF r
  <2> QED
      BY <2>1, <2>2, <2>3, OneMoves, Zenon
<1>6. ASSUME NEW c \in Conns, NEW x \in Seq(FrameSet), Len(x) <= 1, \A n \in DOMAIN x : x[n].id = None,
             conn[c].phase = "open", CloseFeed(c, x)
      PROVE  ConnInv'
  <2> DEFINE r == [conn[c] EXCEPT !.phase = "closed", !.frames = @ \o x]
  <2>1. conn' = [conn EXCEPT ![c] = r] /\ gauge' = gauge - 1
      BY <1>6 DEF CloseFeed, ConnInv
  <2>2. Begun(conn[c]) /\ "closed" # "open"
      BY <1>6 DEF Begun
  <2>3. ConnOK(r) /\ Tells(r) /\ r.phase = "closed"
      BY <1>0, <1>6, <2>2, StreamEnds, Zenon
  <2> HIDE DEF r
  <2> QED
      BY <1>6, <2>1, <2>2, <2>3, OneMoves, Zenon
<1>7. ASSUME NEW c \in Conns, LogFails(c) \/ LogCloses(c) \/ Expires(c) PROVE ConnInv'
  <2>1. /\ <<Ended>> \in Seq(FrameSet) /\ Len(<<Ended>>) <= 1
        /\ \A n \in DOMAIN <<Ended>> : <<Ended>>[n].id = None
    <3>1. Ended \in FrameSet /\ Ended.id = None
        BY DEF Ended, FrameSet, Payloads
    <3> QED
        BY <3>1, OneFrame, Zenon
  <2>2. /\ <<CredentialExpired>> \in Seq(FrameSet) /\ Len(<<CredentialExpired>>) <= 1
        /\ \A n \in DOMAIN <<CredentialExpired>> : <<CredentialExpired>>[n].id = None
    <3>1. CredentialExpired \in FrameSet /\ CredentialExpired.id = None
        BY DEF CredentialExpired, FrameSet, Payloads
    <3> QED
        BY <3>1, OneFrame, Zenon
  <2>3. <<>> \in Seq(FrameSet) /\ Len(<<>>) <= 1 /\ \A n \in DOMAIN <<>> : <<>>[n].id = None
      OBVIOUS
  <2> QED
      BY <1>6, <1>7, <2>1, <2>2, <2>3, Zenon DEF LogFails, LogCloses, Expires
<1>8. ASSUME NEW c \in Conns, HangUp(c) PROVE ConnInv'
  <2> DEFINE r == [conn[c] EXCEPT !.phase = "gone"]
  <2>1. conn' = [conn EXCEPT ![c] = r] /\ gauge' = IF conn[c].phase = "open" THEN gauge - 1 ELSE gauge
      BY <1>8, Zenon DEF HangUp
  <2>2. conn[c].phase # "closed" /\ Begun(conn[c]) /\ "gone" # "open"
      BY <1>8 DEF HangUp, Begun
  <2>3. ConnOK(r) /\ Tells(r) /\ r.phase = "gone"
      BY <1>0, <2>2, PhaseMoves, Zenon
  <2> HIDE DEF r
  <2> QED
      BY <2>1, <2>2, <2>3, OneMoves, Zenon
<1> QED
    BY <1>1, <1>2, <1>3, <1>4, <1>5, <1>7, <1>8, Zenon DEF FeedNext

\* The connections' invariant: what each has sent is what its query and its grant
\* select so far, and the gauge counts those that are open (events.rs frames and
\* SubscriberGuard).
THEOREM ConnectionsInvariant == FeedSpec => []ConnInv
BY ConnInvInit, ConnInvStep, PTL DEF FeedSpec

\* events.rs:184-186 and 315-316 for every number of connections: a subscriber is
\* counted exactly while its stream is held, however the stream ends.
THEOREM SubscribersAreCounted == FeedSpec => []GaugeCountsStreams
<1>1. ConnInv => GaugeCountsStreams
    BY Zenon DEF ConnInv, GaugeCountsStreams, Held
<1> QED
    BY <1>1, ConnectionsInvariant, PTL

\* What one logged event's frame shows of it.
LEMMA FrameShows ==
    ASSUME NEW r, r.query \in Queries, ParseFilter(r.query) # None, NEW id \in DOMAIN Log, Shows(r, Log[id]),
           NEW x, x = FrameOf(r, id)
    PROVE  /\ x.event.etag = EtagOf(Log[id])
           /\ x.event.summary # None => r.caller.whole
           /\ r.query.mime # None /\ Essence(r.query.mime) # NoType => x.event.kind # "deleted"
<1> DEFINE e == Log[id]
<1>1. /\ e = Event(e.key, e.source, e.kind, e.etag, e.mime, e.summary)
      /\ e.kind = "deleted" => e.etag = None
    BY LogAssumption, Zenon
<1>2. /\ WithholdSummary(e).etag = e.etag /\ WithholdSummary(e).kind = e.kind
      /\ WithholdSummary(e).summary = None
    BY <1>1 DEF WithholdSummary, Event
<1>3. x.event = IF r.caller.whole THEN e ELSE WithholdSummary(e)
    BY DEF FrameOf, FrameFor
<1>4. x.event.etag = e.etag /\ x.event.kind = e.kind /\ (x.event.summary # None => r.caller.whole)
    BY <1>2, <1>3, Zenon
<1>5. ASSUME r.query.mime # None, Essence(r.query.mime) # NoType PROVE e.kind # "deleted"
  <2>1. Essence(r.query.mime) # None
      BY <1>5, QueriesAssumption, Zenon
  <2>2. ParseFilter(r.query).mime = Essence(r.query.mime)
      BY <1>5 DEF ParseFilter
  <2> QED
      BY <2>1, <2>2 DEF Shows, FilterMatches, MimeOf
<1>6. e.etag = EtagOf(e)
    BY <1>1, Zenon DEF EtagOf
<1> QED
    BY <1>4, <1>5, <1>6, Zenon

\* A stream tells the query (events.rs subscribe_events and frames) for every log,
\* query, grant and number of connections: its frames with an id are the log from
\* where the client asked, in order, without what it may not see or did not ask for.
THEOREM ConnectionsTellTheQuery == FeedSpec => []StreamsTellTheQuery
<1>1. ConnInv => StreamsTellTheQuery
  <2> SUFFICES ASSUME ConnInv, NEW c \in Conns,
                      conn[c].phase \in {"open", "closed", "gone"}, conn[c].caller # None
               PROVE  LET frames == conn[c].frames
                          told == {n \in DOMAIN frames : frames[n].id # None}
                          owed == {id \in ParseLastEventId(conn[c].query.last) + 1..conn[c].at : Shows(conn[c], Log[id])}
                      IN  /\ {frames[n].id : n \in told} = owed
                          /\ \A m, n \in told : m < n => frames[m].id < frames[n].id
                          /\ \A n \in DOMAIN frames \ told : n = Len(frames) /\ conn[c].phase = "closed"
                          /\ \A n \in told : /\ frames[n].event.etag = EtagOf(Log[frames[n].id])
                                             /\ frames[n].event.summary # None => conn[c].caller.whole
                                             /\ conn[c].query.mime # None /\ Essence(conn[c].query.mime) # NoType
                                                  => frames[n].event.kind # "deleted"
      BY Zenon DEF StreamsTellTheQuery
  <2> DEFINE r == conn[c]
  <2> DEFINE frames == r.frames
  <2> DEFINE first == ParseLastEventId(r.query.last)
  <2> DEFINE told == {n \in DOMAIN frames : frames[n].id # None}
  <2> DEFINE owed == {id \in (first + 1) .. r.at : Shows(r, Log[id])}
  <2>1. Begun(r)
      BY Zenon DEF Begun
  <2>2. r.query \in Queries /\ ParseFilter(r.query) # None /\ TellsUpTo(r, first, r.at, frames, r.phase)
      BY <2>1, Zenon DEF ConnInv, ConnOK, Tells
  <2> HIDE DEF r
  <2>3. {frames[n].id : n \in told} = owed
    <3>1. ASSUME NEW n \in told PROVE frames[n].id \in owed
        BY <2>2, Zenon DEF TellsUpTo
    <3>2. ASSUME NEW id \in owed PROVE \E n \in told : frames[n].id = id
      <4>1. id # None
          BY NoneIsNoId, <2>2, <2>1 DEF ConnInv, ConnOK, r
      <4>2. PICK n \in DOMAIN frames : frames[n].id = id
          BY <2>2, Zenon DEF TellsUpTo
      <4> QED
          BY <4>1, <4>2, Zenon
    <3> QED
        BY <3>1, <3>2
  <2>4. \A m, n \in told : m < n => frames[m].id < frames[n].id
      BY <2>2, Zenon DEF TellsUpTo
  <2>5. \A n \in DOMAIN frames \ told : n = Len(frames) /\ r.phase = "closed"
      BY <2>2, Zenon DEF TellsUpTo
  <2>6. ASSUME NEW n \in told
        PROVE  /\ frames[n].event.etag = EtagOf(Log[frames[n].id])
               /\ frames[n].event.summary # None => r.caller.whole
               /\ r.query.mime # None /\ Essence(r.query.mime) # NoType => frames[n].event.kind # "deleted"
    <3>1. /\ frames[n].id \in DOMAIN Log /\ Shows(r, Log[frames[n].id])
          /\ frames[n] = FrameOf(r, frames[n].id)
        BY <2>2, Zenon DEF TellsUpTo
    <3> QED
        BY <2>2, <3>1, FrameShows, Zenon
  <2> QED
      BY <2>3, <2>4, <2>5, <2>6, Zenon DEF r
<1> QED
    BY <1>1, ConnectionsInvariant, PTL
=============================================================================
