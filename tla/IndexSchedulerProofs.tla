------------------------ MODULE IndexSchedulerProofs ------------------------
(***************************************************************************)
(* Proofs about IndexScheduler, for every set of keys and producers, every  *)
(* capacity and every concurrency.                                          *)
(***************************************************************************)
EXTENDS IndexScheduler, TLAPS, FiniteSetTheorems, SequenceTheorems

-----------------------------------------------------------------------------
(* Sequences.                                                              *)

\* Pushing at the back of a queue adds one element to it.
LEMMA ElementsAppend ==
    ASSUME NEW S, NEW s \in Seq(S), NEW e \in S
    PROVE  /\ Append(s, e) \in Seq(S)
           /\ Append(s, e) # <<>>
           /\ Len(Append(s, e)) = Len(s) + 1
           /\ DOMAIN Append(s, e) = 1 .. Len(s) + 1
           /\ \A i \in 1 .. Len(s) : Append(s, e)[i] = s[i]
           /\ Append(s, e)[Len(s) + 1] = e
           /\ Elements(Append(s, e)) = Elements(s) \cup {e}
<1>1. /\ Append(s, e) \in Seq(S)
      /\ Len(Append(s, e)) = Len(s) + 1
      /\ \A i \in 1 .. Len(s) : Append(s, e)[i] = s[i]
      /\ Append(s, e)[Len(s) + 1] = e
    BY AppendProperties
<1>2. DOMAIN s = 1 .. Len(s) /\ Len(s) \in Nat
    BY LenProperties, Zenon
<1>3. DOMAIN Append(s, e) = 1 .. Len(s) + 1
    BY <1>1, LenProperties, Zenon
<1>4. Elements(Append(s, e)) = Elements(s) \cup {e}
    BY <1>1, <1>2, <1>3 DEF Elements
<1>5. Append(s, e) # <<>>
    BY <1>1, <1>2, EmptySeq
<1> QED
    BY <1>1, <1>3, <1>4, <1>5, Zenon

\* Popping at the front of a queue removes its head and shifts the rest.
LEMMA ElementsTail ==
    ASSUME NEW S, NEW s \in Seq(S), s # <<>>
    PROVE  /\ Head(s) \in S
           /\ Head(s) = s[1]
           /\ 1 \in DOMAIN s
           /\ Tail(s) \in Seq(S)
           /\ Len(s) \in Nat \ {0}
           /\ Len(Tail(s)) = Len(s) - 1
           /\ DOMAIN Tail(s) = 1 .. Len(s) - 1
           /\ \A i \in 1 .. Len(s) - 1 : Tail(s)[i] = s[i + 1]
           /\ Elements(s) = {Head(s)} \cup Elements(Tail(s))
<1>1. /\ Tail(s) \in Seq(S)
      /\ Len(Tail(s)) = Len(s) - 1
      /\ \A i \in 1 .. Len(Tail(s)) : Tail(s)[i] = s[i + 1]
      /\ Head(s) \in S
    BY HeadTailProperties, Zenon
<1>2. DOMAIN s = 1 .. Len(s) /\ Len(s) \in Nat \ {0} /\ Head(s) = s[1]
    BY LenProperties, EmptySeq
<1>3. DOMAIN Tail(s) = 1 .. Len(s) - 1
    BY <1>1, LenProperties, Zenon
<1>4. Elements(s) = {Head(s)} \cup Elements(Tail(s))
  <2>1. ASSUME NEW i \in 1 .. Len(s) PROVE s[i] \in {Head(s)} \cup Elements(Tail(s))
    <3>1. CASE i = 1
        BY <3>1, <1>2, Zenon
    <3>2. CASE i # 1
      <4>1. i - 1 \in DOMAIN Tail(s) /\ Tail(s)[i - 1] = s[i]
          BY <3>2, <1>1, <1>2, <1>3
      <4> QED
          BY <4>1, Zenon DEF Elements
    <3> QED
        BY <3>1, <3>2, Zenon
  <2>2. ASSUME NEW i \in DOMAIN Tail(s) PROVE Tail(s)[i] \in Elements(s)
      BY <1>1, <1>2, <1>3 DEF Elements
  <2>3. Head(s) \in Elements(s)
      BY <1>2 DEF Elements
  <2> QED
      BY <2>1, <2>2, <2>3, <1>2, Zenon DEF Elements
<1> QED
    BY <1>1, <1>2, <1>3, <1>4

-----------------------------------------------------------------------------
(* The scheduler's invariant: the properties of ready, lanes and handlers   *)
(* need each other, and need that a lane holds only events of its key.      *)

OwnLane == \A k \in DOMAIN waiting : \A i \in DOMAIN waiting[k] : waiting[k][i].key = k

LaneInv == TypeOK /\ OwnLane /\ ReadyExactly /\ OneHandlerPerKey

\* Lanes::accept keeps ready, active and the lanes in step.
LEMMA AcceptKeepsLanes ==
    ASSUME LaneInv, NEW e \in Events, Accept(e)
    PROVE  /\ DOMAIN waiting' = (DOMAIN waiting) \cup {e.key}
           /\ DOMAIN waiting' \subseteq Keys
           /\ waiting' \in [DOMAIN waiting' -> Seq(Events)]
           /\ ready' \in Seq(Keys)
           /\ waiting'[e.key] = Append(LaneOf(e.key), e)
           /\ \A k \in DOMAIN waiting : k # e.key => waiting'[k] = waiting[k]
           /\ OwnLane'
           /\ ReadyExactly'
           /\ OneHandlerPerKey'
<1> DEFINE k == e.key
           lane == Append(LaneOf(k), e)
<1>1. k \in Keys
    BY Zenon DEF Events
<1>2. LaneOf(k) \in Seq(Events) /\ \A i \in DOMAIN LaneOf(k) : LaneOf(k)[i].key = k
    BY DEF LaneInv, TypeOK, OwnLane, LaneOf
<1>3. /\ lane \in Seq(Events)
      /\ lane # <<>>
      /\ Len(lane) = Len(LaneOf(k)) + 1
      /\ DOMAIN lane = 1 .. Len(LaneOf(k)) + 1
      /\ \A i \in 1 .. Len(LaneOf(k)) : lane[i] = LaneOf(k)[i]
      /\ lane[Len(LaneOf(k)) + 1] = e
    BY <1>2, ElementsAppend
<1>4. DOMAIN LaneOf(k) = 1 .. Len(LaneOf(k)) /\ Len(LaneOf(k)) \in Nat
    BY <1>2, LenProperties, Zenon
<1>5. /\ DOMAIN waiting' = (DOMAIN waiting) \cup {k}
      /\ waiting'[k] = lane
      /\ \A j \in DOMAIN waiting : j # k => waiting'[j] = waiting[j]
      /\ waiting' = [j \in (DOMAIN waiting) \cup {k} |-> IF j = k THEN lane ELSE waiting[j]]
    BY Zenon DEF Accept, WithLane
<1>6. /\ DOMAIN waiting' \subseteq Keys
      /\ waiting' \in [DOMAIN waiting' -> Seq(Events)]
    BY <1>1, <1>3, <1>5, Zenon DEF LaneInv, TypeOK
<1>7. OwnLane'
  <2>1. \A i \in DOMAIN lane : lane[i].key = k
      BY <1>2, <1>3, <1>4
  <2> QED
      BY <2>1, <1>5, Zenon DEF OwnLane, LaneInv
<1>8. Len(lane) = 1 <=> k \notin DOMAIN waiting
  <2>1. k \in DOMAIN waiting => Len(LaneOf(k)) # 0
      BY <1>2, <1>4, EmptySeq, Zenon DEF LaneInv, ReadyExactly, LaneOf
  <2>2. k \notin DOMAIN waiting => Len(LaneOf(k)) = 0
      BY EmptySeq, Zenon DEF LaneOf
  <2> QED
      BY <2>1, <2>2, <1>3, <1>4
<1>9. ready \in Seq(Keys) /\ active' = active /\ running' = running
    BY Zenon DEF Accept, LaneInv, TypeOK
<1>10. ready' \in Seq(Keys) /\ ReadyExactly'
  <2>1. CASE k \notin DOMAIN waiting /\ k \notin active
    <3>1. ready' = Append(ready, k)
        BY <1>8, <2>1, Zenon DEF Accept
    <3>2. /\ ready' \in Seq(Keys)
          /\ DOMAIN ready' = 1 .. Len(ready) + 1
          /\ \A i \in 1 .. Len(ready) : ready'[i] = ready[i]
          /\ ready'[Len(ready) + 1] = k
          /\ Elements(ready') = Elements(ready) \cup {k}
        BY <1>1, <1>9, <3>1, ElementsAppend
    <3>3. k \notin Elements(ready)
        BY <2>1, Zenon DEF LaneInv, ReadyExactly
    <3>4. \A i \in 1 .. Len(ready) : ready[i] # k
        BY <3>3, <1>9, LenProperties, Zenon DEF Elements
    <3>5. \A i, j \in DOMAIN ready' : ready'[i] = ready'[j] => i = j
        BY <3>2, <3>4, <1>9, LenProperties DEF LaneInv, ReadyExactly
    <3>6. Elements(ready') = (DOMAIN waiting') \ active'
        BY <2>1, <3>2, <1>5, <1>9, Zenon DEF LaneInv, ReadyExactly
    <3>7. \A j \in DOMAIN waiting' : waiting'[j] # <<>>
        BY <1>3, <1>5, Zenon DEF LaneInv, ReadyExactly
    <3> QED
        BY <3>2, <3>5, <3>6, <3>7, Zenon DEF ReadyExactly, Elements
  <2>2. CASE ~(k \notin DOMAIN waiting /\ k \notin active)
    <3>1. ready' = ready
        BY <1>8, <2>2, Zenon DEF Accept
    <3>2. \A j \in DOMAIN waiting' : waiting'[j] # <<>>
        BY <1>3, <1>5, Zenon DEF LaneInv, ReadyExactly
    <3>3. (DOMAIN waiting') \ active' = (DOMAIN waiting) \ active
        BY <2>2, <1>5, <1>9, Zenon
    <3> QED
        BY <3>1, <3>2, <3>3, <1>9, Zenon DEF LaneInv, ReadyExactly, Elements
  <2> QED
      BY <2>1, <2>2, Zenon
<1>11. OneHandlerPerKey'
    BY <1>9, Zenon DEF LaneInv, OneHandlerPerKey
<1> QED
    BY <1>5, <1>6, <1>7, <1>10, <1>11, Zenon
\* What start_next takes: the head of a lane whose key has no handler.
LEMMA StartNextTakes ==
    ASSUME LaneInv, StartNext
    PROVE  /\ Head(ready) \in DOMAIN waiting
           /\ Head(ready) \in Keys
           /\ Head(ready) \notin active
           /\ waiting[Head(ready)] \in Seq(Events)
           /\ waiting[Head(ready)] # <<>>
           /\ Head(waiting[Head(ready)]) \in Events
           /\ Head(waiting[Head(ready)]).key = Head(ready)
<1>1. ready \in Seq(Keys) /\ ready # <<>>
    BY Zenon DEF StartNext, CanStart, LaneInv, TypeOK
<1>2. Head(ready) \in Keys /\ Head(ready) \in Elements(ready)
    BY <1>1, ElementsTail, Zenon
<1>3. Head(ready) \in DOMAIN waiting /\ Head(ready) \notin active
    BY <1>2, Zenon DEF LaneInv, ReadyExactly
<1>4. waiting[Head(ready)] \in Seq(Events) /\ waiting[Head(ready)] # <<>>
    BY <1>3, Zenon DEF LaneInv, TypeOK, ReadyExactly
<1>5. /\ Head(waiting[Head(ready)]) \in Events
      /\ Head(waiting[Head(ready)]) = waiting[Head(ready)][1]
      /\ 1 \in DOMAIN waiting[Head(ready)]
    BY <1>4, ElementsTail, Zenon
<1>6. Head(waiting[Head(ready)]).key = Head(ready)
    BY <1>3, <1>5, Zenon DEF LaneInv, OwnLane
<1> QED
    BY <1>2, <1>3, <1>4, <1>5, <1>6, Zenon

\* Lanes::start_next keeps ready, active and the lanes in step.
LEMMA StartNextKeepsLanes ==
    ASSUME LaneInv, StartNext
    PROVE  LaneInv'
<1> DEFINE k == Head(ready)
           lane == waiting[k]
           e == Head(lane)
<1> HIDE DEF k, lane, e
<1>1. /\ k \in DOMAIN waiting
      /\ k \in Keys
      /\ k \notin active
      /\ lane \in Seq(Events)
      /\ lane # <<>>
      /\ e \in Events
      /\ e.key = k
    BY StartNextTakes, Zenon DEF k, lane, e
<1>2. /\ ready' = Tail(ready)
      /\ waiting' = IF Tail(lane) = <<>> THEN WithoutLane(k) ELSE WithLane(k, Tail(lane))
      /\ active' = active \cup {k}
      /\ running' = running \cup {e}
      /\ started' = [started EXCEPT ![k] = e.n]
      /\ UNCHANGED <<queueVars, workerVars, sent, handled, sentAtShutdown>>
    BY Zenon DEF StartNext, k, lane, e
<1>3. ready \in Seq(Keys) /\ ready # <<>>
    BY Zenon DEF StartNext, CanStart, LaneInv, TypeOK
<1>4. /\ Tail(ready) \in Seq(Keys)
      /\ DOMAIN ready = 1 .. Len(ready)
      /\ Len(ready) \in Nat \ {0}
      /\ DOMAIN Tail(ready) = 1 .. Len(ready) - 1
      /\ \A i \in 1 .. Len(ready) - 1 : Tail(ready)[i] = ready[i + 1]
      /\ Elements(ready) = {k} \cup Elements(Tail(ready))
      /\ ready[1] = k
    BY <1>3, ElementsTail, LenProperties, Zenon DEF k
<1>5. k \notin Elements(Tail(ready))
    BY <1>4 DEF LaneInv, ReadyExactly, Elements
<1>6. /\ Tail(lane) \in Seq(Events)
      /\ DOMAIN lane = 1 .. Len(lane)
      /\ Len(lane) \in Nat \ {0}
      /\ DOMAIN Tail(lane) = 1 .. Len(lane) - 1
      /\ \A i \in 1 .. Len(lane) - 1 : Tail(lane)[i] = lane[i + 1]
    BY <1>1, ElementsTail, LenProperties, Zenon
<1>7. \A i \in DOMAIN Tail(lane) : Tail(lane)[i].key = k
    BY <1>1, <1>6 DEF LaneInv, OwnLane, lane
<1>8. /\ (DOMAIN waiting') \ {k} = (DOMAIN waiting) \ {k}
      /\ \A j \in (DOMAIN waiting) \ {k} : waiting'[j] = waiting[j]
      /\ k \in DOMAIN waiting' => waiting'[k] = Tail(lane) /\ Tail(lane) # <<>>
      /\ DOMAIN waiting' \subseteq Keys
      /\ waiting' \in [DOMAIN waiting' -> Seq(Events)]
    BY <1>1, <1>2, <1>6, Zenon DEF WithLane, WithoutLane, LaneInv, TypeOK
<1>9. OwnLane'
    BY <1>7, <1>8, Zenon DEF LaneInv, OwnLane
<1>10. ReadyExactly'
  <2>1. \A j \in DOMAIN waiting' : waiting'[j] # <<>>
      BY <1>8, Zenon DEF LaneInv, ReadyExactly
  <2>2. Elements(ready') = (DOMAIN waiting') \ active'
    <3>1. Elements(Tail(ready)) = ((DOMAIN waiting) \ active) \ {k}
        BY <1>4, <1>5, Zenon DEF LaneInv, ReadyExactly
    <3> QED
        BY <3>1, <1>2, <1>8, Zenon
  <2>3. \A i, j \in DOMAIN ready' : ready'[i] = ready'[j] => i = j
    <3>1. ASSUME NEW i \in DOMAIN Tail(ready), NEW j \in DOMAIN Tail(ready),
                 Tail(ready)[i] = Tail(ready)[j]
          PROVE  i = j
      <4>1. i + 1 \in DOMAIN ready /\ j + 1 \in DOMAIN ready /\ i \in Nat /\ j \in Nat
          BY <1>4
      <4>2. ready[i + 1] = ready[j + 1]
          BY <3>1, <1>4, Zenon
      <4>3. i + 1 = j + 1
          BY <4>1, <4>2, Zenon DEF LaneInv, ReadyExactly
      <4> QED
          BY <4>1, <4>3
    <3> QED
        BY <3>1, <1>2, Zenon
  <2> QED
      BY <2>1, <2>2, <2>3, Zenon DEF ReadyExactly, Elements
<1>11. OneHandlerPerKey'
  <2>1. \A d \in running : d.key # k
      BY <1>1, Zenon DEF LaneInv, OneHandlerPerKey
  <2>2. \A d, f \in running' : d.key = f.key => d = f
      BY <2>1, <1>1, <1>2, Zenon DEF LaneInv, OneHandlerPerKey
  <2>3. active' = {d.key : d \in running'}
      BY <1>1, <1>2, Zenon DEF LaneInv, OneHandlerPerKey
  <2> QED
      BY <2>2, <2>3, Zenon DEF OneHandlerPerKey
<1>12. TypeOK'
  <2>1. e.n \in Nat
      BY <1>1, Zenon DEF Events
  <2>2. started' \in [Keys -> Nat]
      BY <2>1, <1>1, <1>2, Zenon DEF LaneInv, TypeOK
  <2> QED
      BY <2>2, <1>1, <1>2, <1>4, <1>8 DEF LaneInv, TypeOK, queueVars, workerVars
<1> QED
    BY <1>9, <1>10, <1>11, <1>12, Zenon DEF LaneInv

\* Lanes::finish keeps ready, active and the lanes in step.
LEMMA FinishKeepsLanes ==
    ASSUME LaneInv, NEW e \in running, Finish(e)
    PROVE  LaneInv'
<1>1. /\ e \in Events
      /\ e.key \in Keys
      /\ e.n \in Nat
      /\ e.key \in active
    BY Zenon DEF LaneInv, TypeOK, Events, OneHandlerPerKey
<1>2. ready \in Seq(Keys) /\ DOMAIN ready = 1 .. Len(ready) /\ Len(ready) \in Nat
    BY LenProperties, Zenon DEF LaneInv, TypeOK
<1>3. e.key \notin Elements(ready)
    BY <1>1, Zenon DEF LaneInv, ReadyExactly
<1>4. OwnLane'
    BY Zenon DEF Finish, LaneInv, OwnLane
<1>5. OneHandlerPerKey'
  <2>1. \A d \in running : d.key = e.key => d = e
      BY Zenon DEF LaneInv, OneHandlerPerKey
  <2> QED
      BY <2>1, Zenon DEF Finish, LaneInv, OneHandlerPerKey
<1>6. ready' \in Seq(Keys) /\ ReadyExactly'
  <2>1. CASE e.key \in DOMAIN waiting
    <3>1. /\ ready' = Append(ready, e.key)
          /\ waiting' = waiting
          /\ active' = active \ {e.key}
        BY <2>1, Zenon DEF Finish
    <3>2. /\ ready' \in Seq(Keys)
          /\ DOMAIN ready' = 1 .. Len(ready) + 1
          /\ \A i \in 1 .. Len(ready) : ready'[i] = ready[i]
          /\ ready'[Len(ready) + 1] = e.key
          /\ Elements(ready') = Elements(ready) \cup {e.key}
        BY <1>1, <1>2, <3>1, ElementsAppend
    <3>3. \A i \in 1 .. Len(ready) : ready[i] # e.key
        BY <1>2, <1>3, Zenon DEF Elements
    <3>4. \A i, j \in DOMAIN ready' : ready'[i] = ready'[j] => i = j
        BY <3>2, <3>3, <1>2 DEF LaneInv, ReadyExactly
    <3>5. Elements(ready') = (DOMAIN waiting') \ active'
        BY <2>1, <3>1, <3>2, <1>1, Zenon DEF LaneInv, ReadyExactly
    <3> QED
        BY <3>1, <3>2, <3>4, <3>5, Zenon DEF LaneInv, ReadyExactly, Elements
  <2>2. CASE e.key \notin DOMAIN waiting
    <3>1. ready' = ready /\ waiting' = waiting /\ active' = active \ {e.key}
        BY <2>2, Zenon DEF Finish
    <3>2. (DOMAIN waiting') \ active' = (DOMAIN waiting) \ active
        BY <2>2, <3>1, Zenon
    <3> QED
        BY <3>1, <3>2, <1>2 DEF LaneInv, ReadyExactly, Elements
  <2> QED
      BY <2>1, <2>2, Zenon
<1>7. TypeOK'
    BY <1>1, <1>6, Zenon DEF Finish, LaneInv, TypeOK, workerVars
<1> QED
    BY <1>4, <1>5, <1>6, <1>7, Zenon DEF LaneInv
-----------------------------------------------------------------------------
(* The producers: who waits is queued on the semaphore, once.               *)

WaitersExactly ==
    /\ Elements(waiters) = {p \in Producers : producer[p].state = "waiting"}
    /\ \A i, j \in DOMAIN waiters : waiters[i] = waiters[j] => i = j

\* Dropping the i-th element of a sequence without duplicates.
LEMMA WithoutProperties ==
    ASSUME NEW S, NEW s \in Seq(S), NEW i \in DOMAIN s,
           \A a, b \in DOMAIN s : s[a] = s[b] => a = b
    PROVE  /\ Without(s, i) \in Seq(S)
           /\ Elements(Without(s, i)) = Elements(s) \ {s[i]}
           /\ \A a, b \in DOMAIN Without(s, i) :
                Without(s, i)[a] = Without(s, i)[b] => a = b
<1> DEFINE t == Without(s, i)
           l == SubSeq(s, 1, i - 1)
           r == SubSeq(s, i + 1, Len(s))
<1>1. DOMAIN s = 1 .. Len(s) /\ Len(s) \in Nat /\ i \in 1 .. Len(s)
    BY LenProperties, Zenon
<1>2. /\ l \in Seq(S)
      /\ Len(l) = i - 1
      /\ \A j \in 1 .. i - 1 : l[j] = s[j]
    BY <1>1, SubSeqProperties
<1>3. /\ r \in Seq(S)
      /\ Len(r) = Len(s) - i
      /\ \A j \in 1 .. Len(s) - i : r[j] = s[i + j]
  <2>1. \A j \in 1 .. Len(s) - i : (i + 1) + j - 1 = i + j
      BY <1>1
  <2> QED
      BY <2>1, <1>1, SubSeqProperties
<1> HIDE DEF l, r, t
<1>4. /\ t \in Seq(S)
      /\ Len(t) = Len(s) - 1
      /\ \A j \in 1 .. Len(s) - 1 : t[j] = IF j <= i - 1 THEN l[j] ELSE r[j - (i - 1)]
  <2>1. t = l \o r
      BY Zenon DEF l, r, t, Without
  <2>2. Len(l) + Len(r) = Len(s) - 1
      BY <1>1, <1>2, <1>3
  <2>3. /\ l \o r \in Seq(S)
        /\ Len(l \o r) = Len(l) + Len(r)
        /\ \A j \in 1 .. Len(l) + Len(r) : (l \o r)[j] = IF j <= Len(l) THEN l[j] ELSE r[j - Len(l)]
    <3>1. l \in Seq(S) /\ r \in Seq(S)
        BY <1>2, <1>3, Zenon
    <3> QED
        BY <3>1, ConcatProperties, Zenon
  <2> QED
      BY <2>1, <2>2, <2>3, <1>2, Zenon
<1>5. \A j \in 1 .. Len(s) - 1 : t[j] = IF j < i THEN s[j] ELSE s[j + 1]
  <2>1. SUFFICES ASSUME NEW j \in 1 .. Len(s) - 1
                 PROVE  t[j] = IF j < i THEN s[j] ELSE s[j + 1]
      BY Zenon
  <2>2. CASE j < i
    <3>1. j <= i - 1 /\ j \in 1 .. i - 1
        BY <2>2, <1>1
    <3> QED
        BY <3>1, <2>2, <1>2, <1>4, Zenon
  <2>3. CASE ~(j < i)
    <3>1. ~(j <= i - 1) /\ j - (i - 1) \in 1 .. Len(s) - i /\ i + (j - (i - 1)) = j + 1
        BY <2>3, <1>1
    <3> QED
        BY <3>1, <2>3, <1>3, <1>4, Zenon
  <2> QED
      BY <2>2, <2>3, Zenon
<1>6. DOMAIN t = 1 .. Len(s) - 1
    BY <1>4, LenProperties, Zenon
<1>7. Elements(t) = Elements(s) \ {s[i]}
  <2>1. ASSUME NEW j \in DOMAIN t PROVE t[j] \in Elements(s) \ {s[i]}
      BY <1>1, <1>5, <1>6 DEF Elements
  <2>2. ASSUME NEW j \in DOMAIN s, s[j] # s[i] PROVE s[j] \in Elements(t)
    <3>1. CASE j < i
      <4>1. j \in DOMAIN t /\ t[j] = s[j]
          BY <3>1, <1>1, <1>5, <1>6
      <4> QED
          BY <4>1, Zenon DEF Elements
    <3>2. CASE j > i
      <4>1. j - 1 \in DOMAIN t /\ t[j - 1] = s[j]
          BY <3>2, <1>1, <1>5, <1>6
      <4> QED
          BY <4>1, Zenon DEF Elements
    <3> QED
        BY <2>2, <3>1, <3>2, <1>1
  <2> QED
      BY <2>1, <2>2, Zenon DEF Elements
<1>8. \A a, b \in DOMAIN t : t[a] = t[b] => a = b
  <2> DEFINE at(j) == IF j < i THEN j ELSE j + 1
  <2>1. \A j \in DOMAIN t : at(j) \in DOMAIN s /\ t[j] = s[at(j)]
      BY <1>1, <1>5, <1>6
  <2>2. \A a, b \in DOMAIN t : at(a) = at(b) => a = b
      BY <1>1, <1>6
  <2> HIDE DEF at
  <2> QED
      BY <2>1, <2>2, Zenon
<1> QED
    BY <1>4, <1>7, <1>8, Zenon DEF t

SchedInv == LaneInv /\ WaitersExactly

\* The semaphore's queue stays exact through a send's four steps.
LEMMA WaitersExactlyStep ==
    ASSUME SchedInv, Next
    PROVE  /\ WaitersExactly'
           /\ waiters' \in Seq(Producers)
           /\ producer' \in [Producers -> {[state |-> "idle"]}
                                  \cup [state : {"waiting", "granted"}, key : Keys]]
<1> DEFINE Types == /\ waiters' \in Seq(Producers)
                    /\ producer' \in [Producers -> {[state |-> "idle"]}
                                  \cup [state : {"waiting", "granted"}, key : Keys]]
<1>0. /\ waiters \in Seq(Producers)
      /\ DOMAIN waiters = 1 .. Len(waiters)
      /\ Len(waiters) \in Nat
      /\ producer \in [Producers -> {[state |-> "idle"]}
                                  \cup [state : {"waiting", "granted"}, key : Keys]]
    BY LenProperties, Zenon DEF SchedInv, LaneInv, TypeOK
<1>1. CASE UNCHANGED <<producer, waiters>>
    BY <1>0, <1>1 DEF SchedInv, WaitersExactly, Elements
<1>2. ASSUME NEW p \in Producers, NEW k \in Keys, SendBegin(p, k)
      PROVE  WaitersExactly' /\ Types
  <2>1. /\ producer[p].state = "idle"
        /\ producer' = [producer EXCEPT ![p] = [state |-> "waiting", key |-> k]]
        /\ waiters' = Append(waiters, p)
      BY <1>2, Zenon DEF SendBegin
  <2>2. p \notin Elements(waiters)
      BY <2>1, Zenon DEF SchedInv, WaitersExactly
  <2>3. \A i \in DOMAIN waiters : waiters[i] # p
      BY <2>2, Zenon DEF Elements
  <2>4. /\ waiters' \in Seq(Producers)
        /\ DOMAIN waiters' = 1 .. Len(waiters) + 1
        /\ \A i \in 1 .. Len(waiters) : waiters'[i] = waiters[i]
        /\ waiters'[Len(waiters) + 1] = p
        /\ Elements(waiters') = Elements(waiters) \cup {p}
      BY <2>1, <1>0, ElementsAppend
  <2>5. \A i, j \in DOMAIN waiters' : waiters'[i] = waiters'[j] => i = j
      BY <2>3, <2>4, <1>0 DEF SchedInv, WaitersExactly
  <2>6. Elements(waiters') = {q \in Producers : producer'[q].state = "waiting"}
      BY <2>1, <2>4, <1>0 DEF SchedInv, WaitersExactly
  <2> QED
      BY <2>1, <2>4, <2>5, <2>6, <1>0, Zenon DEF WaitersExactly, Elements
<1>3. ASSUME Grant PROVE WaitersExactly' /\ Types
  <2> DEFINE p == Head(waiters)
  <2>1. /\ waiters # <<>>
        /\ producer' = [producer EXCEPT ![p] = [state |-> "granted", key |-> @.key]]
        /\ waiters' = Tail(waiters)
      BY <1>3, Zenon DEF Grant
  <2>2. /\ p \in Producers
        /\ Len(waiters) # 0
        /\ waiters' \in Seq(Producers)
        /\ DOMAIN waiters' = 1 .. Len(waiters) - 1
        /\ \A i \in 1 .. Len(waiters) - 1 : waiters'[i] = waiters[i + 1]
        /\ Elements(waiters) = {p} \cup Elements(waiters')
        /\ waiters[1] = p
      BY <2>1, <1>0, ElementsTail, Zenon
  <2>3. p \notin Elements(waiters')
    <3>1. ASSUME NEW i \in DOMAIN waiters', waiters'[i] = p PROVE FALSE
      <4>1. i + 1 \in DOMAIN waiters /\ 1 \in DOMAIN waiters /\ i + 1 # 1
          BY <2>2, <1>0
      <4> QED
          BY <3>1, <4>1, <2>2, Zenon DEF SchedInv, WaitersExactly
    <3> QED
        BY <3>1, Zenon DEF Elements
  <2>4. producer[p].state = "waiting" /\ producer[p] \in [state : {"waiting", "granted"}, key : Keys]
      BY <2>2, <1>0 DEF SchedInv, WaitersExactly
  <2>5. Types
      BY <2>1, <2>2, <2>4, <1>0, Zenon
  <2>6. \A i, j \in DOMAIN waiters' : waiters'[i] = waiters'[j] => i = j
    <3>1. ASSUME NEW i \in DOMAIN waiters', NEW j \in DOMAIN waiters', waiters'[i] = waiters'[j]
          PROVE  i = j
      <4>1. i + 1 \in DOMAIN waiters /\ j + 1 \in DOMAIN waiters /\ i \in Nat /\ j \in Nat
          BY <2>2, <1>0
      <4>2. i + 1 = j + 1
          BY <3>1, <4>1, <2>2, Zenon DEF SchedInv, WaitersExactly
      <4> QED
          BY <4>1, <4>2
    <3> QED
        BY <3>1, Zenon
  <2>7. Elements(waiters') = {q \in Producers : producer'[q].state = "waiting"}
      BY <2>1, <2>2, <2>3, <2>4, <1>0, Zenon DEF SchedInv, WaitersExactly
  <2> QED
      BY <2>5, <2>6, <2>7, Zenon DEF WaitersExactly, Elements
<1>4. ASSUME NEW p \in Producers, SendFinish(p) PROVE WaitersExactly' /\ Types
  <2>1. /\ producer[p].state = "granted"
        /\ producer' = [producer EXCEPT ![p] = [state |-> "idle"]]
        /\ waiters' = waiters
      BY <1>4, Zenon DEF SendFinish
  <2>2. {q \in Producers : producer'[q].state = "waiting"}
        = {q \in Producers : producer[q].state = "waiting"}
      BY <2>1, <1>0, Zenon
  <2> QED
      BY <2>1, <2>2, <1>0 DEF SchedInv, WaitersExactly, Elements
<1>5. ASSUME NEW p \in Producers, SendCancel(p) PROVE WaitersExactly' /\ Types
  <2>1. producer' = [producer EXCEPT ![p] = [state |-> "idle"]]
      BY <1>5, Zenon DEF SendCancel
  <2>2. CASE producer[p].state = "waiting"
    <3>1. PICK i \in DOMAIN waiters :
            /\ waiters[i] = p
            /\ waiters' = Without(waiters, i)
        BY <1>5, <2>2, Zenon DEF SendCancel
    <3>2. /\ waiters' \in Seq(Producers)
          /\ Elements(waiters') = Elements(waiters) \ {p}
          /\ \A a, b \in DOMAIN waiters' : waiters'[a] = waiters'[b] => a = b
      <4>1. \A a, b \in DOMAIN waiters : waiters[a] = waiters[b] => a = b
          BY Zenon DEF SchedInv, WaitersExactly
      <4> QED
          BY <3>1, <4>1, <1>0, WithoutProperties
    <3>3. Elements(waiters') = {q \in Producers : producer'[q].state = "waiting"}
        BY <2>1, <3>2, <1>0, Zenon DEF SchedInv, WaitersExactly
    <3> QED
        BY <2>1, <3>2, <3>3, <1>0, Zenon DEF WaitersExactly, Elements
  <2>3. CASE producer[p].state # "waiting"
    <3>1. waiters' = waiters
        BY <1>5, <2>3, Zenon DEF SendCancel
    <3>2. {q \in Producers : producer'[q].state = "waiting"}
          = {q \in Producers : producer[q].state = "waiting"}
        BY <2>1, <2>3, <1>0, Zenon
    <3> QED
        BY <2>1, <3>1, <3>2, <1>0 DEF SchedInv, WaitersExactly, Elements
  <2> QED
      BY <2>2, <2>3, Zenon
<1>6. ASSUME NEW k \in Keys, TrySend(k) PROVE UNCHANGED <<producer, waiters>>
    BY <1>6, Zenon DEF TrySend
<1>7. ASSUME NEW e \in running, Finish(e) PROVE UNCHANGED <<producer, waiters>>
    BY <1>7, Zenon DEF Finish
<1>8. ASSUME \/ DropSenders \/ StartNext \/ Recv \/ RecvClosed \/ Shutdown \/ SeeShutdown
             \/ Collect \/ StopClean \/ DrainTimeout \/ Panic
      PROVE  UNCHANGED <<producer, waiters>>
    BY <1>8, Zenon DEF DropSenders, StartNext, Recv, RecvClosed, Shutdown, SeeShutdown, Collect,
                StopClean, DrainTimeout, Panic, Stop, queueVars
<1> QED
    BY <1>1, <1>2, <1>3, <1>4, <1>5, <1>6, <1>7, <1>8, Zenon DEF Next
\* tx.send appends one well-formed event.
LEMMA PushType ==
    ASSUME TypeOK, NEW k \in Keys, Push(k)
    PROVE  /\ [key |-> k, n |-> sent[k] + 1] \in Events
           /\ inFlight' \in SUBSET Events
           /\ chan' \in Seq(Events)
           /\ sent' \in [Keys -> Nat]
<1>1. sent[k] + 1 \in Nat
    BY DEF TypeOK
<1>2. [key |-> k, n |-> sent[k] + 1] \in Events
    BY <1>1, Zenon DEF Events
<1> QED
    BY <1>1, <1>2, ElementsAppend, Zenon DEF TypeOK, Push

\* The scheduler's invariant holds when the worker starts.
LEMMA SchedInvInit == Init => SchedInv
<1> SUFFICES ASSUME Init PROVE SchedInv
    BY Zenon
<1>1. \A S : <<>> \in Seq(S)
    BY EmptySeq, Zenon
<1>2. DOMAIN waiting = {} /\ waiting \in [DOMAIN waiting -> Seq(Events)]
    BY Zenon DEF Init, NoLanes
<1>3. TypeOK
    BY <1>1, <1>2, Zenon DEF Init, TypeOK
<1>4. ReadyExactly
    BY <1>2 DEF Init, ReadyExactly, Elements
<1> QED
    BY <1>2, <1>3, <1>4 DEF Init, SchedInv, LaneInv, OwnLane, OneHandlerPerKey,
                            WaitersExactly, Elements

\* Every step keeps the scheduler's invariant.
LEMMA SchedInvStep == SchedInv /\ [Next]_vars => SchedInv'
<1> SUFFICES ASSUME SchedInv, [Next]_vars PROVE SchedInv'
    BY Zenon
<1>1. CASE UNCHANGED vars
  <2>1. TypeOK'
      BY <1>1, Zenon DEF vars, queueVars, laneVars, workerVars, history, SchedInv, LaneInv, TypeOK
  <2>2. OwnLane' /\ ReadyExactly' /\ OneHandlerPerKey'
      BY <1>1 DEF vars, laneVars, SchedInv, LaneInv, OwnLane, ReadyExactly, OneHandlerPerKey,
                  Elements
  <2>3. WaitersExactly'
      BY <1>1, Zenon DEF vars, queueVars, SchedInv, WaitersExactly, Elements
  <2> QED
      BY <2>1, <2>2, <2>3, Zenon DEF SchedInv, LaneInv
<1>2. CASE Next
  <2> DEFINE Kept == OwnLane' /\ ReadyExactly' /\ OneHandlerPerKey'
  <2>0. /\ WaitersExactly'
        /\ waiters' \in Seq(Producers)
        /\ producer' \in [Producers -> {[state |-> "idle"]}
                               \cup [state : {"waiting", "granted"}, key : Keys]]
      BY <1>2, WaitersExactlyStep, Zenon
  <2> SUFFICES LaneInv'
      BY <2>0, Zenon DEF SchedInv
  <2>1. ASSUME UNCHANGED laneVars PROVE Kept
      BY <2>1 DEF laneVars, SchedInv, LaneInv, OwnLane, ReadyExactly, OneHandlerPerKey, Elements
  <2>2. ASSUME NEW k \in Keys, TrySend(k) PROVE LaneInv'
    <3>1. Kept
        BY <2>1, <2>2, Zenon DEF TrySend
    <3>2. inFlight' \in SUBSET Events /\ chan' \in Seq(Events) /\ sent' \in [Keys -> Nat]
        BY <2>2, PushType, Zenon DEF TrySend, SchedInv, LaneInv
    <3> QED
        BY <2>0, <2>2, <3>1, <3>2, Zenon DEF TrySend, SchedInv, LaneInv, TypeOK, laneVars, workerVars
  <2>3. ASSUME NEW p \in Producers, SendFinish(p) PROVE LaneInv'
    <3>1. Kept
        BY <2>1, <2>3, Zenon DEF SendFinish
    <3>2. producer[p].key \in Keys
        BY <2>3 DEF SendFinish, SchedInv, LaneInv, TypeOK
    <3>3. inFlight' \in SUBSET Events /\ chan' \in Seq(Events) /\ sent' \in [Keys -> Nat]
      <4>1. CASE rxOpen
        <5>1. Push(producer[p].key)
            BY <2>3, <4>1, Zenon DEF SendFinish
        <5> QED
            BY <3>2, <5>1, PushType, Zenon DEF SchedInv, LaneInv
      <4>2. CASE ~rxOpen
          BY <2>3, <4>2, Zenon DEF SendFinish, SchedInv, LaneInv, TypeOK
      <4> QED
          BY <4>1, <4>2, Zenon
    <3> QED
        BY <2>0, <2>3, <3>1, <3>3, Zenon DEF SendFinish, SchedInv, LaneInv, TypeOK, laneVars, workerVars
  <2>4. ASSUME \/ \E p \in Producers, k \in Keys : SendBegin(p, k)
               \/ Grant
               \/ \E p \in Producers : SendCancel(p)
               \/ DropSenders
        PROVE  LaneInv'
    <3>1. UNCHANGED <<inFlight, chan, rxOpen, laneVars, workerVars, history>>
        BY <2>4, Zenon DEF SendBegin, Grant, SendCancel, DropSenders
    <3>2. sendersGone' \in BOOLEAN
        BY <2>4, Zenon DEF SendBegin, Grant, SendCancel, DropSenders, SchedInv, LaneInv, TypeOK
    <3>3. Kept
        BY <2>1, <3>1, Zenon
    <3> QED
        BY <2>0, <3>1, <3>2, <3>3, Zenon DEF SchedInv, LaneInv, TypeOK, laneVars, workerVars, history
  <2>5. ASSUME StartNext PROVE LaneInv'
      BY <2>5, StartNextKeepsLanes, Zenon DEF SchedInv
  <2>6. ASSUME NEW e \in running, Finish(e) PROVE LaneInv'
      BY <2>6, FinishKeepsLanes, Zenon DEF SchedInv
  <2>7. ASSUME chan # <<>>, Accept(Head(chan)), chan' = Tail(chan) PROVE Kept
      BY <2>7, AcceptKeepsLanes, ElementsTail, Zenon DEF SchedInv, LaneInv, TypeOK
  <2>8. ASSUME chan # <<>>, Accept(Head(chan)), chan' = Tail(chan)
        PROVE  /\ DOMAIN waiting' \subseteq Keys
               /\ waiting' \in [DOMAIN waiting' -> Seq(Events)]
               /\ ready' \in Seq(Keys)
               /\ chan' \in Seq(Events)
               /\ UNCHANGED <<active, running>>
      BY <2>8, AcceptKeepsLanes, ElementsTail, Zenon DEF SchedInv, LaneInv, TypeOK, Accept
  <2>9. ASSUME Recv PROVE LaneInv'
      BY <2>0, <2>7, <2>8, <2>9, Zenon DEF Recv, SchedInv, LaneInv, TypeOK, workerVars, history
  <2>10. ASSUME Collect PROVE LaneInv'
    <3>1. CASE chan # <<>>
        BY <2>0, <2>7, <2>8, <2>10, <3>1, Zenon DEF Collect, SchedInv, LaneInv, TypeOK, history
    <3>2. CASE chan = <<>>
      <4>1. Kept
          BY <2>1, <2>10, <3>2, Zenon DEF Collect
      <4> QED
          BY <2>0, <2>10, <3>2, <4>1, Zenon DEF Collect, SchedInv, LaneInv, TypeOK, laneVars, history
    <3> QED
        BY <3>1, <3>2, Zenon
  <2>11. ASSUME RecvClosed \/ Shutdown \/ SeeShutdown PROVE LaneInv'
    <3>1. Kept
        BY <2>1, <2>11, Zenon DEF RecvClosed, Shutdown, SeeShutdown
    <3> QED
        BY <2>0, <2>11, <3>1, Zenon DEF RecvClosed, Shutdown, SeeShutdown, SchedInv, LaneInv, TypeOK,
                                 queueVars, laneVars, history
  <2>12. ASSUME NEW how \in {"clean", "timeout", "panic"}, Stop(how) PROVE LaneInv'
    <3>1. DOMAIN waiting' = {} /\ waiting' \in [DOMAIN waiting' -> Seq(Events)]
        BY <2>12, Zenon DEF Stop, NoLanes
    <3>2. \A S : <<>> \in Seq(S)
        BY EmptySeq, Zenon
    <3>3. TypeOK'
        BY <2>0, <2>12, <3>1, <3>2, Zenon DEF Stop, SchedInv, LaneInv, TypeOK, history
    <3>4. Kept
        BY <2>12, <3>1 DEF Stop, OwnLane, ReadyExactly, OneHandlerPerKey, Elements
    <3> QED
        BY <3>3, <3>4, Zenon DEF LaneInv
  <2> QED
      BY <1>2, <2>2, <2>3, <2>4, <2>5, <2>6, <2>9, <2>10, <2>11, <2>12, Zenon
         DEF Next, StopClean, DrainTimeout, Panic
<1> QED
    BY <1>1, <1>2, Zenon

\* The scheduler's invariant holds throughout.
THEOREM SchedInvariant == Spec => []SchedInv
    BY SchedInvInit, SchedInvStep, PTL DEF Spec

\* worker.rs 461: ready holds, once each, exactly the keys whose lane holds
\* events and that no handler works on, for any number of keys and handlers.
THEOREM ReadyIsExact == Spec => []ReadyExactly
<1>1. SchedInv => ReadyExactly
    BY Zenon DEF SchedInv, LaneInv
<1> QED
    BY <1>1, SchedInvariant, PTL

\* worker.rs 455: two handlers never run for one key.
THEOREM HandlersAreExclusive == Spec => []OneHandlerPerKey
<1>1. SchedInv => OneHandlerPerKey
    BY Zenon DEF SchedInv, LaneInv
<1> QED
    BY <1>1, SchedInvariant, PTL
-----------------------------------------------------------------------------
(* Bounds.                                                                 *)

BoundInv ==
    /\ IsFiniteSet(running)
    /\ IsFiniteSet(inFlight)
    /\ ConcurrencyBound
    /\ PendingBound

\* The bounds hold when the worker starts.
LEMMA BoundInvInit == Init => BoundInv
<1> SUFFICES ASSUME Init PROVE BoundInv
    BY Zenon
<1>1. Granted = {}
    BY Zenon DEF Init, Granted
<1>2. Cardinality({}) = 0 /\ IsFiniteSet({})
    BY FS_EmptySet, Zenon
<1>3. 0 <= Concurrency /\ 0 + 0 <= Capacity
    BY ConcurrencyAssumption, CapacityAssumption
<1> QED
    BY <1>1, <1>2, <1>3, Zenon DEF Init, BoundInv, ConcurrencyBound, PendingBound, PermitsOut

\* Nothing exceeds the concurrency limit or the permits: a permit is taken only
\* when one is free and moves from the granted sender to the event it sends.
LEMMA BoundInvStep ==
    ASSUME SchedInv, BoundInv, [Next]_vars
    PROVE  BoundInv'
<1>0. /\ IsFiniteSet(Granted)
      /\ Cardinality(Granted) \in Nat
      /\ Cardinality(inFlight) \in Nat
      /\ Cardinality(running) \in Nat
    BY ProducersAssumption, FS_Subset, FS_CardinalityType, Zenon DEF Granted, BoundInv
<1>1. ASSUME UNCHANGED <<running, inFlight, producer>> PROVE BoundInv'
    BY <1>1, Zenon DEF BoundInv, ConcurrencyBound, PendingBound, PermitsOut, Granted
<1>2. ASSUME NEW k \in Keys, Push(k)
      PROVE  /\ IsFiniteSet(inFlight')
             /\ Cardinality(inFlight') \in Nat
             /\ Cardinality(inFlight') <= Cardinality(inFlight) + 1
  <2> DEFINE e == [key |-> k, n |-> sent[k] + 1]
  <2>1. inFlight' = inFlight \cup {e}
      BY <1>2, Zenon DEF Push
  <2> HIDE DEF e
  <2>2. /\ IsFiniteSet(inFlight \cup {e})
        /\ Cardinality(inFlight \cup {e}) =
             IF e \in inFlight THEN Cardinality(inFlight) ELSE Cardinality(inFlight) + 1
      BY FS_AddElement, Zenon DEF BoundInv
  <2> QED
      BY <2>1, <2>2, <1>0
<1>3. ASSUME NEW p \in Granted, Granted' = Granted \ {p}
      PROVE  Cardinality(Granted') = Cardinality(Granted) - 1
    BY <1>0, <1>3, FS_RemoveElement, Zenon
<1>4. ASSUME NEW k \in Keys, TrySend(k) PROVE BoundInv'
  <2>1. Granted' = Granted /\ running' = running /\ Push(k) /\ PermitsOut < Capacity
      BY <1>4, Zenon DEF TrySend, Granted, laneVars
  <2>2. PermitsOut' <= Capacity
      BY <2>1, <1>0, <1>2, CapacityAssumption DEF PermitsOut
  <2> QED
      BY <2>1, <2>2, <1>2, Zenon DEF BoundInv, ConcurrencyBound, PendingBound
<1>5. ASSUME NEW p \in Producers, NEW k \in Keys, SendBegin(p, k) PROVE BoundInv'
  <2>1. /\ Granted' = Granted
        /\ inFlight' = inFlight
        /\ running' = running
      BY <1>5, Zenon DEF SendBegin, Granted, laneVars, SchedInv, LaneInv, TypeOK
  <2> QED
      BY <2>1, Zenon DEF BoundInv, ConcurrencyBound, PendingBound, PermitsOut
<1>6. ASSUME Grant PROVE BoundInv'
  <2> DEFINE p == Head(waiters)
  <2>1. /\ inFlight' = inFlight
        /\ running' = running
        /\ PermitsOut < Capacity
        /\ producer' = [producer EXCEPT ![p] = [state |-> "granted", key |-> @.key]]
      BY <1>6, Zenon DEF Grant, laneVars
  <2>2. p \in Producers
      BY <1>6, ElementsTail, Zenon DEF Grant, SchedInv, LaneInv, TypeOK
  <2> HIDE DEF p
  <2>3. Granted' = Granted \cup {p}
      BY <2>1, <2>2, Zenon DEF Granted, SchedInv, LaneInv, TypeOK
  <2>4. Cardinality(Granted') <= Cardinality(Granted) + 1 /\ Cardinality(Granted') \in Nat
    <3>1. Cardinality(Granted \cup {p}) =
            IF p \in Granted THEN Cardinality(Granted) ELSE Cardinality(Granted) + 1
        BY <1>0, FS_AddElement, Zenon
    <3> QED
        BY <2>3, <3>1, <1>0
  <2>5. PermitsOut' <= Capacity
      BY <2>1, <2>4, <1>0, CapacityAssumption DEF PermitsOut
  <2> QED
      BY <2>1, <2>5, Zenon DEF BoundInv, ConcurrencyBound, PendingBound
<1>7. ASSUME NEW p \in Producers, SendFinish(p) PROVE BoundInv'
  <2>1. running' = running
      BY <1>7, Zenon DEF SendFinish, laneVars
  <2>2. p \in Granted /\ Granted' = Granted \ {p}
      BY <1>7, Zenon DEF SendFinish, Granted, SchedInv, LaneInv, TypeOK
  <2>3. Cardinality(Granted') = Cardinality(Granted) - 1
      BY <2>2, <1>3, Zenon
  <2>4. /\ IsFiniteSet(inFlight')
        /\ Cardinality(inFlight') \in Nat
        /\ Cardinality(inFlight') <= Cardinality(inFlight) + 1
    <3>1. CASE rxOpen
      <4>1. Push(producer[p].key) /\ producer[p].key \in Keys
          BY <1>7, <3>1 DEF SendFinish, SchedInv, LaneInv, TypeOK
      <4> QED
          BY <4>1, <1>2, Zenon
    <3>2. CASE ~rxOpen
      <4>1. inFlight' = inFlight
          BY <1>7, <3>2, Zenon DEF SendFinish
      <4> QED
          BY <4>1, <1>0 DEF BoundInv
    <3> QED
        BY <3>1, <3>2, Zenon
  <2>5. PermitsOut' <= Capacity
      BY <2>3, <2>4, <1>0, CapacityAssumption DEF PermitsOut, BoundInv, PendingBound
  <2> QED
      BY <2>1, <2>4, <2>5, Zenon DEF BoundInv, ConcurrencyBound, PendingBound
<1>8. ASSUME NEW p \in Producers, SendCancel(p) PROVE BoundInv'
  <2>1. running' = running /\ inFlight' = inFlight
      BY <1>8, Zenon DEF SendCancel, laneVars
  <2>2. Granted' \subseteq Granted
      BY <1>8, Zenon DEF SendCancel, Granted, SchedInv, LaneInv, TypeOK
  <2>3. Cardinality(Granted') <= Cardinality(Granted) /\ Cardinality(Granted') \in Nat
      BY <2>2, <1>0, FS_Subset, FS_CardinalityType, Zenon
  <2>4. PermitsOut' <= Capacity
      BY <2>1, <2>3, <1>0, CapacityAssumption DEF PermitsOut, BoundInv, PendingBound
  <2> QED
      BY <2>1, <2>4, Zenon DEF BoundInv, ConcurrencyBound, PendingBound
<1>9. ASSUME StartNext PROVE BoundInv'
  <2> DEFINE e == Head(waiting[Head(ready)])
  <2>1. /\ Cardinality(running) < Concurrency
        /\ running' = running \cup {e}
        /\ UNCHANGED <<inFlight, producer>>
      BY <1>9, Zenon DEF StartNext, CanStart, queueVars
  <2> HIDE DEF e
  <2>2. IsFiniteSet(running') /\ Cardinality(running') <= Concurrency
    <3>1. /\ IsFiniteSet(running \cup {e})
          /\ Cardinality(running \cup {e}) =
               IF e \in running THEN Cardinality(running) ELSE Cardinality(running) + 1
        BY FS_AddElement, Zenon DEF BoundInv
    <3> QED
        BY <2>1, <3>1, <1>0, ConcurrencyAssumption
  <2> QED
      BY <2>1, <2>2, Zenon DEF BoundInv, ConcurrencyBound, PendingBound, PermitsOut, Granted
<1>10. ASSUME NEW e \in running, Finish(e) PROVE BoundInv'
  <2>1. /\ running' = running \ {e}
        /\ inFlight' = inFlight \ {e}
        /\ producer' = producer
      BY <1>10, Zenon DEF Finish
  <2>2. /\ IsFiniteSet(running')
        /\ Cardinality(running') <= Cardinality(running)
        /\ Cardinality(running') \in Nat
        /\ IsFiniteSet(inFlight')
        /\ Cardinality(inFlight') <= Cardinality(inFlight)
        /\ Cardinality(inFlight') \in Nat
      BY <2>1, FS_Subset, FS_CardinalityType, Zenon DEF BoundInv
  <2>3. Granted' = Granted
      BY <2>1, Zenon DEF Granted
  <2> QED
      BY <2>2, <2>3, <1>0, ConcurrencyAssumption, CapacityAssumption
         DEF BoundInv, ConcurrencyBound, PendingBound, PermitsOut
<1>11. ASSUME NEW how \in {"clean", "timeout", "panic"}, Stop(how) PROVE BoundInv'
  <2>1. running' = {} /\ inFlight' = {} /\ Granted' = Granted
      BY <1>11, Zenon DEF Stop, Granted
  <2>2. Cardinality({}) = 0 /\ IsFiniteSet({})
      BY FS_EmptySet, Zenon
  <2> QED
      BY <2>1, <2>2, <1>0, ConcurrencyAssumption, CapacityAssumption
         DEF BoundInv, ConcurrencyBound, PendingBound, PermitsOut
<1>12. ASSUME \/ DropSenders \/ Recv \/ RecvClosed \/ Shutdown \/ SeeShutdown \/ Collect
              \/ UNCHANGED vars
       PROVE  UNCHANGED <<running, inFlight, producer>>
    BY <1>12, Zenon DEF DropSenders, Recv, RecvClosed, Shutdown, SeeShutdown, Collect, Accept,
                 vars, queueVars, laneVars
<1> QED
    BY <1>1, <1>4, <1>5, <1>6, <1>7, <1>8, <1>9, <1>10, <1>11, <1>12, Zenon
       DEF Next, StopClean, DrainTimeout, Panic

\* queue.rs: whatever producers and handlers do, the pending events never exceed
\* the capacity, and at most index_concurrency handlers run.
THEOREM BoundsHold == Spec => [](ConcurrencyBound /\ PendingBound)
<1>1. BoundInv => ConcurrencyBound /\ PendingBound
    BY Zenon DEF BoundInv
<1>2. SchedInv /\ BoundInv /\ [Next]_vars => BoundInv'
    BY BoundInvStep, Zenon
<1> QED
    BY <1>1, <1>2, BoundInvInit, SchedInvariant, PTL DEF Spec

-----------------------------------------------------------------------------
(* Order.  The lane of a key continues where its handlers stopped, and the  *)
(* channel continues where the lane stops: numbering the events makes that  *)
(* an equation, which implies that nothing is lost or reordered.            *)

Lined(k) == started[k] + Len(LaneOf(k))

LaneNumbers == \A k \in DOMAIN waiting : \A i \in DOMAIN waiting[k] : waiting[k][i].n = started[k] + i

ChanNumbers ==
    \A k \in Keys : \A i \in DOMAIN chan :
        chan[i].key = k => Lined(k) < chan[i].n /\ chan[i].n <= sent[k]

ChanOrder ==
    \A i, j \in DOMAIN chan : i < j /\ chan[i].key = chan[j].key => chan[i].n < chan[j].n

ChanComplete ==
    \A k \in Keys : \A n \in (Lined(k) + 1) .. sent[k] :
        \E i \in DOMAIN chan : chan[i] = [key |-> k, n |-> n]

RunNumbers ==
    /\ \A e \in running : e.n = started[e.key]
    /\ \A k \in Keys : handled[k] = IF k \in active THEN started[k] - 1 ELSE started[k]

LinedBound == \A k \in Keys : Lined(k) <= sent[k]

Numbered ==
    /\ LaneNumbers
    /\ ChanNumbers
    /\ ChanOrder
    /\ ChanComplete
    /\ RunNumbers
    /\ LinedBound

OrderInv == phase # "stopped" => Numbered

\* The length of a lane is a number.
LEMMA LinedType ==
    ASSUME TypeOK, NEW k \in Keys
    PROVE  /\ LaneOf(k) \in Seq(Events)
           /\ Len(LaneOf(k)) \in Nat
           /\ started[k] \in Nat
           /\ sent[k] \in Nat
           /\ handled[k] \in Nat
           /\ Lined(k) \in Nat
<1>1. LaneOf(k) \in Seq(Events)
    BY EmptySeq, Zenon DEF LaneOf, TypeOK
<1>2. Len(LaneOf(k)) \in Nat
    BY <1>1, LenProperties, Zenon
<1> QED
    BY <1>1, <1>2 DEF Lined, TypeOK

\* A send numbers its event after every event of its key before it.
LEMMA PushKeepsOrder ==
    ASSUME SchedInv, Numbered, NEW k \in Keys, Push(k),
           UNCHANGED laneVars, UNCHANGED <<started, handled>>
    PROVE  Numbered'
<1> DEFINE e == [key |-> k, n |-> sent[k] + 1]
<1>1. /\ chan' = Append(chan, e)
      /\ sent' = [sent EXCEPT ![k] = sent[k] + 1]
      /\ e \in Events
    BY PushType, Zenon DEF Push, SchedInv, LaneInv
<1>2. /\ chan \in Seq(Events)
      /\ DOMAIN chan = 1 .. Len(chan)
      /\ Len(chan) \in Nat
      /\ sent \in [Keys -> Nat]
      /\ \A i \in DOMAIN chan : chan[i] \in Events
    BY LenProperties, ElementOfSeq, Zenon DEF SchedInv, LaneInv, TypeOK
<1>3. /\ DOMAIN chan' = 1 .. Len(chan) + 1
      /\ \A i \in 1 .. Len(chan) : chan'[i] = chan[i]
      /\ chan'[Len(chan) + 1] = e
    BY <1>1, <1>2, ElementsAppend
<1>4. \A j : Lined(j)' = Lined(j)
    BY Zenon DEF Lined, LaneOf, laneVars
<1>5. \A j \in Keys : Lined(j) \in Nat /\ Lined(j) <= sent[j] /\ sent[j] \in Nat
    BY LinedType, Zenon DEF SchedInv, LaneInv, Numbered, LinedBound
<1>6. /\ \A j \in Keys : sent[j] <= sent'[j]
      /\ sent'[k] = sent[k] + 1
      /\ \A j \in Keys : j # k => sent'[j] = sent[j]
    BY <1>1, <1>2, <1>5
<1>7. e.key = k /\ e.n = sent[k] + 1
    BY Zenon
<1>8. LaneNumbers' /\ RunNumbers'
    BY Zenon DEF Numbered, LaneNumbers, RunNumbers, laneVars
<1>9. ChanNumbers'
  <2>1. ASSUME NEW i \in 1 .. Len(chan)
        PROVE  Lined(chan[i].key) < chan[i].n /\ chan[i].n <= sent'[chan[i].key]
    <3>1. /\ chan[i].key \in Keys
          /\ chan[i].n \in Nat
          /\ Lined(chan[i].key) < chan[i].n
          /\ chan[i].n <= sent[chan[i].key]
        BY <1>2, Zenon DEF Numbered, ChanNumbers, Events
    <3> QED
        BY <3>1, <1>5, <1>6
  <2>2. Lined(e.key) < e.n /\ e.n <= sent'[e.key]
      BY <1>5, <1>6, <1>7
  <2> QED
      BY <2>1, <2>2, <1>3, <1>4, <1>2 DEF ChanNumbers
<1>10. ChanOrder'
  <2>1. ASSUME NEW i \in 1 .. Len(chan), chan[i].key = k PROVE chan[i].n < e.n
    <3>1. chan[i].n <= sent[k] /\ chan[i].n \in Nat
        BY <2>1, <1>2, Zenon DEF Numbered, ChanNumbers, Events
    <3> QED
        BY <3>1, <1>5, <1>7
  <2>2. ASSUME NEW i \in DOMAIN chan', NEW j \in DOMAIN chan', i < j, chan'[i].key = chan'[j].key
        PROVE  chan'[i].n < chan'[j].n
    <3>1. i \in 1 .. Len(chan) /\ chan'[i] = chan[i]
        BY <2>2, <1>2, <1>3
    <3>2. CASE j \in 1 .. Len(chan)
        BY <2>2, <3>1, <3>2, <1>2, <1>3, Zenon DEF Numbered, ChanOrder
    <3>3. CASE j = Len(chan) + 1
        BY <2>1, <2>2, <3>1, <3>3, <1>3, <1>7, Zenon
    <3> QED
        BY <3>2, <3>3, <1>2, <1>3
  <2> QED
      BY <2>2, Zenon DEF ChanOrder
<1>11. ChanComplete'
  <2>1. ASSUME NEW j \in Keys, NEW n \in (Lined(j) + 1) .. sent'[j]
        PROVE  \E i \in DOMAIN chan' : chan'[i] = [key |-> j, n |-> n]
    <3>1. CASE n <= sent[j]
      <4>1. PICK i \in DOMAIN chan : chan[i] = [key |-> j, n |-> n]
          BY <3>1, <1>5 DEF Numbered, ChanComplete
      <4> QED
          BY <4>1, <1>2, <1>3
    <3>2. CASE ~(n <= sent[j])
      <4>1. j = k /\ n = sent[k] + 1
          BY <3>2, <1>5, <1>6
      <4>2. Len(chan) + 1 \in DOMAIN chan'
          BY <1>2, <1>3
      <4> QED
          BY <4>1, <4>2, <1>3, Zenon
    <3> QED
        BY <3>1, <3>2, Zenon
  <2> QED
      BY <2>1, <1>4, Zenon DEF ChanComplete
<1>12. LinedBound'
    BY <1>4, <1>5, <1>6 DEF LinedBound
<1> QED
    BY <1>8, <1>9, <1>10, <1>11, <1>12, Zenon DEF Numbered

\* The channel's head is the next event of its key's lane.
LEMMA HeadIsNext ==
    ASSUME SchedInv, Numbered, chan # <<>>
    PROVE  /\ Head(chan) \in Events
           /\ Head(chan).key \in Keys
           /\ Head(chan).n = Lined(Head(chan).key) + 1
           /\ Head(chan).n <= sent[Head(chan).key]
<1> DEFINE e == Head(chan)
           k == e.key
           m == Lined(k) + 1
<1>1. /\ chan \in Seq(Events)
      /\ e \in Events
      /\ e = chan[1]
      /\ 1 \in DOMAIN chan
      /\ DOMAIN chan = 1 .. Len(chan)
      /\ Len(chan) \in Nat
    BY ElementsTail, LenProperties, Zenon DEF SchedInv, LaneInv, TypeOK
<1>2. k \in Keys /\ e.n \in Nat
    BY <1>1, Zenon DEF Events
<1>3. Lined(k) < e.n /\ e.n <= sent[k]
    BY <1>1, <1>2, Zenon DEF Numbered, ChanNumbers
<1>4. Lined(k) \in Nat /\ sent[k] \in Nat
    BY <1>2, LinedType, Zenon DEF SchedInv, LaneInv
<1>5. m \in (Lined(k) + 1) .. sent[k]
    BY <1>2, <1>3, <1>4
<1>6. PICK j \in DOMAIN chan : chan[j] = [key |-> k, n |-> m]
    BY <1>2, <1>5, Zenon DEF Numbered, ChanComplete
<1>7. j = 1
  <2>1. ASSUME j # 1 PROVE FALSE
    <3>1. 1 < j
        BY <2>1, <1>1
    <3>2. e.n < m
        BY <3>1, <1>1, <1>6 DEF Numbered, ChanOrder
    <3> QED
        BY <3>2, <1>2, <1>3, <1>4
  <2> QED
      BY <2>1, Zenon
<1>8. e.n = m
    BY <1>1, <1>6, <1>7
<1> QED
    BY <1>1, <1>2, <1>3, <1>8, Zenon
\* Taking the channel's head into its lane keeps the numbering.
LEMMA AcceptKeepsOrder ==
    ASSUME SchedInv, Numbered, chan # <<>>, Accept(Head(chan)), chan' = Tail(chan),
           UNCHANGED <<sent, started, handled>>
    PROVE  Numbered'
<1>0. PICK e \in Events, k \in Keys : e = Head(chan) /\ k = e.key
    BY HeadIsNext, Zenon
<1>1. e.n = Lined(k) + 1 /\ e.n <= sent[k] /\ e.n \in Nat
    BY <1>0, HeadIsNext, Zenon DEF Events
<1>2. /\ DOMAIN waiting' = (DOMAIN waiting) \cup {k}
      /\ waiting'[k] = Append(LaneOf(k), e)
      /\ \A j \in DOMAIN waiting : j # k => waiting'[j] = waiting[j]
    BY <1>0, AcceptKeepsLanes, Zenon DEF SchedInv
<1>3. /\ LaneOf(k) \in Seq(Events)
      /\ DOMAIN LaneOf(k) = 1 .. Len(LaneOf(k))
      /\ Len(LaneOf(k)) \in Nat
      /\ started[k] \in Nat
      /\ Lined(k) = started[k] + Len(LaneOf(k))
    BY <1>1, LinedType, LenProperties, Zenon DEF SchedInv, LaneInv, Lined
<1>4. /\ Len(waiting'[k]) = Len(LaneOf(k)) + 1
      /\ DOMAIN waiting'[k] = 1 .. Len(LaneOf(k)) + 1
      /\ \A i \in 1 .. Len(LaneOf(k)) : waiting'[k][i] = LaneOf(k)[i]
      /\ waiting'[k][Len(LaneOf(k)) + 1] = e
    BY <1>1, <1>2, <1>3, ElementsAppend
<1>5. /\ LaneOf(k)' = waiting'[k]
      /\ \A j \in Keys : j # k => LaneOf(j)' = LaneOf(j)
    BY <1>2, Zenon DEF LaneOf
<1>6. /\ Lined(k)' = Lined(k) + 1
      /\ \A j \in Keys : j # k => Lined(j)' = Lined(j)
  <2>1. Lined(k)' = Lined(k) + 1
    <3>1. Lined(k)' = started[k] + Len(waiting'[k])
        BY <1>5, Zenon DEF Lined
    <3>2. Lined(k)' = started[k] + (Len(LaneOf(k)) + 1)
        BY <3>1, <1>4, Zenon
    <3> QED
        BY <3>2, <1>3
  <2>2. ASSUME NEW j \in Keys, j # k PROVE Lined(j)' = Lined(j)
    <3>1. LaneOf(j)' = LaneOf(j)
        BY <2>2, <1>5, Zenon
    <3> QED
        BY <3>1, Zenon DEF Lined
  <2> QED
      BY <2>1, <2>2, Zenon
<1>7. /\ chan \in Seq(Events)
      /\ Len(chan) \in Nat \ {0}
      /\ DOMAIN chan = 1 .. Len(chan)
      /\ DOMAIN chan' = 1 .. Len(chan) - 1
      /\ \A i \in 1 .. Len(chan) - 1 : chan'[i] = chan[i + 1]
      /\ chan[1] = e
      /\ \A i \in DOMAIN chan : chan[i] \in Events
    BY <1>0, ElementsTail, LenProperties, ElementOfSeq DEF SchedInv, LaneInv, TypeOK
<1>8. LaneNumbers'
  <2>1. ASSUME NEW i \in 1 .. Len(LaneOf(k)) PROVE LaneOf(k)[i].n = started[k] + i
      BY <1>3, EmptySeq DEF Numbered, LaneNumbers, LaneOf
  <2>2. ASSUME NEW i \in DOMAIN waiting'[k] PROVE waiting'[k][i].n = started[k] + i
    <3>1. i \in 1 .. Len(LaneOf(k)) \/ i = Len(LaneOf(k)) + 1
        BY <1>3, <1>4
    <3>2. CASE i \in 1 .. Len(LaneOf(k))
        BY <3>2, <2>1, <1>4, Zenon
    <3>3. CASE i = Len(LaneOf(k)) + 1
        BY <3>3, <1>1, <1>3, <1>4
    <3> QED
        BY <3>1, <3>2, <3>3, Zenon
  <2>3. ASSUME NEW j \in DOMAIN waiting', NEW i \in DOMAIN waiting'[j]
        PROVE  waiting'[j][i].n = started'[j] + i
    <3>1. CASE j = k
        BY <3>1, <2>2, Zenon
    <3>2. CASE j # k
        BY <3>2, <2>3, <1>2, Zenon DEF Numbered, LaneNumbers
    <3> QED
        BY <3>1, <3>2, Zenon
  <2> QED
      BY <2>3, Zenon DEF LaneNumbers
<1>9. ASSUME NEW i \in DOMAIN chan'
      PROVE  /\ i + 1 \in DOMAIN chan
             /\ chan'[i] = chan[i + 1]
             /\ chan'[i].key \in Keys
             /\ chan'[i].n \in Nat
    BY <1>7 DEF Events
<1>10. ChanNumbers'
  <2>1. ASSUME NEW j \in Keys, NEW i \in DOMAIN chan', chan'[i].key = j
        PROVE  Lined(j)' < chan'[i].n /\ chan'[i].n <= sent'[j]
    <3>1. Lined(j) < chan'[i].n /\ chan'[i].n <= sent[j]
        BY <2>1, <1>9, Zenon DEF Numbered, ChanNumbers
    <3>2. CASE j = k
      <4>1. e.n < chan'[i].n
        <5>1. 1 \in DOMAIN chan /\ 1 < i + 1
            BY <1>7
        <5> QED
            BY <2>1, <5>1, <3>2, <1>0, <1>7, <1>9 DEF Numbered, ChanOrder
      <4> QED
          BY <3>1, <3>2, <4>1, <1>1, <1>6, Zenon
    <3>3. CASE j # k
        BY <3>1, <3>3, <1>6, <1>9, Zenon
    <3> QED
        BY <3>2, <3>3, Zenon
  <2> QED
      BY <2>1, Zenon DEF ChanNumbers
<1>11. ChanOrder'
  <2>1. ASSUME NEW i \in DOMAIN chan', NEW j \in DOMAIN chan', i < j, chan'[i].key = chan'[j].key
        PROVE  chan'[i].n < chan'[j].n
    <3>1. i + 1 < j + 1
        BY <2>1, <1>7
    <3> QED
        BY <2>1, <3>1, <1>9, Zenon DEF Numbered, ChanOrder
  <2> QED
      BY <2>1, Zenon DEF ChanOrder
<1>12. ChanComplete'
  <2>1. ASSUME NEW j \in Keys, NEW n \in (Lined(j)' + 1) .. sent[j]
        PROVE  \E i \in DOMAIN chan' : chan'[i] = [key |-> j, n |-> n]
    <3>1. Lined(j) \in Nat /\ sent[j] \in Nat /\ Lined(k) \in Nat
        BY <1>1, LinedType, Zenon DEF SchedInv, LaneInv
    <3>2. n \in (Lined(j) + 1) .. sent[j] /\ (j = k => n > Lined(k) + 1)
        BY <3>1, <1>6
    <3>3. PICK i \in DOMAIN chan : chan[i] = [key |-> j, n |-> n]
        BY <3>2, Zenon DEF Numbered, ChanComplete
    <3>4. i # 1
        BY <3>2, <3>3, <3>1, <1>0, <1>1, <1>7
    <3>5. i - 1 \in DOMAIN chan' /\ chan'[i - 1] = chan[i]
        BY <3>4, <1>7
    <3> QED
        BY <3>3, <3>5, Zenon
  <2> QED
      BY <2>1, Zenon DEF ChanComplete
<1>13. RunNumbers'
    BY Zenon DEF Accept, Numbered, RunNumbers
<1>14. LinedBound'
    BY <1>1, <1>6, Zenon DEF Numbered, LinedBound
<1> QED
    BY <1>8, <1>10, <1>11, <1>12, <1>13, <1>14, Zenon DEF Numbered

\* Starting the head of a lane keeps the numbering: it is the next event of its
\* key, and its key's earlier events are done.
LEMMA StartKeepsOrder ==
    ASSUME SchedInv, Numbered, StartNext
    PROVE  /\ Numbered'
           /\ \A j \in Keys : Lined(j)' = Lined(j)
           /\ started' = [started EXCEPT ![Head(ready)] = started[Head(ready)] + 1]
           /\ handled[Head(ready)] = started[Head(ready)]
<1>0. PICK k \in Keys, lane \in Seq(Events), e \in Events :
         k = Head(ready) /\ lane = waiting[k] /\ e = Head(lane)
    BY StartNextTakes, Zenon DEF SchedInv
<1>1. /\ k \in DOMAIN waiting
      /\ k \in Keys
      /\ k \notin active
      /\ lane \in Seq(Events)
      /\ lane # <<>>
      /\ e \in Events
      /\ e.key = k
    BY <1>0, StartNextTakes, Zenon DEF SchedInv
<1>2. /\ waiting' = IF Tail(lane) = <<>> THEN WithoutLane(k) ELSE WithLane(k, Tail(lane))
      /\ active' = active \cup {k}
      /\ running' = running \cup {e}
      /\ started' = [started EXCEPT ![k] = e.n]
      /\ chan' = chan /\ sent' = sent /\ handled' = handled
    BY <1>0, Zenon DEF StartNext, queueVars
<1>3. /\ e = lane[1]
      /\ 1 \in DOMAIN lane
      /\ Tail(lane) \in Seq(Events)
      /\ Len(lane) \in Nat \ {0}
      /\ Len(Tail(lane)) = Len(lane) - 1
      /\ DOMAIN Tail(lane) = 1 .. Len(lane) - 1
      /\ \A i \in 1 .. Len(lane) - 1 : Tail(lane)[i] = lane[i + 1]
      /\ DOMAIN lane = 1 .. Len(lane)
    BY <1>0, <1>1, ElementsTail, LenProperties, Zenon
<1>4. started \in [Keys -> Nat] /\ started[k] \in Nat
    BY <1>1, Zenon DEF SchedInv, LaneInv, TypeOK
<1>5. \A i \in DOMAIN lane : lane[i].n = started[k] + i
    BY <1>0, <1>1, Zenon DEF Numbered, LaneNumbers
<1>6. e.n = started[k] + 1
    BY <1>3, <1>4, <1>5, Zenon
<1>7. started' = [started EXCEPT ![k] = started[k] + 1]
    BY <1>2, <1>6, Zenon
<1>8. handled[k] = started[k]
    BY <1>1, Zenon DEF Numbered, RunNumbers
<1>9. /\ LaneOf(k) = lane
      /\ LaneOf(k)' = Tail(lane)
      /\ \A j \in Keys : j # k => LaneOf(j)' = LaneOf(j)
    BY <1>0, <1>1, <1>2, Zenon DEF LaneOf, WithLane, WithoutLane
<1>10. \A j \in Keys : Lined(j)' = Lined(j)
  <2>1. Lined(k)' = Lined(k)
      BY <1>1, <1>3, <1>4, <1>7, <1>9 DEF Lined
  <2>2. \A j \in Keys : j # k => Lined(j)' = Lined(j)
      BY <1>4, <1>7, <1>9, Zenon DEF Lined
  <2> QED
      BY <2>1, <2>2, Zenon
<1>11. LaneNumbers'
  <2>1. \A i \in DOMAIN Tail(lane) : Tail(lane)[i].n = (started[k] + 1) + i
    <3>1. ASSUME NEW i \in DOMAIN Tail(lane) PROVE Tail(lane)[i].n = (started[k] + 1) + i
      <4>1. Tail(lane)[i] = lane[i + 1] /\ i + 1 \in DOMAIN lane
          BY <1>3
      <4> QED
          BY <4>1, <1>3, <1>4, <1>5
    <3> QED
        BY <3>1, Zenon
  <2>2. /\ \A j \in (DOMAIN waiting') \ {k} : j \in DOMAIN waiting /\ waiting'[j] = waiting[j]
        /\ k \in DOMAIN waiting' => waiting'[k] = Tail(lane)
      BY <1>2, Zenon DEF WithLane, WithoutLane
  <2>3. \A j \in (DOMAIN waiting') \ {k} : j \in Keys /\ started'[j] = started[j]
      BY <2>2, <1>4, <1>7, Zenon DEF SchedInv, LaneInv, TypeOK
  <2>4. started'[k] = started[k] + 1
      BY <1>1, <1>4, <1>7, Zenon
  <2>5. ASSUME NEW j \in DOMAIN waiting', NEW i \in DOMAIN waiting'[j]
        PROVE  waiting'[j][i].n = started'[j] + i
    <3>1. CASE j = k
        BY <3>1, <2>1, <2>2, <2>4, Zenon
    <3>2. CASE j # k
        BY <3>2, <2>2, <2>3, <2>5, Zenon DEF Numbered, LaneNumbers
    <3> QED
        BY <3>1, <3>2, Zenon
  <2> QED
      BY <2>5, Zenon DEF LaneNumbers
<1>13. ChanNumbers' /\ ChanOrder'
  <2>1. ChanNumbers'
      BY <1>2, <1>10, Zenon DEF Numbered, ChanNumbers
  <2>2. ChanOrder'
      BY <1>2, Zenon DEF Numbered, ChanOrder
  <2> QED
      BY <2>1, <2>2, Zenon
<1>14. ChanComplete' /\ LinedBound'
    BY <1>2, <1>10, Zenon DEF Numbered, ChanComplete, LinedBound
<1>15. RunNumbers'
  <2>1. \A d \in running : d.key # k /\ d.key \in Keys
      BY <1>1, Zenon DEF SchedInv, LaneInv, OneHandlerPerKey, TypeOK, Events
  <2>2. \A d \in running' : d.n = started'[d.key]
      BY <2>1, <1>1, <1>2, <1>4, <1>6, <1>7, Zenon DEF Numbered, RunNumbers
  <2>3. \A j \in Keys : handled'[j] = IF j \in active' THEN started'[j] - 1 ELSE started'[j]
    <3>1. ASSUME NEW j \in Keys, j # k
          PROVE  handled'[j] = IF j \in active' THEN started'[j] - 1 ELSE started'[j]
      <4>1. started'[j] = started[j] /\ handled'[j] = handled[j] /\ (j \in active' <=> j \in active)
          BY <3>1, <1>2, <1>4, <1>7, Zenon DEF SchedInv, LaneInv, TypeOK
      <4> QED
          BY <4>1, Zenon DEF Numbered, RunNumbers
    <3>2. handled'[k] = IF k \in active' THEN started'[k] - 1 ELSE started'[k]
      <4>1. k \in active' /\ handled'[k] = started[k] /\ started'[k] = started[k] + 1
          BY <1>1, <1>2, <1>4, <1>7, <1>8, Zenon
      <4> QED
          BY <4>1, <1>4
    <3> QED
        BY <3>1, <3>2, Zenon
  <2> QED
      BY <2>2, <2>3, Zenon DEF RunNumbers
<1> QED
    BY <1>0, <1>7, <1>8, <1>10, <1>11, <1>13, <1>14, <1>15, Zenon DEF Numbered
\* A handler that ends is the last one started for its key.
LEMMA FinishKeepsOrder ==
    ASSUME SchedInv, Numbered, NEW e \in running, Finish(e)
    PROVE  Numbered'
<1>1. /\ running' = running \ {e}
      /\ active' = active \ {e.key}
      /\ handled' = [handled EXCEPT ![e.key] = e.n]
      /\ chan' = chan /\ sent' = sent /\ started' = started /\ waiting' = waiting
    BY Zenon DEF Finish
<1>2. e.key \in Keys /\ handled \in [Keys -> Nat] /\ e.n = started[e.key]
    BY Zenon DEF SchedInv, LaneInv, TypeOK, Events, Numbered, RunNumbers
<1>3. \A j : Lined(j)' = Lined(j)
    BY <1>1, Zenon DEF Lined, LaneOf
<1>4. LaneNumbers' /\ ChanOrder'
    BY <1>1, Zenon DEF Numbered, LaneNumbers, ChanOrder
<1>5. ChanNumbers' /\ ChanComplete' /\ LinedBound'
    BY <1>1, <1>3, Zenon DEF Numbered, ChanNumbers, ChanComplete, LinedBound
<1>6. RunNumbers'
  <2>1. \A d \in running' : d.n = started'[d.key]
      BY <1>1, Zenon DEF Numbered, RunNumbers
  <2>2. ASSUME NEW j \in Keys
        PROVE  handled'[j] = IF j \in active' THEN started'[j] - 1 ELSE started'[j]
    <3>1. CASE j = e.key
        BY <3>1, <1>1, <1>2, Zenon
    <3>2. CASE j # e.key
      <4>1. started'[j] = started[j] /\ handled'[j] = handled[j] /\ (j \in active' <=> j \in active)
          BY <3>2, <1>1, <1>2, Zenon
      <4> QED
          BY <4>1, Zenon DEF Numbered, RunNumbers
    <3> QED
        BY <3>1, <3>2, Zenon
  <2> QED
      BY <2>1, <2>2, Zenon DEF RunNumbers
<1> QED
    BY <1>4, <1>5, <1>6, Zenon DEF Numbered

\* A step that touches neither channel, lanes nor counters.
LEMMA IdleKeepsOrder ==
    ASSUME Numbered, UNCHANGED <<chan, laneVars, sent, started, handled>>
    PROVE  Numbered' /\ \A j : Lined(j)' = Lined(j)
<1>1. \A j : Lined(j)' = Lined(j)
    BY Zenon DEF Lined, LaneOf, laneVars
<1>2. LaneNumbers' /\ ChanOrder'
    BY Zenon DEF Numbered, LaneNumbers, ChanOrder, laneVars
<1>3. ChanNumbers' /\ ChanComplete' /\ LinedBound'
    BY <1>1, Zenon DEF Numbered, ChanNumbers, ChanComplete, LinedBound
<1>4. RunNumbers'
    BY Zenon DEF Numbered, RunNumbers, laneVars
<1> QED
    BY <1>1, <1>2, <1>3, <1>4, Zenon DEF Numbered

\* Until the worker stops the receiver exists, and what stopped stays stopped.
PhaseInv == (rxOpen <=> phase # "stopped") /\ (exit = "none" <=> phase # "stopped")

\* Every step of the worker loop keeps its phase consistent with what it still holds.
LEMMA PhaseInvStep ==
    ASSUME PhaseInv, [Next]_vars
    PROVE  PhaseInv' /\ (phase' # "stopped" => phase # "stopped")
<1>1. ASSUME NEW how \in {"clean", "timeout", "panic"}, Stop(how) PROVE PhaseInv' /\ phase' = "stopped"
    BY <1>1, Zenon DEF Stop, PhaseInv
<1>2. ASSUME \/ \E k \in Keys : TrySend(k)
             \/ \E p \in Producers, k \in Keys : SendBegin(p, k)
             \/ Grant
             \/ \E p \in Producers : SendFinish(p)
             \/ \E p \in Producers : SendCancel(p)
             \/ DropSenders
             \/ StartNext
             \/ \E e \in running : Finish(e)
             \/ Recv
             \/ RecvClosed
             \/ Shutdown
             \/ UNCHANGED vars
      PROVE  UNCHANGED <<rxOpen, phase, exit>>
    BY <1>2, Zenon DEF TrySend, SendBegin, Grant, SendFinish, SendCancel, DropSenders, StartNext, Finish,
                Recv, RecvClosed, Shutdown, queueVars, workerVars, vars
<1>3. ASSUME SeeShutdown \/ Collect
      PROVE  UNCHANGED <<rxOpen, exit>> /\ phase # "stopped" /\ phase' # "stopped"
    BY <1>3, Zenon DEF SeeShutdown, Collect, queueVars
<1> QED
    BY <1>1, <1>2, <1>3 DEF Next, StopClean, DrainTimeout, Panic, PhaseInv

\* Nothing has been sent at the start, so everything is in order.
LEMMA OrderInvInit == Init => OrderInv
<1> SUFFICES ASSUME Init PROVE Numbered
    BY Zenon DEF OrderInv
<1>1. \A k \in Keys : Lined(k) = 0
    BY EmptySeq DEF Init, Lined, LaneOf, NoLanes
<1>2. LaneNumbers
    BY Zenon DEF Init, NoLanes, LaneNumbers
<1>3. ChanNumbers /\ ChanOrder
  <2>1. chan = <<>>
    BY Zenon DEF Init
  <2>2. DOMAIN chan = {}
    BY <2>1, EmptySeq
  <2> QED
    BY <2>2, Zenon DEF ChanNumbers, ChanOrder
<1>4. ChanComplete /\ LinedBound
    BY <1>1 DEF Init, ChanComplete, LinedBound
<1>5. RunNumbers
    BY Zenon DEF Init, RunNumbers
<1> QED
    BY <1>2, <1>3, <1>4, <1>5, Zenon DEF Numbered

\* Every step keeps the numbering.
LEMMA OrderInvStep ==
    ASSUME SchedInv, PhaseInv, OrderInv, [Next]_vars
    PROVE  OrderInv'
<1> SUFFICES ASSUME phase' # "stopped" PROVE Numbered'
    BY Zenon DEF OrderInv
<1>1. Numbered /\ rxOpen
    BY PhaseInvStep, Zenon DEF OrderInv, PhaseInv
<1>2. ASSUME NEW k \in Keys, TrySend(k) PROVE Numbered'
    BY <1>1, <1>2, PushKeepsOrder, Zenon DEF TrySend
<1>3. ASSUME NEW p \in Producers, SendFinish(p) PROVE Numbered'
  <2>1. producer[p].key \in Keys
      BY <1>3 DEF SendFinish, SchedInv, LaneInv, TypeOK
  <2>2. Push(producer[p].key) /\ UNCHANGED laneVars /\ UNCHANGED <<started, handled>>
      BY <1>1, <1>3, Zenon DEF SendFinish
  <2> QED
      BY <1>1, <2>1, <2>2, PushKeepsOrder, Zenon
<1>4. ASSUME StartNext PROVE Numbered'
    BY <1>1, <1>4, StartKeepsOrder, Zenon
<1>5. ASSUME NEW e \in running, Finish(e) PROVE Numbered'
    BY <1>1, <1>5, FinishKeepsOrder, Zenon
<1>6. ASSUME Recv PROVE Numbered'
    BY <1>1, <1>6, AcceptKeepsOrder, Zenon DEF Recv, history
<1>7. ASSUME Collect PROVE Numbered'
  <2>1. CASE chan # <<>>
      BY <1>1, <1>7, <2>1, AcceptKeepsOrder, Zenon DEF Collect, history
  <2>2. CASE chan = <<>>
      BY <1>1, <1>7, <2>2, IdleKeepsOrder, Zenon DEF Collect, history
  <2> QED
      BY <2>1, <2>2, Zenon
<1>8. ASSUME \/ \E p \in Producers, k \in Keys : SendBegin(p, k)
             \/ Grant
             \/ \E p \in Producers : SendCancel(p)
             \/ DropSenders
             \/ RecvClosed
             \/ Shutdown
             \/ SeeShutdown
             \/ UNCHANGED vars
      PROVE  UNCHANGED <<chan, laneVars, sent, started, handled>>
    BY <1>8, Zenon DEF SendBegin, Grant, SendCancel, DropSenders, RecvClosed, Shutdown, SeeShutdown,
                queueVars, history, vars
<1> QED
    BY <1>1, <1>2, <1>3, <1>4, <1>5, <1>6, <1>7, <1>8, IdleKeepsOrder, Zenon
       DEF Next, StopClean, DrainTimeout, Panic, Stop
\* What the order proof needs at once.
FlowInv == SchedInv /\ PhaseInv /\ OrderInv

\* The conjunction of the invariants about an event's place holds in every state of
\* the worker: an accepted event is in the channel, in its lane, in a handler or handled.
THEOREM FlowInvariant == Spec => []FlowInv
<1>1. Init => FlowInv
    BY SchedInvInit, OrderInvInit, Zenon DEF Init, FlowInv, PhaseInv
<1>2. FlowInv /\ [Next]_vars => FlowInv'
    BY SchedInvStep, PhaseInvStep, OrderInvStep, Zenon DEF FlowInv
<1> QED
    BY <1>1, <1>2, PTL DEF Spec

\* An event the channel accepted is started or queued until the worker ends, for
\* any number of keys, producers and handlers.
THEOREM NothingIsLost == Spec => []NothingLost
<1>1. FlowInv => NothingLost
  <2> SUFFICES ASSUME FlowInv, phase # "stopped", NEW k \in Keys, NEW n \in (started[k] + 1) .. sent[k]
               PROVE  Queued(k, n)
      BY Zenon DEF NothingLost
  <2>1. /\ LaneOf(k) \in Seq(Events)
        /\ Len(LaneOf(k)) \in Nat
        /\ DOMAIN LaneOf(k) = 1 .. Len(LaneOf(k))
        /\ started[k] \in Nat
        /\ sent[k] \in Nat
      BY LinedType, LenProperties, Zenon DEF FlowInv, SchedInv, LaneInv
  <2>2. CASE n <= Lined(k)
    <3>1. n - started[k] \in 1 .. Len(LaneOf(k))
        BY <2>1, <2>2 DEF Lined
    <3>2. k \in DOMAIN waiting /\ waiting[k] = LaneOf(k)
        BY <3>1, <2>1, EmptySeq DEF LaneOf
    <3>3. waiting[k][n - started[k]].n = n
        BY <3>1, <3>2, <2>1 DEF FlowInv, OrderInv, Numbered, LaneNumbers
    <3> QED
        BY <3>1, <3>2, <3>3, <2>1, Zenon DEF Queued
  <2>3. CASE n > Lined(k)
      BY <2>1, <2>3 DEF Lined, FlowInv, OrderInv, Numbered, ChanComplete, Queued
  <2> QED
      BY <2>1, <2>2, <2>3 DEF Lined
<1> QED
    BY <1>1, FlowInvariant, PTL

\* Handlers of one key start in the order of their events, one after the other.
THEOREM HandlersStartInOrder == Spec => StartsInOrder
<1> DEFINE InOrder == \A k \in Keys : started'[k] # started[k] =>
                         /\ started'[k] = started[k] + 1
                         /\ handled[k] = started[k]
<1>1. FlowInv /\ [Next]_vars => [InOrder]_vars
  <2> SUFFICES ASSUME FlowInv, Next PROVE InOrder
      BY Zenon
  <2>1. CASE StartNext
    <3>1. Numbered /\ SchedInv
        BY <2>1, Zenon DEF StartNext, FlowInv, OrderInv
    <3>2. /\ started' = [started EXCEPT ![Head(ready)] = started[Head(ready)] + 1]
          /\ handled[Head(ready)] = started[Head(ready)]
        BY <2>1, <3>1, StartKeepsOrder, Zenon
    <3>3. started \in [Keys -> Nat]
        BY Zenon DEF FlowInv, SchedInv, LaneInv, TypeOK
    <3> HIDE DEF InOrder
    <3>4. ASSUME NEW k \in Keys, started'[k] # started[k] PROVE k = Head(ready)
        BY <3>2, <3>3, <3>4, Zenon
    <3> QED
        BY <3>2, <3>3, <3>4, Zenon DEF InOrder
  <2>2. CASE ~StartNext
    <3>1. started' = started
        BY <2>2, Zenon DEF Next, TrySend, SendBegin, Grant, SendFinish, SendCancel, DropSenders, Finish,
                    Recv, RecvClosed, Shutdown, SeeShutdown, Collect, StopClean, DrainTimeout,
                    Panic, Stop, history
    <3> QED
        BY <3>1, Zenon
  <2> QED
      BY <2>1, <2>2, Zenon
<1> QED
    BY <1>1, FlowInvariant, PTL DEF Spec, StartsInOrder

-----------------------------------------------------------------------------
(* Permits.                                                                *)

\* At the start every permit of the queue's semaphore is free.
LEMMA PermitInit == Init => PermitPerEvent
    BY DEF Init, PermitPerEvent, Laned, Elements, NoLanes

\* A permit is released when its event's handler ends, and not before: the event
\* that ends is in no lane and not in the channel.
LEMMA PermitStep ==
    ASSUME FlowInv, PermitPerEvent, [Next]_vars
    PROVE  PermitPerEvent'
<1> USE DEF FlowInv
<1>1. inFlight = Elements(chan) \cup Laned \cup running
    BY Zenon DEF PermitPerEvent
<1>2. ASSUME UNCHANGED <<waiting, running>>, NEW k \in Keys, Push(k) PROVE PermitPerEvent'
  <2>1. PICK e \in Events : e = [key |-> k, n |-> sent[k] + 1]
      BY <1>2, PushType, Zenon DEF SchedInv, LaneInv
  <2>2. Elements(Append(chan, e)) = Elements(chan) \cup {e}
      BY ElementsAppend DEF SchedInv, LaneInv, TypeOK
  <2>3. chan' = Append(chan, e) /\ inFlight' = inFlight \cup {e}
      BY <1>2, <2>1, Zenon DEF Push
  <2>4. Laned' = Laned
      BY <1>2, Zenon DEF Laned
  <2>5. Elements(chan') = Elements(chan) \cup {e}
      BY <2>2, <2>3, Zenon
  <2> QED
      BY <1>1, <1>2, <2>3, <2>4, <2>5, Zenon DEF PermitPerEvent
<1>3. ASSUME UNCHANGED <<inFlight, chan, waiting, running>> PROVE PermitPerEvent'
    BY <1>3 DEF PermitPerEvent, Laned, Elements
<1>4. ASSUME chan # <<>>, Accept(Head(chan)), chan' = Tail(chan), inFlight' = inFlight
      PROVE  PermitPerEvent'
  <2>1. PICK e \in Events : e = Head(chan)
      BY <1>4, ElementsTail, Zenon DEF SchedInv, LaneInv, TypeOK
  <2>2. PICK k \in Keys : k = e.key
      BY Zenon DEF Events
  <2>3. Elements(chan) = {e} \cup Elements(chan')
      BY <1>4, <2>1, ElementsTail, Zenon DEF SchedInv, LaneInv, TypeOK
  <2>4. /\ DOMAIN waiting' = (DOMAIN waiting) \cup {k}
        /\ waiting'[k] = Append(LaneOf(k), e)
        /\ \A j \in DOMAIN waiting : j # k => waiting'[j] = waiting[j]
        /\ running' = running
      BY <1>4, <2>1, <2>2, AcceptKeepsLanes, Zenon DEF SchedInv, Accept
  <2>5. Elements(Append(LaneOf(k), e)) = Elements(LaneOf(k)) \cup {e}
      BY LinedType, ElementsAppend DEF SchedInv, LaneInv
  <2>6. Elements(LaneOf(k)) \subseteq Laned
      BY DEF LaneOf, Laned, Elements
  <2>7. Elements(waiting'[k]) = Elements(LaneOf(k)) \cup {e}
      BY <2>4, <2>5, Zenon
  <2>8. \A j \in DOMAIN waiting : j # k => Elements(waiting'[j]) = Elements(waiting[j])
      BY <2>4, Zenon
  <2>9. k \in DOMAIN waiting => LaneOf(k) = waiting[k]
      BY Zenon DEF LaneOf
  <2>10. Laned' = Laned \cup {e}
    <3>1. Laned' \subseteq Laned \cup {e}
        BY <2>4, <2>6, <2>7, <2>8, Zenon DEF Laned
    <3>2. Laned \subseteq Laned'
        BY <2>4, <2>7, <2>8, <2>9, Zenon DEF Laned
    <3>3. e \in Laned'
        BY <2>4, <2>7, Zenon DEF Laned
    <3> QED
        BY <3>1, <3>2, <3>3, Zenon
  <2> QED
      BY <1>1, <1>4, <2>3, <2>4, <2>10, Zenon DEF PermitPerEvent
<1>5. ASSUME StartNext PROVE PermitPerEvent'
  <2>1. PICK k \in Keys, lane \in Seq(Events), e \in Events :
          k = Head(ready) /\ lane = waiting[k] /\ e = Head(lane)
      BY <1>5, StartNextTakes, Zenon DEF SchedInv
  <2>2. k \in DOMAIN waiting /\ lane # <<>>
      BY <1>5, <2>1, StartNextTakes, Zenon DEF SchedInv
  <2>3. /\ waiting' = IF Tail(lane) = <<>> THEN WithoutLane(k) ELSE WithLane(k, Tail(lane))
        /\ running' = running \cup {e}
        /\ chan' = chan /\ inFlight' = inFlight
      BY <1>5, <2>1, Zenon DEF StartNext, queueVars
  <2>4. Elements(lane) = {e} \cup Elements(Tail(lane))
      BY <2>1, <2>2, ElementsTail, Zenon
  <2>5. /\ \A j \in DOMAIN waiting : j # k => j \in DOMAIN waiting' /\ waiting'[j] = waiting[j]
        /\ \A j \in DOMAIN waiting' : j # k => j \in DOMAIN waiting /\ waiting'[j] = waiting[j]
        /\ k \in DOMAIN waiting' => waiting'[k] = Tail(lane)
        /\ k \notin DOMAIN waiting' => Tail(lane) = <<>>
      BY <2>2, <2>3, Zenon DEF WithLane, WithoutLane
  <2>6. Elements(<<>>) = {}
      BY DEF Elements
  <2>7. Laned = {e} \cup Laned'
    <3>1. Laned \subseteq {e} \cup Laned'
      <4>1. ASSUME NEW j \in DOMAIN waiting, j # k PROVE Elements(waiting[j]) \subseteq Laned'
          BY <4>1, <2>5, Zenon DEF Laned
      <4>2. Elements(Tail(lane)) \subseteq Laned'
          BY <2>5, <2>6, Zenon DEF Laned
      <4>3. ASSUME NEW d \in Laned PROVE d \in {e} \cup Laned'
        <5>1. PICK j \in DOMAIN waiting : d \in Elements(waiting[j])
            BY Zenon DEF Laned
        <5> QED
            BY <5>1, <4>1, <4>2, <2>1, <2>4, Zenon
      <4> QED
          BY <4>3, Zenon
    <3>2. Laned' \subseteq Laned
        BY <2>1, <2>2, <2>4, <2>5, Zenon DEF Laned
    <3>3. e \in Laned
        BY <2>1, <2>2, <2>4, Zenon DEF Laned
    <3> QED
        BY <3>1, <3>2, <3>3, Zenon
  <2> QED
      BY <1>1, <2>3, <2>7, Zenon DEF PermitPerEvent
<1>6. ASSUME NEW e \in running, Finish(e) PROVE PermitPerEvent'
  <2>1. /\ running' = running \ {e}
        /\ inFlight' = inFlight \ {e}
        /\ chan' = chan /\ waiting' = waiting
      BY <1>6, Zenon DEF Finish
  <2>2. Numbered
      BY <1>6, Zenon DEF Finish, OrderInv
  <2>3. e.key \in Keys /\ e.n = started[e.key] /\ e.n \in Nat
      BY <2>2, Zenon DEF SchedInv, LaneInv, TypeOK, Events, Numbered, RunNumbers
  <2>4. e \notin Elements(chan)
    <3>1. Len(LaneOf(e.key)) \in Nat
        BY <2>3, LinedType, Zenon DEF SchedInv, LaneInv
    <3>2. e.n <= Lined(e.key) /\ Lined(e.key) \in Nat
        BY <3>1, <2>3 DEF Lined
    <3>3. ASSUME NEW i \in DOMAIN chan, chan[i] = e PROVE FALSE
        BY <3>2, <3>3, <2>2, <2>3 DEF Numbered, ChanNumbers
    <3> QED
        BY <3>3, Zenon DEF Elements
  <2>5. e \notin Laned
    <3>1. ASSUME NEW k \in DOMAIN waiting, NEW i \in DOMAIN waiting[k], waiting[k][i] = e PROVE FALSE
      <4>1. k = e.key /\ e.n = started[k] + i
          BY <3>1, <2>2, Zenon DEF Numbered, LaneNumbers, SchedInv, LaneInv, OwnLane
      <4>2. i \in Nat \ {0}
        <5>1. waiting[k] \in Seq(Events)
            BY Zenon DEF SchedInv, LaneInv, TypeOK
        <5> QED
            BY <5>1, LenProperties
      <4> QED
          BY <4>1, <4>2, <2>3
    <3> QED
        BY <3>1, Zenon DEF Laned, Elements
  <2> QED
    <3>1. Laned' = Laned /\ Elements(chan)' = Elements(chan)
        BY <2>1 DEF Laned, Elements
    <3>2. inFlight' = (Elements(chan) \cup Laned \cup running) \ {e}
        BY <1>1, <2>1, Zenon
    <3>3. inFlight' = Elements(chan) \cup Laned \cup (running \ {e})
        BY <3>2, <2>4, <2>5, Zenon
    <3> QED
        BY <3>1, <3>3, <2>1, Zenon DEF PermitPerEvent
<1>7. ASSUME NEW how \in {"clean", "timeout", "panic"}, Stop(how) PROVE PermitPerEvent'
    BY <1>7 DEF Stop, PermitPerEvent, Laned, Elements, NoLanes
<1>8. ASSUME NEW p \in Producers, SendFinish(p) PROVE PermitPerEvent'
  <2>1. producer[p].key \in Keys
      BY <1>8 DEF SendFinish, SchedInv, LaneInv, TypeOK
  <2>2. UNCHANGED <<waiting, running>>
      BY <1>8, Zenon DEF SendFinish, laneVars
  <2>3. Push(producer[p].key) \/ UNCHANGED <<inFlight, chan, waiting, running>>
      BY <1>8, <2>2, Zenon DEF SendFinish
  <2> QED
      BY <2>1, <2>2, <2>3, <1>2, <1>3, Zenon
<1>9. ASSUME NEW k \in Keys, TrySend(k) PROVE PermitPerEvent'
    BY <1>2, <1>9, Zenon DEF TrySend, laneVars
<1>10. ASSUME \/ \E p \in Producers, k \in Keys : SendBegin(p, k)
              \/ Grant
              \/ \E p \in Producers : SendCancel(p)
              \/ DropSenders
              \/ RecvClosed
              \/ Shutdown
              \/ SeeShutdown
              \/ UNCHANGED vars
       PROVE  UNCHANGED <<inFlight, chan, waiting, running>>
    BY <1>10, Zenon DEF SendBegin, Grant, SendCancel, DropSenders, RecvClosed, Shutdown, SeeShutdown,
                 queueVars, laneVars, vars
<1>11. ASSUME Recv PROVE PermitPerEvent'
    BY <1>4, <1>11, Zenon DEF Recv
<1>12. ASSUME Collect PROVE PermitPerEvent'
  <2>1. CASE chan # <<>>
      BY <1>4, <1>12, <2>1, Zenon DEF Collect
  <2>2. CASE chan = <<>>
      BY <1>3, <1>12, <2>2, Zenon DEF Collect, laneVars
  <2> QED
      BY <2>1, <2>2, Zenon
<1> QED
    BY <1>3, <1>5, <1>6, <1>7, <1>8, <1>9, <1>10, <1>11, <1>12, Zenon
       DEF Next, StopClean, DrainTimeout, Panic

\* queue.rs: the permits out are those of the events pending, no more, no fewer.
THEOREM PermitsArePending == Spec => []PermitPerEvent
<1>1. FlowInv /\ PermitPerEvent /\ [Next]_vars => PermitPerEvent'
    BY PermitStep, Zenon
<1> QED
    BY <1>1, PermitInit, FlowInvariant, PTL DEF Spec-----------------------------------------------------------------------------
(* The end of the worker.                                                  *)

\* What was accepted when the token was cancelled is in a lane once the channel
\* has been emptied, and a lane that is empty has been handled.
ExitInv ==
    /\ phase \in {"collect", "drain"} => shutdown
    /\ ~receiverOpen => chan = <<>> /\ sendersGone
    /\ sendersGone => \A p \in Producers : producer[p].state = "idle"
    /\ shutdown => \A k \in Keys : sentAtShutdown[k] <= sent[k]
    /\ phase = "drain" => \A k \in Keys : sentAtShutdown[k] <= Lined(k)
    /\ exit = "clean" => \A k \in Keys : handled[k] >= IF shutdown THEN sentAtShutdown[k] ELSE sent[k]

\* A worker that has just started has not left its loop.
LEMMA ExitInvInit == Init => ExitInv
    BY Zenon DEF Init, ExitInv

\* With nothing in a lane and no handler running, all that was lined up is handled.
LEMMA IdleIsHandled ==
    ASSUME SchedInv, Numbered, DOMAIN waiting = {}, running = {}, NEW k \in Keys
    PROVE  handled[k] = Lined(k) /\ handled[k] \in Nat
<1>1. active = {}
    BY Zenon DEF SchedInv, LaneInv, OneHandlerPerKey
<1>2. Lined(k) = started[k] + 0 /\ started[k] \in Nat
    BY EmptySeq, Zenon DEF Lined, LaneOf, SchedInv, LaneInv, TypeOK
<1>3. handled[k] = started[k]
    BY <1>1, Zenon DEF Numbered, RunNumbers
<1> QED
    BY <1>2, <1>3

\* With an empty channel, all that was sent is lined up.
LEMMA EmptyIsLined ==
    ASSUME SchedInv, Numbered, chan = <<>>, NEW k \in Keys
    PROVE  Lined(k) >= sent[k]
<1>1. Lined(k) \in Nat /\ sent[k] \in Nat
    BY LinedType, Zenon DEF SchedInv, LaneInv
<1>2. ASSUME Lined(k) < sent[k] PROVE FALSE
  <2>1. sent[k] \in (Lined(k) + 1) .. sent[k]
      BY <1>1, <1>2
  <2>2. \E i \in DOMAIN chan : chan[i] = [key |-> k, n |-> sent[k]]
      BY <2>1, Zenon DEF Numbered, ChanComplete
  <2> QED
      BY <2>2
<1> QED
    BY <1>1, <1>2

\* Every step of the worker loop preserves what a clean exit has to guarantee.
LEMMA ExitInvStep ==
    ASSUME FlowInv, ExitInv, [Next]_vars
    PROVE  ExitInv'
<1> USE DEF FlowInv
<1>0. /\ phase # "stopped" => Numbered
      /\ \A k \in Keys : /\ sent[k] \in Nat
                         /\ sentAtShutdown[k] \in Nat
                         /\ handled[k] \in Nat
                         /\ Lined(k) \in Nat
    BY LinedType, Zenon DEF OrderInv, SchedInv, LaneInv, TypeOK
<1>1. ASSUME NEW k \in Keys, Push(k), rxOpen, ~sendersGone, UNCHANGED <<laneVars, workerVars>>,
             UNCHANGED <<sendersGone, started, handled, sentAtShutdown>>
      PROVE  ExitInv'
  <2>1. receiverOpen /\ phase # "stopped" /\ exit = "none"
      BY <1>1, Zenon DEF ExitInv, PhaseInv
  <2>2. \A j : Lined(j)' = Lined(j)
      BY <1>1, Zenon DEF Lined, LaneOf, laneVars
  <2>3. \A j \in Keys : sent[j] <= sent'[j] /\ sent'[j] \in Nat
      BY <1>0, <1>1 DEF Push, SchedInv, LaneInv, TypeOK
  <2>4. shutdown' => \A j \in Keys : sentAtShutdown'[j] <= sent'[j]
      BY <1>0, <1>1, <2>3 DEF ExitInv, workerVars
  <2> QED
      BY <1>1, <2>1, <2>2, <2>4, Zenon DEF ExitInv, workerVars
<1>2. ASSUME NEW k \in Keys, TrySend(k) PROVE ExitInv'
    BY <1>1, <1>2, Zenon DEF TrySend
<1>3. ASSUME NEW p \in Producers, SendFinish(p) PROVE ExitInv'
  <2>1. producer[p].key \in Keys /\ ~sendersGone
      BY <1>3 DEF SendFinish, SchedInv, LaneInv, TypeOK, ExitInv
  <2>2. UNCHANGED <<laneVars, workerVars>> /\ UNCHANGED <<sendersGone, started, handled, sentAtShutdown>>
      BY <1>3, Zenon DEF SendFinish
  <2>3. CASE rxOpen
      BY <1>1, <1>3, <2>1, <2>2, <2>3, Zenon DEF SendFinish
  <2>4. CASE ~rxOpen
    <3>1. UNCHANGED <<chan, sent>>
        BY <1>3, <2>4, Zenon DEF SendFinish
    <3>2. \A j : Lined(j)' = Lined(j)
        BY <2>2, Zenon DEF Lined, LaneOf, laneVars
    <3> QED
        BY <2>1, <2>2, <3>1, <3>2, Zenon DEF ExitInv, workerVars
  <2> QED
      BY <2>3, <2>4, Zenon
<1>4. ASSUME NEW p \in Producers, NEW k \in Keys, SendBegin(p, k) PROVE ExitInv'
  <2>1. \A j : Lined(j)' = Lined(j)
      BY <1>4, Zenon DEF SendBegin, Lined, LaneOf, laneVars, history
  <2> QED
      BY <1>4, <2>1, Zenon DEF SendBegin, ExitInv, workerVars, history
<1>5. ASSUME Grant PROVE ExitInv'
  <2>1. \A j : Lined(j)' = Lined(j)
      BY <1>5, Zenon DEF Grant, Lined, LaneOf, laneVars, history
  <2>2. ~sendersGone
    <3>1. Head(waiters) \in Elements(waiters)
        BY <1>5, ElementsTail, Zenon DEF Grant, SchedInv, LaneInv, TypeOK
    <3>2. Head(waiters) \in Producers /\ producer[Head(waiters)].state = "waiting"
        BY <3>1, Zenon DEF SchedInv, WaitersExactly
    <3> QED
        BY <3>2, Zenon DEF ExitInv
  <2> QED
      BY <1>5, <2>1, <2>2, Zenon DEF Grant, ExitInv, workerVars, history
<1>6. ASSUME NEW p \in Producers, SendCancel(p) PROVE ExitInv'
  <2>1. \A j : Lined(j)' = Lined(j)
      BY <1>6, Zenon DEF SendCancel, Lined, LaneOf, laneVars, history
  <2>2. ~sendersGone /\ ~sendersGone'
      BY <1>6, Zenon DEF SendCancel, ExitInv
  <2> QED
      BY <1>6, <2>1, <2>2, Zenon DEF SendCancel, ExitInv, workerVars, history
<1>7. ASSUME DropSenders PROVE ExitInv'
  <2>1. \A j : Lined(j)' = Lined(j)
      BY <1>7, Zenon DEF DropSenders, Lined, LaneOf, laneVars, history
  <2> QED
      BY <1>7, <2>1, Zenon DEF DropSenders, ExitInv, workerVars, history
<1>8. ASSUME StartNext PROVE ExitInv'
  <2>1. \A j \in Keys : Lined(j)' = Lined(j)
      BY <1>0, <1>8, StartKeepsOrder, Zenon DEF StartNext
  <2> QED
      BY <1>8, <2>1, Zenon DEF StartNext, ExitInv, queueVars, workerVars
<1>9. ASSUME NEW e \in running, Finish(e) PROVE ExitInv'
  <2>1. \A j : Lined(j)' = Lined(j)
      BY <1>9, Zenon DEF Finish, Lined, LaneOf
  <2>2. exit = "none"
      BY <1>9, Zenon DEF Finish, PhaseInv
  <2> QED
      BY <1>9, <2>1, <2>2, Zenon DEF Finish, ExitInv, workerVars
<1>10. ASSUME Recv PROVE ExitInv'
    BY <1>10, Zenon DEF Recv, ExitInv, workerVars, history
<1>11. ASSUME RecvClosed PROVE ExitInv'
    BY <1>11, Zenon DEF RecvClosed, ExitInv, queueVars, history
<1>12. ASSUME Shutdown PROVE ExitInv'
  <2>1. phase # "drain" /\ phase # "collect"
      BY <1>12, Zenon DEF Shutdown, ExitInv
  <2> QED
      BY <1>0, <1>12, <2>1 DEF Shutdown, ExitInv, queueVars
<1>13. ASSUME SeeShutdown PROVE ExitInv'
    BY <1>13, Zenon DEF SeeShutdown, ExitInv, queueVars, history
<1>14. ASSUME Collect PROVE ExitInv'
  <2>1. CASE chan # <<>>
      BY <1>14, <2>1, Zenon DEF Collect, ExitInv, history
  <2>2. CASE chan = <<>>
    <3>1. \A j : Lined(j)' = Lined(j)
        BY <1>14, <2>2, Zenon DEF Collect, Lined, LaneOf, laneVars, history
    <3>2. \A k \in Keys : Lined(k) >= sent[k] /\ sentAtShutdown[k] <= sent[k]
        BY <1>0, <1>14, <2>2, EmptyIsLined, Zenon DEF Collect, ExitInv
    <3>3. \A k \in Keys : sentAtShutdown'[k] <= Lined(k)'
        BY <1>0, <1>14, <3>1, <3>2 DEF Collect, history
    <3> QED
        BY <1>14, <2>2, <3>3, Zenon DEF Collect, ExitInv, history
  <2> QED
      BY <2>1, <2>2, Zenon
<1>15. ASSUME NEW how \in {"timeout", "panic"}, Stop(how) PROVE ExitInv'
    BY <1>15, Zenon DEF Stop, ExitInv, history
<1>16. ASSUME StopClean PROVE ExitInv'
  <2>1. Numbered /\ \A k \in Keys : handled[k] = Lined(k)
      BY <1>0, <1>16, IdleIsHandled, Zenon DEF StopClean
  <2>2. \A k \in Keys : handled[k] >= IF shutdown THEN sentAtShutdown[k] ELSE sent[k]
    <3>1. CASE phase = "drain"
        BY <1>0, <2>1, <3>1, Zenon DEF ExitInv
    <3>2. CASE ~receiverOpen
      <4>1. \A k \in Keys : Lined(k) >= sent[k]
          BY <2>1, <3>2, EmptyIsLined, Zenon DEF ExitInv
      <4> QED
          BY <1>0, <2>1, <4>1 DEF ExitInv
    <3> QED
        BY <1>16, <3>1, <3>2, Zenon DEF StopClean
  <2> QED
      BY <1>16, <2>2, Zenon DEF StopClean, Stop, ExitInv, history
<1>17. ASSUME UNCHANGED vars PROVE ExitInv'
  <2>1. \A j : Lined(j)' = Lined(j)
      BY <1>17, Zenon DEF vars, Lined, LaneOf, laneVars, history
  <2> QED
      BY <1>17, <2>1, Zenon DEF vars, ExitInv, queueVars, workerVars, history
<1> QED
    BY <1>2, <1>3, <1>4, <1>5, <1>6, <1>7, <1>8, <1>9, <1>10, <1>11, <1>12, <1>13, <1>14,
       <1>15, <1>16, <1>17, Zenon DEF Next, DrainTimeout, Panic

\* run_loop, drain: a worker that ends without a timeout or a panic has handled
\* every event accepted before its token was cancelled.
THEOREM CleanExitIsComplete == Spec => []CleanExitHandledAll
<1>1. FlowInv /\ ExitInv /\ [Next]_vars => ExitInv'
    BY ExitInvStep, Zenon
<1>2. ExitInv => CleanExitHandledAll
    BY Zenon DEF ExitInv, CleanExitHandledAll
<1> QED
    BY <1>1, <1>2, ExitInvInit, FlowInvariant, PTL DEF Spec

-----------------------------------------------------------------------------
(* The promise to the producers.  The mailbox of a key is the interval of   *)
(* the numbers sent and not started, so a send appends to it and a start    *)
(* takes its head.                                                          *)

Interval(a, b) == [i \in 1 .. b - a |-> a + i]

\* The next number sent goes to the back of the mailbox.
LEMMA IntervalAppend ==
    ASSUME NEW a \in Nat, NEW b \in Nat, a <= b
    PROVE  Interval(a, b + 1) = Append(Interval(a, b), b + 1)
<1>1. Interval(a, b) \in Seq(Nat) /\ Len(Interval(a, b)) = b - a
    BY DEF Interval
<1>2. Interval(a, b + 1) \in Seq(Nat) /\ Len(Interval(a, b + 1)) = b - a + 1
    BY DEF Interval
<1> QED
    BY <1>1, <1>2 DEF Interval

\* The next number started is the head of the mailbox.
LEMMA IntervalTail ==
    ASSUME NEW a \in Nat, NEW b \in Nat, a < b
    PROVE  /\ Interval(a, b) # <<>>
           /\ Head(Interval(a, b)) = a + 1
           /\ Tail(Interval(a, b)) = Interval(a + 1, b)
<1>1. Interval(a, b) \in Seq(Nat) /\ Len(Interval(a, b)) = b - a
    BY DEF Interval
<1>2. Interval(a + 1, b) \in Seq(Nat) /\ Len(Interval(a + 1, b)) = b - a - 1
    BY DEF Interval
<1>3. Interval(a, b) # <<>> /\ Head(Interval(a, b)) = a + 1
    BY <1>1 DEF Interval
<1>4. /\ Tail(Interval(a, b)) \in Seq(Nat)
      /\ Len(Tail(Interval(a, b))) = b - a - 1
      /\ \A i \in 1 .. b - a - 1 : Tail(Interval(a, b))[i] = Interval(a, b)[i + 1]
    BY <1>1, <1>3, HeadTailProperties, Zenon
<1>5. \A i \in 1 .. b - a - 1 : Tail(Interval(a, b))[i] = Interval(a + 1, b)[i]
    BY <1>4 DEF Interval
<1>6. Tail(Interval(a, b)) = Interval(a + 1, b)
    BY <1>2, <1>4, <1>5, SeqEqual, Zenon
<1> QED
    BY <1>3, <1>6, Zenon

\* While the worker lives, the handler of an active key is at the last number
\* started for it, and no other key is served.
ServedExactly ==
    \A k \in Keys : /\ Serving(k) = IF k \in active THEN started[k] ELSE 0
                    /\ k \in active => started[k] \in Nat \ {0}

LEMMA ServingIsStarted == FlowInv /\ phase # "stopped" => ServedExactly
<1> SUFFICES ASSUME FlowInv, phase # "stopped", NEW k \in Keys
             PROVE  /\ Serving(k) = IF k \in active THEN started[k] ELSE 0
                    /\ k \in active => started[k] \in Nat \ {0}
    BY Zenon DEF ServedExactly
<1>1. /\ active = {e.key : e \in running}
      /\ \A e \in running : e.n = started[e.key]
      /\ k \in active => handled[k] = started[k] - 1
      /\ started[k] \in Nat /\ handled[k] \in Nat
    BY Zenon DEF FlowInv, SchedInv, LaneInv, OneHandlerPerKey, OrderInv, Numbered, RunNumbers, TypeOK
<1>2. CASE k \in active
  <2>1. \E e \in running : e.key = k
      BY <1>1, <1>2, Zenon
  <2>2. (CHOOSE e \in running : e.key = k).n = started[k]
      BY <2>1, <1>1, Zenon
  <2> QED
      BY <1>1, <1>2, <2>1, <2>2 DEF Serving
<1>3. CASE k \notin active
    BY <1>1, <1>3, Zenon DEF Serving
<1> QED
    BY <1>2, <1>3, Zenon

\* The same one step later.
LEMMA ServingStaysStarted == FlowInv' /\ (phase # "stopped")' => ServedExactly'
    BY ServingIsStarted, PTL

\* The abstract state, named.
Mailboxes == [k \in Keys |-> Mailbox(k)]
Servings == [k \in Keys |-> Serving(k)]

\* Until the worker stops a mailbox is the interval after the last start.
LEMMA MailboxIsInterval ==
    phase # "stopped" => \A k \in Keys : Mailbox(k) = Interval(started[k], sent[k])
    BY Zenon DEF Mailbox, Interval

\* A send is a Submit.
LEMMA PushSubmits ==
    ASSUME FlowInv, FlowInv', NEW k \in Keys, Push(k), phase # "stopped",
           UNCHANGED <<laneVars, phase, started, handled>>
    PROVE  Abstract!Submit(k)
<1>1. sent' = [sent EXCEPT ![k] = sent[k] + 1] /\ sent \in [Keys -> Nat] /\ started \in [Keys -> Nat]
    BY Zenon DEF Push, FlowInv, SchedInv, LaneInv, TypeOK
<1>2. \A j \in Keys : started[j] <= sent[j]
  <2> SUFFICES ASSUME NEW j \in Keys PROVE started[j] <= sent[j]
      BY Zenon
  <2>1. Lined(j) <= sent[j] /\ Lined(j) = started[j] + Len(LaneOf(j)) /\ Len(LaneOf(j)) \in Nat
      BY LinedType, Zenon DEF FlowInv, SchedInv, LaneInv, OrderInv, Numbered, LinedBound, Lined
  <2> QED
      BY <2>1, <1>1
<1>3. \A j \in Keys : Mailbox(j) = Interval(started[j], sent[j])
    BY MailboxIsInterval, Zenon
<1>4. \A j \in Keys : Mailbox(j)' = Interval(started[j], sent'[j])
    BY Zenon DEF Mailbox, Interval
<1>5. Mailbox(k)' = Append(Mailbox(k), sent[k] + 1)
    BY <1>1, <1>2, <1>3, <1>4, IntervalAppend, Zenon
<1>6. \A j \in Keys : j # k => Mailbox(j)' = Mailbox(j)
    BY <1>1, <1>3, <1>4, Zenon
<1>7. Mailboxes' = [Mailboxes EXCEPT ![k] = Append(Mailboxes[k], sent[k] + 1)]
    BY <1>5, <1>6, Zenon DEF Mailboxes
<1>8. Servings' = Servings
    BY Zenon DEF Servings, Serving, laneVars
<1> QED
    BY <1>1, <1>7, <1>8, Zenon DEF Abstract!Submit, Mailboxes, Servings

\* A start is a Begin of the key it takes.
LEMMA StartBegins ==
    ASSUME FlowInv, FlowInv', StartNext
    PROVE  Head(ready) \in Keys /\ Abstract!Begin(Head(ready))
<1>1. PICK k \in Keys : k = Head(ready)
    BY StartNextTakes, Zenon DEF FlowInv, SchedInv
<1>2. SchedInv /\ Numbered /\ phase # "stopped" /\ phase' = phase /\ sent' = sent
    BY Zenon DEF StartNext, FlowInv, OrderInv, workerVars
<1>3. /\ k \notin active
      /\ active' = active \cup {k}
      /\ started' = [started EXCEPT ![k] = started[k] + 1]
      /\ started \in [Keys -> Nat] /\ sent \in [Keys -> Nat]
    BY <1>1, <1>2, StartNextTakes, StartKeepsOrder, Zenon DEF StartNext, SchedInv, LaneInv, TypeOK
<1>4. started[k] < sent[k]
  <2>1. k \in DOMAIN waiting /\ waiting[k] \in Seq(Events) /\ waiting[k] # <<>>
      BY <1>1, StartNextTakes, Zenon DEF FlowInv, SchedInv
  <2>2. LaneOf(k) = waiting[k] /\ Len(waiting[k]) \in Nat \ {0}
      BY <2>1, ElementsTail, Zenon DEF LaneOf
  <2>3. started[k] + Len(waiting[k]) <= sent[k]
      BY <1>2, <2>2, Zenon DEF Numbered, LinedBound, Lined
  <2> QED
      BY <2>2, <2>3, <1>3
<1>5. \A j \in Keys : Mailbox(j) = Interval(started[j], sent[j])
    BY <1>2, MailboxIsInterval, Zenon
<1>6. \A j \in Keys : Mailbox(j)' = Interval(started'[j], sent[j])
    BY <1>2, Zenon DEF Mailbox, Interval
<1>7. /\ Mailbox(k) # <<>>
      /\ Head(Mailbox(k)) = started[k] + 1
      /\ Mailbox(k)' = Tail(Mailbox(k))
  <2>1. started[k] \in Nat /\ sent[k] \in Nat /\ started'[k] = started[k] + 1
      BY <1>3, Zenon
  <2>2. Mailbox(k) = Interval(started[k], sent[k]) /\ Mailbox(k)' = Interval(started[k] + 1, sent[k])
      BY <2>1, <1>5, <1>6, Zenon
  <2> QED
      BY <2>1, <2>2, <1>4, IntervalTail
<1>8. \A j \in Keys : j # k => Mailbox(j)' = Mailbox(j)
    BY <1>3, <1>5, <1>6, Zenon
<1>9. Mailboxes' = [Mailboxes EXCEPT ![k] = Tail(Mailboxes[k])]
    BY <1>7, <1>8, Zenon DEF Mailboxes
<1>10. \A j \in Keys : Serving(j) = IF j \in active THEN started[j] ELSE 0
    BY <1>2, ServingIsStarted, Zenon DEF ServedExactly
<1>11. \A j \in Keys : Serving(j)' = IF j \in active' THEN started'[j] ELSE 0
    BY <1>2, ServingStaysStarted, Zenon DEF ServedExactly
<1>12. Serving(k) = 0 /\ Serving(k)' = started[k] + 1
    BY <1>3, <1>10, <1>11, Zenon
<1>13. \A j \in Keys : j # k => Serving(j)' = Serving(j)
    BY <1>3, <1>10, <1>11, Zenon
<1>14. Servings' = [Servings EXCEPT ![k] = Head(Mailboxes[k])]
    BY <1>7, <1>12, <1>13, Zenon DEF Servings, Mailboxes
<1>15. Servings[k] = 0 /\ Mailboxes[k] # <<>>
    BY <1>7, <1>12, Zenon DEF Servings, Mailboxes
<1> QED
    BY <1>1, <1>2, <1>9, <1>14, <1>15, Zenon DEF Abstract!Begin, Mailboxes, Servings

\* A handler that ends is an End of its key.
LEMMA FinishEnds ==
    ASSUME FlowInv, FlowInv', NEW e \in running, Finish(e)
    PROVE  e.key \in Keys /\ Abstract!End(e.key)
<1>1. PICK k \in Keys : k = e.key
    BY Zenon DEF FlowInv, SchedInv, LaneInv, TypeOK, Events
<1>2. phase # "stopped" /\ phase' = phase /\ sent' = sent /\ started' = started
    BY Zenon DEF Finish, workerVars
<1>3. k \in active /\ active' = active \ {k}
    BY <1>1, Zenon DEF Finish, FlowInv, SchedInv, LaneInv, OneHandlerPerKey
<1>4. Mailboxes' = Mailboxes
    BY <1>2, Zenon DEF Mailboxes, Mailbox
<1>5. \A j \in Keys : /\ Serving(j) = IF j \in active THEN started[j] ELSE 0
                      /\ j \in active => started[j] \in Nat \ {0}
    BY <1>2, ServingIsStarted, Zenon DEF ServedExactly
<1>6. \A j \in Keys : Serving(j)' = IF j \in active' THEN started'[j] ELSE 0
    BY <1>2, ServingStaysStarted, Zenon DEF ServedExactly
<1>7. Serving(k) # 0 /\ Serving(k)' = 0
    BY <1>3, <1>5, <1>6, Zenon
<1>8. \A j \in Keys : j # k => Serving(j)' = Serving(j)
    BY <1>2, <1>3, <1>5, <1>6, Zenon
<1>9. Servings' = [Servings EXCEPT ![k] = 0] /\ Servings[k] # 0
    BY <1>7, <1>8, Zenon DEF Servings
<1> QED
    BY <1>1, <1>2, <1>4, <1>9, Zenon DEF Abstract!End, Mailboxes, Servings

\* However the worker ends, it closes the service.
LEMMA StopCloses ==
    ASSUME NEW how, Stop(how), phase # "stopped"
    PROVE  Abstract!Close
<1>1. Mailboxes' = [k \in Keys |-> <<>>] /\ Servings' = [k \in Keys |-> 0] /\ sent' = sent
    BY Zenon DEF Stop, Mailboxes, Mailbox, Servings, Serving, history
<1> QED
    BY <1>1, Zenon DEF Abstract!Close, Stop, Mailboxes, Servings

\* The queue and the worker together implement one mailbox per key, served in
\* order and one item at a time (queue.rs, worker.rs), for any number of keys,
\* producers and handlers.
THEOREM SchedulerImplementsKeyedWork == Spec => ImplementsKeyedWork
<1>1. Init => Abstract!Init
  <2> SUFFICES ASSUME Init PROVE Abstract!Init
      BY Zenon
  <2>1. \A k \in Keys : Mailbox(k) = <<>>
    <3>1. \A k \in Keys : Mailbox(k) = [i \in 1 .. 0 |-> 0 + i]
        BY DEF Init, Mailbox
    <3>2. [i \in 1 .. 0 |-> 0 + i] = <<>>
        OBVIOUS
    <3> QED
        BY <3>1, <3>2, Zenon
  <2>2. \A k \in Keys : Serving(k) = 0
      BY Zenon DEF Init, Serving
  <2> QED
      BY <2>1, <2>2, Zenon DEF Init, Abstract!Init
<1>2. FlowInv /\ FlowInv' /\ [Next]_vars => [Abstract!Next]_(Abstract!vars)
  <2> SUFFICES ASSUME FlowInv, FlowInv', [Next]_vars
               PROVE  Abstract!Next \/ UNCHANGED <<Mailboxes, Servings, sent, phase # "stopped">>
      BY Zenon DEF Abstract!vars, Mailboxes, Servings
  <2>0. rxOpen <=> phase # "stopped"
      BY Zenon DEF FlowInv, PhaseInv
  <2>1. ASSUME NEW k \in Keys, TrySend(k) PROVE Abstract!Submit(k)
      BY <2>0, <2>1, PushSubmits, Zenon DEF TrySend, workerVars
  <2>2. ASSUME NEW p \in Producers, SendFinish(p), rxOpen
        PROVE  producer[p].key \in Keys /\ Abstract!Submit(producer[p].key)
    <3>1. producer[p].key \in Keys
        BY <2>2 DEF SendFinish, FlowInv, SchedInv, LaneInv, TypeOK
    <3>2. Push(producer[p].key) /\ UNCHANGED <<laneVars, phase, started, handled>>
        BY <2>2, Zenon DEF SendFinish, workerVars
    <3> QED
        BY <2>0, <2>2, <3>1, <3>2, PushSubmits, Zenon
  <2>3. ASSUME StartNext PROVE Head(ready) \in Keys /\ Abstract!Begin(Head(ready))
      BY <2>3, StartBegins, Zenon
  <2>4. ASSUME NEW e \in running, Finish(e) PROVE e.key \in Keys /\ Abstract!End(e.key)
      BY <2>4, FinishEnds, Zenon
  <2>5. ASSUME StopClean \/ DrainTimeout \/ Panic PROVE Abstract!Close
      BY <2>5, StopCloses, Zenon DEF StopClean, DrainTimeout, Panic
  <2>6. ASSUME \/ \E p \in Producers, k \in Keys : SendBegin(p, k)
               \/ Grant
               \/ \E p \in Producers : SendFinish(p) /\ ~rxOpen
               \/ \E p \in Producers : SendCancel(p)
               \/ DropSenders
               \/ Recv
               \/ RecvClosed
               \/ Shutdown
               \/ SeeShutdown
               \/ Collect
               \/ UNCHANGED vars
        PROVE  UNCHANGED <<Mailboxes, Servings, sent, phase # "stopped">>
    <3>1. UNCHANGED <<running, sent, started, phase # "stopped">>
        BY <2>6, Zenon DEF SendBegin, Grant, SendFinish, SendCancel, DropSenders, Recv, RecvClosed, Shutdown,
                    SeeShutdown, Collect, Accept, laneVars, workerVars, history, vars
    <3>2. UNCHANGED Mailboxes
        BY <3>1, Zenon DEF Mailboxes, Mailbox
    <3>3. UNCHANGED Servings
        BY <3>1, Zenon DEF Servings, Serving
    <3> QED
        BY <3>1, <3>2, <3>3, Zenon
  <2>7. CASE \E k \in Keys : Abstract!Submit(k) \/ Abstract!Begin(k) \/ Abstract!End(k)
      BY <2>7, Zenon DEF Abstract!Next
  <2>8. CASE Abstract!Close
      BY <2>8, Zenon DEF Abstract!Next
  <2> QED
      BY <2>1, <2>2, <2>3, <2>4, <2>5, <2>6, <2>7, <2>8, Zenon DEF Next
<1> QED
    BY <1>1, <1>2, FlowInvariant, PTL DEF Spec, ImplementsKeyedWork, Abstract!Spec
=============================================================================
