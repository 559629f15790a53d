------------------------ MODULE ObjectRewriteProofs ------------------------
(***************************************************************************)
(* Proofs about ObjectRewrite, for any number of clients, any texts and any *)
(* splices.                                                                 *)
(***************************************************************************)
EXTENDS ObjectRewrite, TLAPS, SequenceTheorems

-----------------------------------------------------------------------------
(* One client's request.  What the proofs say of a client depends on its    *)
(* own fields, on the object and on `since`, so a step of another client    *)
(* matters only where it changes the object.                                *)

Fields ==
    /\ DOMAIN pc = Clients /\ DOMAIN op = Clients /\ DOMAIN ifMatch = Clients
    /\ DOMAIN attempt = Clients /\ DOMAIN anchor = Clients /\ DOMAIN spliced = Clients
    /\ DOMAIN held = Clients /\ DOMAIN answer = Clients /\ DOMAIN since = Clients
    /\ attempt \in [Clients -> Nat] /\ since \in [Clients -> Nat]

\* The fields of client c are as they were; only `since` may have grown.
Rests(c) ==
    /\ pc'[c] = pc[c] /\ op'[c] = op[c] /\ ifMatch'[c] = ifMatch[c] /\ attempt'[c] = attempt[c]
    /\ anchor'[c] = anchor[c] /\ spliced'[c] = spliced[c] /\ held'[c] = held[c]
    /\ answer'[c] = answer[c]

Step(c) ==
    \/ AskRewrite(c) \/ HeadAnchor(c) \/ GetAnchored(c) \/ PutAnchored(c) \/ HeadSize(c)
    \/ Put(c) \/ Delete(c)
    \/ Download(c) \/ AskRest(c) \/ GetRest(c) \/ GetWhole(c)
    \/ Dropped(c)

\* Every field belongs to the clients, and stays a table of them.
LEMMA FieldsInit == Init => Fields
    BY DEF Init, Fields

\* The read of a range: there is no object, or the range is served, or the second
\* read decides (get_object, objects/read.rs).
LEMMA GetRestOutcome ==
    ASSUME NEW c, GetRest(c)
    PROVE  /\ pc[c] = "rest"
           /\ UNCHANGED <<object, op, ifMatch, attempt, anchor, since>>
           /\ \/ Ends(c, 404) /\ UNCHANGED <<spliced, held>>
              \/ /\ FromStartOpen(Len(held[c][2]), Len(object)) # None /\ object = ifMatch[c]
                 /\ \E h : held' = [held EXCEPT ![c] = h]
                 /\ Ends(c, 206) /\ UNCHANGED spliced
              \/ /\ \E v : spliced' = [spliced EXCEPT ![c] = v]
                 /\ pc' = [pc EXCEPT ![c] = "whole"]
                 /\ UNCHANGED <<answer, held>>
    BY Zenon DEF GetRest, asked

\* What a served range adds to the client's bytes: a slice of the version read.
LEMMA RangeIsOfTheRead ==
    ASSUME NEW c, GetRest(c)
    PROVE  \/ Ends(c, 404) /\ UNCHANGED <<spliced, held>>
           \/ /\ FromStartOpen(Len(held[c][2]), Len(object)) # None /\ object = ifMatch[c]
              /\ held' = [held EXCEPT ![c] =
                   <<object, held[c][2] \o Slice(object, FromStartOpen(Len(held[c][2]), Len(object)))>>]
              /\ Ends(c, 206) /\ UNCHANGED spliced
           \/ pc' = [pc EXCEPT ![c] = "whole"] /\ UNCHANGED <<answer, held>>
    BY Zenon DEF GetRest, asked

\* A step of c leaves the other clients' fields alone (each request has its own
\* handler), and counts a change of the object against every request under way.
LEMMA StepIsOwn ==
    ASSUME Fields, NEW c \in Clients, Step(c)
    PROVE  /\ Fields'
           /\ \A d \in Clients : d # c => Rests(d)
           /\ \A d \in Clients : d # c => since'[d] >= since[d]
           /\ object' # object => \A d \in Clients : d # c => since'[d] = since[d] + 1
<1> USE DEF Fields, Rests
<1>1. CASE AskRewrite(c)
    BY <1>1 DEF AskRewrite, Begin
<1>2. CASE HeadAnchor(c)
    BY <1>2 DEF HeadAnchor, Ends, asked
<1>3. CASE GetAnchored(c)
    BY <1>3 DEF GetAnchored, Ends, Conflict, asked
<1>4. CASE PutAnchored(c)
    BY <1>4 DEF PutAnchored, Ends, Conflict, Becomes, asked
<1>5. CASE HeadSize(c)
    BY <1>5 DEF HeadSize, Ends, asked
<1>6. ASSUME NEW new, NEW tag, NEW createOnly, Store(c, new, tag, createOnly)
      PROVE  /\ Fields'
             /\ \A d \in Clients : d # c => Rests(d)
             /\ \A d \in Clients : d # c => since'[d] >= since[d]
             /\ object' # object => \A d \in Clients : d # c => since'[d] = since[d] + 1
    BY <1>6 DEF Store, Becomes
<1>7. CASE Put(c)
    BY <1>6, <1>7, Zenon DEF Put
<1>8. CASE Delete(c)
    BY <1>6, <1>8, Zenon DEF Delete
<1>9. CASE Download(c)
    BY <1>9 DEF Download
<1>10. CASE AskRest(c)
    BY <1>10 DEF AskRest, Begin
<1>11. CASE GetRest(c)
    BY <1>11, GetRestOutcome DEF Ends
<1>12. CASE GetWhole(c)
    BY <1>12 DEF GetWhole, Ends, asked
<1>13. CASE Dropped(c)
    BY <1>13 DEF Dropped, Ends, asked
<1> QED
    BY <1>1, <1>2, <1>3, <1>4, <1>5, <1>7, <1>8, <1>9, <1>10, <1>11, <1>12, <1>13, Zenon DEF Step

-----------------------------------------------------------------------------
(* Compare and swap.  The bytes a rewrite is about to store are the splice   *)
(* of its anchor, and the anchor is what the caller named, so a PUT that     *)
(* finds the anchor stored replaces exactly what it has read.                *)

Anchored(c) ==
    /\ pc[c] # "idle" => answer[c] = None
    /\ pc[c] \in {"get", "put"} => anchor[c] # NoObject /\ ifMatch[c] \in {None, anchor[c]}
    /\ pc[c] = "put" => spliced[c] = Apply(op[c], anchor[c])

\* The first request begins with nothing anchored.
LEMMA AnchoredInit == Init => \A c \in Clients : Anchored(c)
    BY Zenon DEF Init, Anchored

\* The request that steps keeps its anchor and its splice in line (head_anchor,
\* the GET and the PUT of cas_rewrite); every other request keeps both.
LEMMA AnchoredStep ==
    ASSUME Fields, NEW c \in Clients, Step(c), \A d \in Clients : Anchored(d)
    PROVE  \A d \in Clients : Anchored(d)'
<1> USE DEF Fields
<1>o. ASSUME NEW d \in Clients, d # c PROVE Anchored(d)'
    BY <1>o, StepIsOwn DEF Anchored, Rests
<1>c. Anchored(c)'
  <2>1. CASE AskRewrite(c)
      BY <2>1 DEF AskRewrite, Begin, Anchored
  <2>2. CASE HeadAnchor(c)
      BY <2>2 DEF HeadAnchor, Ends, asked, Anchored
  <2>3. CASE GetAnchored(c)
      BY <2>3 DEF GetAnchored, Ends, Conflict, asked, Anchored
  <2>4. CASE PutAnchored(c)
      BY <2>4, Zenon DEF PutAnchored, Ends, Conflict, asked, Anchored
  <2>5. CASE HeadSize(c)
      BY <2>5, Zenon DEF HeadSize, Ends, asked, Anchored
  <2>6. ASSUME NEW new, NEW tag, NEW createOnly, Store(c, new, tag, createOnly) PROVE Anchored(c)'
      BY <2>6, Zenon DEF Store, Anchored
  <2>7. CASE Put(c) \/ Delete(c)
      BY <2>6, <2>7, Zenon DEF Put, Delete
  <2>8. CASE Download(c)
      BY <2>8, Zenon DEF Download, Anchored
  <2>9. CASE AskRest(c)
      BY <2>9, Zenon DEF AskRest, Begin, Anchored
  <2>10. CASE GetRest(c)
      BY <2>10, GetRestOutcome DEF Ends, Anchored
  <2>11. CASE GetWhole(c)
      BY <2>11, Zenon DEF GetWhole, Ends, asked, Anchored
  <2>12. CASE Dropped(c)
      BY <2>12, Zenon DEF Dropped, Ends, asked, Anchored
  <2> QED
      BY <2>1, <2>2, <2>3, <2>4, <2>5, <2>7, <2>8, <2>9, <2>10, <2>11, <2>12, Zenon DEF Step
<1> QED
    BY <1>o, <1>c, Zenon

RewriteInv == Fields /\ \A c \in Clients : Anchored(c)

\* A step of the system is a step of one client.
LEMMA NextIsAStep == Next => \E c \in Clients : Step(c)
    BY Zenon DEF Next, Step

\* Every state of a rewrite is anchored.
THEOREM RewriteInvariant == Spec => []RewriteInv
<1>1. Init => RewriteInv
    BY FieldsInit, AnchoredInit, Zenon DEF RewriteInv
<1>2. RewriteInv /\ [Next]_vars => RewriteInv'
  <2> SUFFICES ASSUME RewriteInv, [Next]_vars PROVE RewriteInv'
      BY Zenon
  <2>1. ASSUME NEW c \in Clients, Step(c) PROVE RewriteInv'
      BY <2>1, StepIsOwn, AnchoredStep, Zenon DEF RewriteInv
  <2>2. CASE UNCHANGED vars
      BY <2>2, Zenon DEF vars, RewriteInv, Fields, Anchored
  <2> QED
      BY <2>1, <2>2, NextIsAStep, Zenon
<1> QED
    BY <1>1, <1>2, PTL DEF Spec

\* cas_rewrite (commit.rs): a PATCH, an append or a replace that is acknowledged
\* changed the object in one step from what was stored, whatever the other
\* requests did between its HEAD, its GET and its PUT.
THEOREM AcknowledgedRewritesAreAtomic == Spec => RewritesAreAtomic
<1> DEFINE Atomic == \A c \in Clients :
                       Lands(c) => /\ object # NoObject
                                   /\ ifMatch[c] \in {None, object}
                                   /\ object' = Apply(op[c], object)
<1>1. RewriteInv /\ [Next]_vars => [Atomic]_vars
  <2> SUFFICES ASSUME RewriteInv, NEW c \in Clients, Step(c), NEW d \in Clients, Lands(d)
               PROVE  /\ object # NoObject
                      /\ ifMatch[d] \in {None, object}
                      /\ object' = Apply(op[d], object)
      BY NextIsAStep, Zenon
  <2>1. pc[d] = "put" /\ answer[d] = None /\ (pc'[d] = "size" \/ answer'[d] = 200)
      BY Zenon DEF Lands, RewriteInv, Anchored
  <2>2. d = c
      BY <2>1, StepIsOwn, NoneAssumption DEF RewriteInv, Rests
  <2>3. PutAnchored(c) \/ Dropped(c)
      BY <2>1, <2>2, Zenon DEF Step, AskRewrite, HeadAnchor, GetAnchored, HeadSize, Put, Delete, Store,
                        Download, AskRest, Begin, GetRest, GetWhole
  <2>4. CASE Dropped(c)
      BY <2>1, <2>2, <2>4, NoneAssumption DEF Dropped, Ends, RewriteInv, Fields
  <2>5. CASE PutAnchored(c)
    <3>1. ~(object # anchor[c] /\ Conflict(c))
        BY <2>1, <2>2, NoneAssumption DEF Conflict, Ends, RewriteInv, Fields
    <3>2. object = anchor[c] /\ object' = spliced[c]
        BY <3>1, <2>5, Zenon DEF PutAnchored, Becomes
    <3> QED
        BY <2>1, <2>2, <3>2, Zenon DEF RewriteInv, Anchored
  <2> QED
      BY <2>3, <2>4, <2>5, Zenon
<1> QED
    BY <1>1, RewriteInvariant, PTL DEF Spec, RewritesAreAtomic

-----------------------------------------------------------------------------
(* Retries.  A request counts an attempt at its HEAD; it can only be sent    *)
(* back to another one by a change it had not seen, and `since` has counted  *)
(* that change.                                                              *)

Counted(c) ==
    /\ pc[c] = "head" => attempt[c] <= since[c]
    /\ pc[c] \in {"get", "put"} =>
          attempt[c] <= since[c] + 1 /\ (object # anchor[c] => attempt[c] <= since[c])
    /\ op[c] # None /\ answer[c] = 412 /\ ifMatch[c] = None => since[c] >= 3

\* An attempt is paid for by a change of the object (Conflict of cas_rewrite).
LEMMA CountedStep ==
    ASSUME RewriteInv, NEW c \in Clients, Step(c), \A d \in Clients : Counted(d)
    PROVE  \A d \in Clients : Counted(d)'
<1> USE NoneAssumption DEF RewriteInv, Fields
<1>o. ASSUME NEW d \in Clients, d # c PROVE Counted(d)'
  <2>1. Rests(d) /\ since'[d] >= since[d] /\ (object' # object => since'[d] = since[d] + 1)
      BY <1>o, StepIsOwn, Zenon
  <2>2. since'[d] \in Nat /\ since[d] \in Nat /\ attempt[d] \in Nat
      BY StepIsOwn, Zenon
  <2> QED
      BY <2>1, <2>2 DEF Counted, Rests
<1>c. Counted(c)'
  <2>0. attempt[c] \in Nat /\ since[c] \in Nat /\ Counted(c) /\ Anchored(c)
      BY Zenon
  <2>1. CASE AskRewrite(c)
      BY <2>0, <2>1 DEF AskRewrite, Begin, Counted
  <2>2. CASE HeadAnchor(c)
      BY <2>0, <2>2 DEF HeadAnchor, Ends, asked, Counted, Anchored
  <2>3. CASE GetAnchored(c)
      BY <2>0, <2>3 DEF GetAnchored, Ends, Conflict, MaxAttempts, asked, Counted, Anchored
  <2>4. CASE PutAnchored(c)
      BY <2>0, <2>4 DEF PutAnchored, Ends, Conflict, MaxAttempts, Becomes, asked, Counted, Anchored
  <2>5. CASE HeadSize(c)
      BY <2>0, <2>5 DEF HeadSize, Ends, asked, Counted, Anchored
  <2>6. ASSUME NEW new, NEW tag, NEW createOnly, Store(c, new, tag, createOnly) PROVE Counted(c)'
      BY <2>0, <2>6 DEF Store, Counted
  <2>7. CASE Put(c) \/ Delete(c)
      BY <2>6, <2>7, Zenon DEF Put, Delete
  <2>8. CASE Download(c)
      BY <2>0, <2>8 DEF Download, Counted
  <2>9. CASE AskRest(c)
      BY <2>0, <2>9 DEF AskRest, Begin, Counted
  <2>10. CASE GetRest(c)
      BY <2>0, <2>10, GetRestOutcome DEF Ends, Counted, Anchored
  <2>11. CASE GetWhole(c)
      BY <2>0, <2>11 DEF GetWhole, Ends, asked, Counted, Anchored
  <2>12. CASE Dropped(c)
      BY <2>0, <2>12 DEF Dropped, Ends, asked, Counted, Anchored
  <2> QED
      BY <2>1, <2>2, <2>3, <2>4, <2>5, <2>7, <2>8, <2>9, <2>10, <2>11, <2>12, Zenon DEF Step
<1> QED
    BY <1>o, <1>c, Zenon

\* commit.rs "only a rewrite without one (PATCH append) retries, at most twice": an
\* append is refused for a conflict only after the object changed three times under
\* it, however many clients write.
THEOREM AppendsGiveUpForCause == Spec => []GivesUpForCause
<1>1. Init => \A c \in Clients : Counted(c)
    BY NoneAssumption, Zenon DEF Init, Counted
<1>2. RewriteInv /\ (\A c \in Clients : Counted(c)) /\ [Next]_vars => (\A c \in Clients : Counted(c))'
  <2> SUFFICES ASSUME RewriteInv, \A c \in Clients : Counted(c), [Next]_vars
               PROVE  \A d \in Clients : Counted(d)'
      BY Zenon
  <2>1. ASSUME NEW c \in Clients, Step(c) PROVE \A d \in Clients : Counted(d)'
      BY <2>1, CountedStep, Zenon
  <2>2. CASE UNCHANGED vars
      BY <2>2 DEF vars, Counted
  <2> QED
      BY <2>1, <2>2, NextIsAStep, Zenon
<1>3. RewriteInv /\ (\A c \in Clients : Counted(c)) => GivesUpForCause
    BY DEF RewriteInv, Fields, Counted, GivesUpForCause
<1> QED
    BY <1>1, <1>2, <1>3, RewriteInvariant, PTL DEF Spec

-----------------------------------------------------------------------------
(* Downloads.  What a client holds is a beginning of the version it names:   *)
(* bytes are added to it only from that version.  Texts are sequences, and a  *)
(* splice of a text is a text again; what a line range or a replacement       *)
(* computes is recursive, so the latter is a hypothesis here.                 *)

SplicesAreTexts(Bytes) ==
    /\ Contents \subseteq Seq(Bytes)
    /\ \A splice \in Rewrites, t \in Seq(Bytes) : Apply(splice, t) \in Seq(Bytes) \cup {None}

IsHeld(Bytes, h) == \E t \in Seq(Bytes) : \E n \in 0 .. Len(t) : h = <<t, SubSeq(t, 1, n)>>

Texts(Bytes, c) ==
    /\ held[c] # None => IsHeld(Bytes, held[c])
    /\ pc[c] = "rest" => held[c] # None /\ ifMatch[c] = held[c][1]
    /\ pc[c] \in {"head", "get", "put"} => op[c] \in Rewrites
    /\ pc[c] = "put" => spliced[c] \in Seq(Bytes)

\* A range from where the client's bytes end to the end of the version completes them.
LEMMA RestCompletes ==
    ASSUME NEW Bytes, NEW t \in Seq(Bytes), NEW n \in 0 .. Len(t),
           FromStartOpen(Len(SubSeq(t, 1, n)), Len(t)) # None
    PROVE  IsHeld(Bytes, <<t, SubSeq(t, 1, n) \o Slice(t, FromStartOpen(Len(SubSeq(t, 1, n)), Len(t)))>>)
<1>1. Len(t) \in Nat /\ Len(SubSeq(t, 1, n)) = n
    BY SubSeqProperties, LenProperties
<1>2. n < Len(t) /\ FromStartOpen(n, Len(t)) = <<n, Len(t)>>
    BY <1>1 DEF FromStartOpen
<1>3. Slice(t, <<n, Len(t)>>) = SubSeq(t, n + 1, Len(t))
    BY Zenon DEF Slice
<1>4. SubSeq(t, 1, n) \o SubSeq(t, n + 1, Len(t)) = SubSeq(t, 1, Len(t))
  <2>1. 1 \in 1 .. Len(t) + 1 /\ n \in 1 - 1 .. Len(t) /\ Len(t) \in n .. Len(t)
      BY <1>1, <1>2
  <2> QED
      BY <2>1, ConcatAdjacentSubSeq, Zenon
<1>5. Len(t) \in 0 .. Len(t)
    BY <1>1
<1>6. SubSeq(t, 1, n) \o Slice(t, FromStartOpen(Len(SubSeq(t, 1, n)), Len(t))) = SubSeq(t, 1, Len(t))
    BY <1>1, <1>2, <1>3, <1>4, Zenon
<1> QED
    BY <1>5, <1>6, Zenon DEF IsHeld

\* A whole object, or any beginning of it, is held of that object.
LEMMA BeginningIsHeld ==
    ASSUME NEW Bytes, NEW t \in Seq(Bytes), NEW n \in 0 .. Len(t)
    PROVE  IsHeld(Bytes, <<t, SubSeq(t, 1, n)>>) /\ IsHeld(Bytes, <<t, t>>)
<1>1. Len(t) \in 0 .. Len(t)
    BY LenProperties
<1>2. SubSeq(t, 1, Len(t)) = t
    BY SubSeqFull, Zenon
<1> QED
    BY <1>1, <1>2, Zenon DEF IsHeld

\* What a request stores is a text: a PUT's body, or the splice of the object the
\* GET of cas_rewrite returned.
LEMMA ObjectStaysAText ==
    ASSUME NEW Bytes, SplicesAreTexts(Bytes), RewriteInv, object \in Seq(Bytes) \cup {NoObject},
           NEW c \in Clients, Step(c), Texts(Bytes, c)
    PROVE  object' \in Seq(Bytes) \cup {NoObject}
<1>1. CASE PutAnchored(c)
    BY <1>1, Zenon DEF PutAnchored, Becomes, Texts
<1>2. CASE Put(c)
    BY <1>2, Zenon DEF Put, Store, Becomes, SplicesAreTexts
<1>3. CASE Delete(c)
    BY <1>3, Zenon DEF Delete, Store, Becomes
<1>4. CASE UNCHANGED object
    BY <1>4, Zenon
<1> QED
    BY <1>1, <1>2, <1>3, <1>4, GetRestOutcome, Zenon
       DEF Step, AskRewrite, Begin, HeadAnchor, GetAnchored, HeadSize, Download, AskRest, GetWhole, Dropped

\* Bytes reach a client's copy from the version it names only: the read that If-Range
\* compares with is the read the bytes come from (get_object, objects/read.rs).
LEMMA TextsStep ==
    ASSUME NEW Bytes, SplicesAreTexts(Bytes), RewriteInv, object \in Seq(Bytes) \cup {NoObject},
           NEW c \in Clients, Step(c), \A d \in Clients : Texts(Bytes, d)
    PROVE  \A d \in Clients : Texts(Bytes, d)'
<1> USE DEF RewriteInv, Fields
<1>o. ASSUME NEW d \in Clients, d # c PROVE Texts(Bytes, d)'
    BY <1>o, StepIsOwn DEF Texts, Rests
<1>c. Texts(Bytes, c)'
  <2>0. Texts(Bytes, c) /\ Anchored(c)
      BY Zenon
  <2>1. CASE AskRewrite(c)
      BY <2>0, <2>1 DEF AskRewrite, Begin, Texts
  <2>2. CASE HeadAnchor(c)
      BY <2>0, <2>2 DEF HeadAnchor, Ends, asked, Texts
  <2>3. CASE GetAnchored(c)
    <3>1. CASE object = anchor[c]
      <4>1. Apply(op[c], object) \in Seq(Bytes) \cup {None}
          BY <2>0, <2>3, <3>1, Zenon DEF GetAnchored, Texts, Anchored, SplicesAreTexts
      <4> QED
          BY <2>0, <2>3, <3>1, <4>1, Zenon DEF GetAnchored, Ends, Conflict, asked, Texts
    <3>2. CASE object # anchor[c]
        BY <2>0, <2>3, <3>2, Zenon DEF GetAnchored, Ends, Conflict, asked, Texts
    <3> QED
        BY <3>1, <3>2, Zenon
  <2>4. CASE PutAnchored(c)
      BY <2>0, <2>4, Zenon DEF PutAnchored, Ends, Conflict, asked, Texts
  <2>5. CASE HeadSize(c)
      BY <2>0, <2>5 DEF HeadSize, Ends, asked, Texts
  <2>6. ASSUME NEW new, NEW tag, NEW createOnly, Store(c, new, tag, createOnly) PROVE Texts(Bytes, c)'
      BY <2>0, <2>6, Zenon DEF Store, Texts
  <2>7. CASE Put(c) \/ Delete(c)
      BY <2>6, <2>7, Zenon DEF Put, Delete
  <2>8. CASE Download(c)
    <3>1. pc[c] = "idle" /\ UNCHANGED <<pc, ifMatch, spliced>> /\ object \in Seq(Bytes)
        BY <2>8, Zenon DEF Download
    <3>2. PICK n \in 0 .. Len(object) : held' = [held EXCEPT ![c] = <<object, SubSeq(object, 1, n)>>]
        BY <2>8, Zenon DEF Download
    <3>3. IsHeld(Bytes, held'[c])
        BY <3>1, <3>2, BeginningIsHeld, Zenon
    <3> QED
        BY <3>1, <3>3, Zenon DEF Texts
  <2>9. CASE AskRest(c)
      BY <2>0, <2>9, Zenon DEF AskRest, Begin, Texts
  <2>10. CASE GetRest(c)
    <3>1. CASE Ends(c, 404) /\ UNCHANGED <<spliced, held>>
        BY <2>0, <2>10, <3>1, GetRestOutcome, Zenon DEF Ends, Texts
    <3>2. CASE pc' = [pc EXCEPT ![c] = "whole"] /\ UNCHANGED <<answer, held>>
        BY <2>0, <2>10, <3>2, GetRestOutcome, Zenon DEF Texts
    <3>3. ASSUME FromStartOpen(Len(held[c][2]), Len(object)) # None, object = ifMatch[c],
                 held' = [held EXCEPT ![c] =
                            <<object, held[c][2] \o Slice(object, FromStartOpen(Len(held[c][2]), Len(object)))>>],
                 Ends(c, 206), UNCHANGED spliced
          PROVE  Texts(Bytes, c)'
      <4>1. PICK t \in Seq(Bytes) : \E n \in 0 .. Len(t) : held[c] = <<t, SubSeq(t, 1, n)>>
          BY <2>0, <2>10, GetRestOutcome, Zenon DEF Texts, IsHeld
      <4>2. PICK n \in 0 .. Len(t) : held[c] = <<t, SubSeq(t, 1, n)>>
          BY <4>1, Zenon
      <4>3. object = t /\ held[c][2] = SubSeq(t, 1, n)
          BY <4>2, <3>3, <2>0, <2>10, GetRestOutcome DEF Texts
      <4>4. IsHeld(Bytes, <<object, held[c][2] \o Slice(object, FromStartOpen(Len(held[c][2]), Len(object)))>>)
          BY <4>3, <3>3, RestCompletes, Zenon
      <4>5. IsHeld(Bytes, held'[c])
          BY <4>4, <3>3, Zenon
      <4> QED
          BY <4>5, <3>3, <2>0, Zenon DEF Texts, Ends
    <3> QED
        BY <2>10, <3>1, <3>2, <3>3, RangeIsOfTheRead, Zenon
  <2>11. CASE GetWhole(c)
    <3>1. pc'[c] = "idle" /\ (held' = held \/ (object # NoObject /\ held'[c] = <<object, object>>))
        BY <2>11 DEF GetWhole, Ends
    <3>2. object # NoObject => IsHeld(Bytes, <<object, object>>)
        BY BeginningIsHeld, LenProperties
    <3> QED
        BY <2>0, <3>1, <3>2, Zenon DEF Texts
  <2>12. CASE Dropped(c)
      BY <2>0, <2>12, Zenon DEF Dropped, Ends, asked, Texts
  <2> QED
      BY <2>1, <2>2, <2>3, <2>4, <2>5, <2>7, <2>8, <2>9, <2>10, <2>11, <2>12, Zenon DEF Step
<1> QED
    BY <1>o, <1>c, Zenon

\* docs/API.md:445 "a concurrent write cannot mix versions": however downloads, their
\* resumptions and the writes of other clients interleave, what a client has put
\* together is a beginning of the one version whose ETag it holds.
THEOREM DownloadsAreOfOneVersion ==
    ASSUME NEW Bytes, SplicesAreTexts(Bytes)
    PROVE  Spec => []DownloadsNeverMix
<1> DEFINE TextInv == object \in Seq(Bytes) \cup {NoObject} /\ \A c \in Clients : Texts(Bytes, c)
<1>1. Init => TextInv
    BY NoneAssumption, Zenon DEF Init, Texts, SplicesAreTexts
<1>2. RewriteInv /\ TextInv /\ [Next]_vars => TextInv'
  <2> SUFFICES ASSUME RewriteInv, TextInv, [Next]_vars PROVE TextInv'
      BY Zenon
  <2>1. ASSUME NEW c \in Clients, Step(c) PROVE TextInv'
      BY <2>1, TextsStep, ObjectStaysAText, Zenon
  <2>2. CASE UNCHANGED vars
      BY <2>2, Zenon DEF vars, Texts
  <2> QED
      BY <2>1, <2>2, NextIsAStep, Zenon
<1>3. TextInv => DownloadsNeverMix
  <2> SUFFICES ASSUME NEW t \in Seq(Bytes), NEW n \in 0 .. Len(t)
               PROVE  /\ Len(SubSeq(t, 1, n)) <= Len(t)
                      /\ SubSeq(t, 1, n) = SubSeq(t, 1, Len(SubSeq(t, 1, n)))
      BY DEF DownloadsNeverMix, Texts, IsHeld
  <2>1. Len(SubSeq(t, 1, n)) = n
      BY SubSeqProperties, LenProperties
  <2> QED
      BY <2>1
<1> QED
    BY <1>1, <1>2, <1>3, RewriteInvariant, PTL DEF Spec
=============================================================================
