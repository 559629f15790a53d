-------------------------- MODULE StorageContract -------------------------
(***************************************************************************)
(* What every storage backend promises: the preconditions of a request, and *)
(* the in-memory backend, which is the contract in its shortest form.       *)
(***************************************************************************)
EXTENDS Integers, Sequences, SequencesExt, FiniteSets

(***************************************************************************)
(* Conditional requests as the backends that have no server behind them    *)
(* judge them (core/conditional.rs, core/preconditions.rs).  An entity tag *)
(* is [weak, tag]; an If-Match or If-None-Match header is a sequence of    *)
(* them or Star; a date is a number of seconds or Malformed.                *)
(***************************************************************************)
CONSTANTS None, Malformed   \* no value; a date that is not one

Strong(tag) == [weak |-> FALSE, tag |-> tag]
Star == <<Strong("*")>>
NoHeaders == [ifMatch |-> None, ifNoneMatch |-> None, modified |-> None, unmodified |-> None]

(* for_read: a date whose entity tag counterpart is present is dropped.    *)
ForReadAll(h) == h
ForRead(h) == [h EXCEPT !.modified = IF h.ifNoneMatch # None THEN None ELSE @,
                        !.unmodified = IF h.ifMatch # None THEN None ELSE @]

(* unix_seconds, of an instant in tenths of a second.                      *)
UnixSeconds(t) == t \div 10

MatchesIfMatch(etag, value) == value = Star \/ etag \in ToSet(value)
MatchesIfNoneMatch(etag, value) ==
  /\ etag # None
  /\ value = Star \/ \E t \in ToSet(value) : t.tag = etag.tag

EvaluateWrite(state, h) ==
  IF \/ h.ifMatch # None /\ ~(IF state = None THEN FALSE ELSE MatchesIfMatch(state.etag, h.ifMatch))
     \/ h.ifNoneMatch # None
        /\ MatchesIfNoneMatch(IF state = None THEN None ELSE state.etag, h.ifNoneMatch)
  THEN "PreconditionFailed" ELSE "Ok"

EvaluateRead(state, headers) ==
  LET h == ForRead(headers)
      seconds == UnixSeconds(state.mtime)
  IN  IF h.ifMatch # None /\ ~MatchesIfMatch(state.etag, h.ifMatch) THEN "PreconditionFailed"
      ELSE IF h.unmodified = Malformed THEN "Other"
      ELSE IF h.unmodified # None /\ seconds > h.unmodified THEN "PreconditionFailed"
      ELSE IF h.ifNoneMatch # None /\ MatchesIfNoneMatch(state.etag, h.ifNoneMatch) THEN "NotModified"
      ELSE IF h.modified = Malformed THEN "Other"
      ELSE IF h.modified # None /\ seconds <= h.modified THEN "NotModified"
      ELSE "Ok"

(* if_range_matches: an entity tag by the strong comparison, or a date.    *)
IfRangeMatches(ifRange, state) ==
  IF "tag" \in DOMAIN ifRange THEN ~ifRange.weak /\ ifRange = state.etag
  ELSE "date" \in DOMAIN ifRange /\ ifRange.date = UnixSeconds(state.mtime)
-----------------------------------------------------------------------------
(* What a client may conclude from the answer to a conditional read of an  *)
(* object it has a copy of (API.md, "Conditional requests"): 304 only when *)
(* a tag names the current bytes or, no tag being sent, nothing was        *)
(* written after the date's second; 412 never for an object the request's  *)
(* tags all name; and a second changed within the date's second is still   *)
(* told by its tag.  A copy and a date sent together never hide a change.  *)
ConditionsAreTrue(state, h) ==
  LET names(value) == value = Star \/ \E t \in ToSet(value) : t.tag = state.etag.tag
      answer == EvaluateRead(state, h)
      date(d) == d \notin {None, Malformed}
  IN  /\ answer = "NotModified" =>
           /\ h.ifNoneMatch # None => names(h.ifNoneMatch)
           /\ h.ifNoneMatch = None => date(h.modified) /\ UnixSeconds(state.mtime) <= h.modified
           /\ h.ifMatch # None => names(h.ifMatch)
      /\ answer = "Ok" =>
           /\ h.ifMatch # None => names(h.ifMatch)
           /\ h.ifMatch = None /\ date(h.unmodified) => UnixSeconds(state.mtime) <= h.unmodified
           /\ h.ifNoneMatch # None => ~names(h.ifNoneMatch)
      /\ answer = "PreconditionFailed" =>
           IF h.ifMatch # None THEN \E t \in ToSet(h.ifMatch) : t # state.etag ELSE date(h.unmodified)
      /\ answer = "Other" => (h.ifMatch = None /\ h.unmodified = Malformed)
                             \/ (h.ifNoneMatch = None /\ h.modified = Malformed)
      \* If-Match with the tag just read, and create-only, decide a write alone.
      /\ EvaluateWrite(state, [NoHeaders EXCEPT !.ifMatch = <<state.etag>>]) = "Ok"
      /\ EvaluateWrite(state, [h EXCEPT !.ifNoneMatch = Star]) = "PreconditionFailed"
      /\ EvaluateWrite(None, [NoHeaders EXCEPT !.ifNoneMatch = Star]) = "Ok"

-----------------------------------------------------------------------------
(***************************************************************************)
(* The Storage contract, as its smallest implementation keeps it: the      *)
(* in-memory store of core/src/testing.rs, which stands in for the real    *)
(* backends in the tests of every surface.  A store is a record: buckets,  *)
(* objects ([kb, key] to [body, type, mtime]), and whether it can be       *)
(* reached; an ETag is its body.  Each operator is one operation under the *)
(* store's lock and gives the result and the store it leaves.              *)
(***************************************************************************)
CONSTANTS ManifestKey,     \* KbManifest::KEY
          Before(_, _),    \* the byte order of keys
          HasPrefix(_, _), \* HasPrefix(key, prefix)
          MaxPage          \* 1000

WithKbs(kbs) == [buckets |-> kbs, objects |-> [k \in {} |-> k], reachable |-> TRUE]
SetReachable(store, reachable) == [store EXCEPT !.reachable = reachable]
At(kb, key) == [kb |-> kb, key |-> key]
Holds(store, kb, key) == At(kb, key) \in DOMAIN store.objects
StateOf(object) == [etag |-> Strong(object.body), mtime |-> object.mtime]
MetaOf(key, object, size) ==
  [key |-> key, size |-> size, modified |-> UnixSeconds(object.mtime), type |-> object.type,
   etag |-> object.body]

Keeps(store, result) == [result |-> result, store |-> store]
Gives(store, value) == [result |-> "Ok", value |-> value, store |-> store]
(* check_reachable, then require_bucket.                                   *)
CheckReachable(store) == IF store.reachable THEN "Ok" ELSE "BackendUnavailable"
RequireBucket(store, kb) ==
  IF CheckReachable(store) # "Ok" THEN CheckReachable(store)
  ELSE IF kb \in store.buckets THEN "Ok" ELSE "BucketNotFound"
Insert(store, kb, key, object) ==
  [store EXCEPT !.objects = [at \in DOMAIN @ \cup {At(kb, key)} |->
                               IF at = At(kb, key) THEN object ELSE @[at]]]

EnsureBucket(store, kb) ==
  IF CheckReachable(store) # "Ok" THEN Keeps(store, CheckReachable(store))
  ELSE Keeps([store EXCEPT !.buckets = @ \cup {kb}], "Ok")
Probe(store, kb) == Keeps(store, RequireBucket(store, kb))

(* A manifest is an object; one that cannot be read or does not validate   *)
(* is an outage, as on S3.  valid holds the bodies KbManifest::validate takes. *)
ReadManifest(store, kb, valid) ==
  LET refused == RequireBucket(store, kb)
  IN  IF refused # "Ok" THEN Keeps(store, refused)
      ELSE IF ~Holds(store, kb, ManifestKey) THEN Keeps(store, "NotFound")
      ELSE LET body == store.objects[At(kb, ManifestKey)].body
           IN  IF body \in valid THEN Gives(store, body) ELSE Keeps(store, "BackendUnavailable")
WriteManifest(store, kb, body, now) ==
  LET refused == RequireBucket(store, kb)
  IN  IF refused # "Ok" THEN Keeps(store, refused)
      ELSE Keeps(Insert(store, kb, ManifestKey, [body |-> body, type |-> "json", mtime |-> now]), "Ok")

HeadObject(store, kb, key, headers) ==
  LET refused == RequireBucket(store, kb)
  IN  IF refused # "Ok" THEN Keeps(store, refused)
      ELSE IF ~Holds(store, kb, key) THEN Keeps(store, "NotFound")
      ELSE LET object == store.objects[At(kb, key)]
               judged == EvaluateRead(StateOf(object), headers)
           IN  IF judged # "Ok" THEN Keeps(store, judged)
               ELSE Gives(store, MetaOf(key, object, Len(object.body)))

(* resolve_range; a range is [from, to), or None.                          *)
ResolveRange(total, range) ==
  CASE range = None -> [from |-> 0, to |-> total]
    [] range # None /\ range.from < total -> [range EXCEPT !.to = IF @ > total THEN total ELSE @]
    [] OTHER -> None
GetObject(store, kb, key, range, headers) ==
  LET head == HeadObject(store, kb, key, headers)
      body == store.objects[At(kb, key)].body
      cut == ResolveRange(Len(body), range)
  IN  IF head.result # "Ok" THEN head
      ELSE IF cut = None THEN Keeps(store, "RangeNotSatisfiable")
      ELSE Gives(store, [meta |-> [head.value EXCEPT !.size = cut.to - cut.from],
                         body |-> SubSeq(body, cut.from + 1, cut.to)])

PutObject(store, kb, key, body, type, headers, now) ==
  LET refused == RequireBucket(store, kb)
      held == Holds(store, kb, key)
      judged == EvaluateWrite(IF held THEN StateOf(store.objects[At(kb, key)]) ELSE None, headers)
  IN  IF refused # "Ok" THEN Keeps(store, refused)
      ELSE IF judged # "Ok" THEN Keeps(store, judged)
      ELSE Gives(Insert(store, kb, key, [body |-> body, type |-> type, mtime |-> now]),
                 [etag |-> body, created |-> ~held])

(* copy_object: the source's If-Match, then the destination's If-None-Match*)
CopyObject(store, kb, source, destination, options, now) ==
  LET refused == RequireBucket(store, kb)
      object == store.objects[At(kb, source)]
      type == IF options.type # None THEN options.type ELSE object.type
  IN  IF refused # "Ok" THEN Keeps(store, refused)
      ELSE IF ~Holds(store, kb, source) THEN Keeps(store, "NotFound")
      ELSE IF options.sourceIfMatch # None
              /\ ~MatchesIfMatch(Strong(object.body), options.sourceIfMatch)
      THEN Keeps(store, "PreconditionFailed")
      ELSE PutObject(store, kb, destination, object.body, type,
                     [NoHeaders EXCEPT !.ifNoneMatch = options.destinationIfNoneMatch], now)

DeleteObject(store, kb, key, headers) ==
  LET refused == RequireBucket(store, kb)
      held == Holds(store, kb, key)
      matches == held /\ MatchesIfMatch(Strong(store.objects[At(kb, key)].body), headers.ifMatch)
  IN  IF refused # "Ok" THEN Keeps(store, refused)
      ELSE IF headers.ifMatch # None /\ ~matches THEN Keeps(store, "PreconditionFailed")
      ELSE Gives([store EXCEPT !.objects = [at \in DOMAIN @ \ {At(kb, key)} |-> @[at]]],
                 IF held THEN "Deleted" ELSE "NotFound")

ListObjectsFromCursor(store, kb, prefix, limit, cursor) ==   \* Mutant: the cursor's key again
  LET all == SetToSortSeq({k \in {at.key : at \in {at \in DOMAIN store.objects : at.kb = kb}} :
                             cursor # None => ~Before(k, cursor)}, Before)
      page == SubSeq(all, 1, IF Len(all) > limit THEN limit ELSE Len(all))
      next == IF Len(all) > limit /\ page # <<>> THEN Last(page) ELSE None
  IN  Gives(store, [rows |-> page, next |-> next, truncated |-> next # None])

(* list_objects: resumes after the cursor's key, whether or not that is    *)
(* still there.                                                            *)
ListObjects(store, kb, prefix, limit, cursor) ==
  LET refused == RequireBucket(store, kb)
      keys == {at.key : at \in {at \in DOMAIN store.objects : at.kb = kb}}
      matching == {k \in keys : /\ prefix # None => HasPrefix(k, prefix)
                                /\ cursor # None => Before(cursor, k)}
      all == SetToSortSeq(matching, Before)
      cap == IF limit > MaxPage THEN MaxPage ELSE limit
      page == SubSeq(all, 1, IF Len(all) > cap THEN cap ELSE Len(all))
      next == IF Len(all) > cap /\ page # <<>> THEN Last(page) ELSE None
  IN  IF refused # "Ok" THEN Keeps(store, refused)
      ELSE Gives(store, [rows |-> page, next |-> next, truncated |-> next # None])

\* The first three pages of a listing, each resumed at the cursor of the one before.
Paged(store, kb, limit) ==
  LET Page(cursor) == ListObjects(store, kb, None, limit, cursor).value
      first == Page(None)
      second == IF first.next = None THEN <<>> ELSE Page(first.next).rows
      third == IF first.next = None \/ Page(first.next).next = None THEN <<>>
               ELSE Page(Page(first.next).next).rows
  IN  first.rows \o second \o third

(* What the surfaces rely on: of two writes made on one version at most    *)
(* one takes effect, unless the first changed nothing; of two creations at *)
(* most one does, and none where the key is taken; a copy pinned to a      *)
(* version copies that version and leaves its source; what is deleted is   *)
(* not there; a download resumed under the tag of its first part is one    *)
(* version, and is refused, or begun again under If-Range, when another    *)
(* was written in between; the pages of a listing are the keys, once and   *)
(* in order; a manifest is read as it was written, unless it is not one;   *)
(* and a store out of reach, or a missing bucket, changes nothing          *)
(* (core/testing.rs MemoryStorage, the contract every backend is tested    *)
(* against).                                                               *)
ContractIsKept(store, kb, key, other, first, second, tag, limit) ==
  LET pinned == [NoHeaders EXCEPT !.ifMatch = <<Strong(tag)>>]
      create == [NoHeaders EXCEPT !.ifNoneMatch = Star]
      one(h) == PutObject(store, kb, key, first, "md", h, 1)
      two(h) == PutObject(one(h).store, kb, key, second, "md", h, 2)
      copy == CopyObject(store, kb, key, other,
                [sourceIfMatch |-> <<Strong(tag)>>, destinationIfNoneMatch |-> None, type |-> None], 1)
      gone == DeleteObject(store, kb, key, pinned)
      keys == {at.key : at \in DOMAIN store.objects}
      start == GetObject(store, kb, key, [from |-> 0, to |-> 1], NoHeaders)
      rest == GetObject(one(NoHeaders).store, kb, key, [from |-> 1, to |-> 9],
                        [NoHeaders EXCEPT !.ifMatch = <<Strong(start.value.meta.etag)>>])
      now == StateOf(one(NoHeaders).store.objects[At(kb, key)])
      manifest == WriteManifest(store, kb, first, 1).store
      lost == [store EXCEPT !.buckets = {}]
      refusals(s) == {PutObject(s, kb, key, first, "md", NoHeaders, 1), DeleteObject(s, kb, key, NoHeaders),
                      WriteManifest(s, kb, first, 1), Probe(s, kb)}
  IN  /\ start.result = "Ok" /\ rest.result = "Ok" => start.value.body \o rest.value.body = first
      /\ start.result = "Ok" => (IfRangeMatches(Strong(start.value.meta.etag), now)
                                   <=> rest.result # "PreconditionFailed")
      /\ ReadManifest(manifest, kb, {first}).value = first
      /\ ReadManifest(manifest, kb, {}).result = "BackendUnavailable"
      /\ \A r \in refusals(SetReachable(store, FALSE)) :
           r = Keeps(SetReachable(store, FALSE), "BackendUnavailable")
      /\ \A r \in refusals(lost) : r = Keeps(lost, "BucketNotFound")
      /\ Probe(EnsureBucket(lost, kb).store, kb).result = "Ok"
      /\ one(pinned).result = "Ok" => Holds(store, kb, key) /\ store.objects[At(kb, key)].body = tag
      /\ one(pinned).result = "Ok" /\ two(pinned).result = "Ok" => first = tag
      /\ two(create).result # "Ok" /\ (one(create).result = "Ok" <=> ~Holds(store, kb, key))
      /\ copy.result = "Ok" => /\ copy.store.objects[At(kb, other)].body = tag
                               /\ copy.store.objects[At(kb, key)].body = tag
      /\ gone.result = "Ok" => ~Holds(gone.store, kb, key) /\ one(pinned).result = "Ok"
      /\ Cardinality(keys) <= 3 * limit => Paged(store, kb, limit) = SetToSortSeq(keys, Before)
=============================================================================
