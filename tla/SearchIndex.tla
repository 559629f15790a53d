---------------------------- MODULE SearchIndex ---------------------------
(***************************************************************************)
(* The search side: a query, the vector store behind it, and the health    *)
(* record of the indexing that fills it.                                   *)
(***************************************************************************)
EXTENDS Integers, Sequences, FiniteSets, FiniteSetsExt, SequencesExt

(***************************************************************************)
(* One search of a knowledge base: the request is validated, its query     *)
(* embedded (with retries), the vector store asked for a window of points, *)
(* and the window filtered, ordered and cut to the page the caller gets.   *)
(* The caller may go away at any await.                                    *)
(*                                                                         *)
(* A point is a chunk: its object's key, where it starts, whether the      *)
(* native part of a filter matches it, and its ranks in the two searches   *)
(* that are fused (0 = not found by that one).                             *)
(***************************************************************************)
CONSTANTS None, Corpora, Requests, Grants,
          PrefetchFloor, FilteredPrefetchFloor, OverFetch, PrefetchCap,
          DefaultLimit, MaxLimit, MaxRetries, Broken

VARIABLES corpus,    \* the points of the knowledge base
          request,   \* what the caller asked
          grant,     \* the keys the caller may search, or None: all of them
          step, attempts, window,
          page       \* what the caller was answered: hits, or why not

searchVars == <<corpus, request, grant, step, attempts, window, page>>

(* SearchRequest::validate.                                                *)
Validate(r) == r.query = "fits" /\ r.limit # 0
Limit(r) == IF r.limit = None THEN DefaultLimit ELSE Min({r.limit, MaxLimit})

FetchWindow(limit, native, post) ==
  Min({PrefetchCap, Max({IF post THEN limit * OverFetch ELSE limit,
                         IF native THEN FilteredPrefetchFloor ELSE PrefetchFloor})})

(* translate_filter: the part the vector store can apply, and the key      *)
(* prefix it cannot.                                                       *)
Native(r) == r.native
PostMatches(r, p) == r.prefix = None \/ p.prefix = r.prefix
KeyAllowed(p) == grant = None \/ p.key \in grant

(* The vector store: each search contributes its nearest points among the  *)
(* ones the native filter lets through, ranked among themselves; the       *)
(* scores of the two rankings add up, and equal scores come in any order.  *)
Found(c, r, by, n) ==
  LET in == {p \in c : p.rank[by] > 0 /\ (Native(r) => p.native)}
  IN  {p \in in : Cardinality({q \in in : q.rank[by] < p.rank[by]}) < n}
RankScore(in, by, p, n) ==
  IF p \notin in THEN 0
  ELSE n + 1 - Cardinality({q \in in : q.rank[by] <= p.rank[by]})
Fused(c, r, n) ==
  LET d == Found(c, r, 1, n)
      s == Found(c, r, 2, n)
  IN  {[point |-> p, score |-> RankScore(d, 1, p, n) + RankScore(s, 2, p, n)] :
         p \in d \cup s}
Answers(c, r, n) ==
  {w \in SetToSeqs(Fused(c, r, n)) :
     \A i, j \in DOMAIN w : i < j => w[i].score >= w[j].score}

HitOrder(a, b) ==
  \/ a.score > b.score
  \/ a.score = b.score /\ a.point.key < b.point.key
  \/ a.score = b.score /\ a.point.key = b.point.key /\ a.point.start < b.point.start
SortHits(hits) == SortSeq(hits, HitOrder)
Retained(r, hits) == SelectSeq(hits, LAMBDA h : PostMatches(r, h.point) /\ KeyAllowed(h.point))
Truncated(hits, limit) == SubSeq(hits, 1, Min({Len(hits), limit}))

(* The tail of HybridSearcher::search; a point whose payload does not name *)
(* its object fails the whole search.                                      *)
PageOfTheFirst(r, hits) == SortHits(Retained(r, Truncated(hits, Limit(r))))
PageOf(r, hits) == Truncated(SortHits(Retained(r, hits)), Limit(r))
(* execute_search applies the grant once more to the page.                 *)
Backstop(hits) == SelectSeq(hits, LAMBDA h : KeyAllowed(h.point))
Readable(hits) == \A i \in DOMAIN hits : hits[i].point.key # Broken

Init ==
  /\ corpus \in Corpora /\ request \in Requests /\ grant \in Grants
  /\ step = "asked" /\ attempts = 0 /\ window = None /\ page = None

(* search_kb up to the searcher.                                           *)
Begin ==
  /\ step = "asked"
  /\ IF Validate(request) THEN step' = "embed" /\ page' = None
     ELSE step' = "done" /\ page' = [status |-> 400]
  /\ UNCHANGED <<corpus, request, grant, attempts, window>>

(* From<SearchError>: the status the caller sees.                          *)
Finish(status) == step' = "done" /\ page' = [status |-> status]

(* OpenAiCompatibleEmbedder::embed: 429 and 5xx, and a request that got no *)
(* answer, are tried again; any other answer ends it.                      *)
EmbedRetry ==
  /\ step = "embed" /\ attempts + 1 < MaxRetries
  /\ attempts' = attempts + 1
  /\ UNCHANGED <<corpus, request, grant, step, window, page>>
EmbedFail ==
  /\ step = "embed"
  /\ attempts' = attempts + 1
  /\ Finish(503)
  /\ UNCHANGED <<corpus, request, grant, window>>
EmbedOk ==
  /\ step = "embed"
  /\ attempts' = attempts + 1 /\ step' = "query"
  /\ UNCHANGED <<corpus, request, grant, window, page>>

Post(r) == r.prefix # None \/ grant # None
Query ==
  /\ step = "query"
  /\ \E w \in Answers(corpus, request, FetchWindow(Limit(request), Native(request), Post(request))) :
       /\ window' = w
       /\ IF Readable(w)
          THEN /\ step' = "done"
               /\ page' = [status |-> 200, hits |-> Backstop(PageOf(request, w))]
          ELSE Finish(500)
  /\ UNCHANGED <<corpus, request, grant, attempts>>
QueryFails ==
  /\ step = "query"
  /\ \E status \in {404, 503} : Finish(status)
  /\ UNCHANGED <<corpus, request, grant, attempts, window>>

(* The caller goes away while the handler awaits: the future is dropped.   *)
Abandoned ==
  /\ step \in {"embed", "query"}
  /\ step' = "done" /\ page' = [status |-> 0]
  /\ UNCHANGED <<corpus, request, grant, attempts, window>>

Next == Begin \/ EmbedRetry \/ EmbedFail \/ EmbedOk \/ Query \/ QueryFails \/ Abandoned
Spec == Init /\ [][Next]_searchVars

(* align_embeddings: an answer lists items, each naming the text it        *)
(* embeds; None when it is refused.                                        *)
AlignByPosition(items, sent) ==
  IF Len(items) # sent \/ \E i \in DOMAIN items : ~items[i].fits THEN None
  ELSE [i \in 1..sent |-> items[i].vector]
Align(items, sent) ==
  IF \/ Len(items) # sent
     \/ \E i \in DOMAIN items : items[i].index >= sent \/ ~items[i].fits
     \/ \E i, j \in DOMAIN items : i # j /\ items[i].index = items[j].index
  THEN None
  ELSE [i \in 1..sent |-> items[CHOOSE k \in DOMAIN items : items[k].index = i - 1].vector]

-----------------------------------------------------------------------------
(* What the caller asked of: every point the request and the grant let     *)
(* through, wherever the searches rank it.                                 *)
Acceptable == {p \in corpus : /\ \E by \in 1..2 : p.rank[by] > 0
                              /\ Native(request) => p.native
                              /\ PostMatches(request, p) /\ KeyAllowed(p)}

(* The page is the documented one: only acceptable hits, each once, in the *)
(* order score, key, start whatever order the store gave equal scores in,  *)
(* and full while the window held enough of them; with every candidate     *)
(* inside the window the page has limit hits or all there are.             *)
(* (hybrid.rs: "the page is then the first limit acceptable hits in the    *)
(* documented order, not whatever the backend happened to return first")   *)
PageIsTheDocumentedOne ==
  (page # None /\ page.status = 200) =>
    LET hits == page.hits
        shown == {hits[i].point : i \in DOMAIN hits}
        inWindow == {window[i] : i \in DOMAIN window}
        good == {h \in inWindow : h.point \in Acceptable}
        size == FetchWindow(Limit(request), Native(request), Post(request))
    IN  /\ shown \subseteq Acceptable /\ Cardinality(shown) = Len(hits)
        /\ \A i, j \in DOMAIN hits : i < j => HitOrder(hits[i], hits[j])
        /\ \A h \in good : h.point \in shown \/ \A i \in DOMAIN hits : HitOrder(hits[i], h)
        /\ Len(hits) = Min({Limit(request), Cardinality(good)})
        /\ Cardinality(corpus) <= size => Len(hits) = Min({Limit(request), Cardinality(Acceptable)})
        /\ (~Native(request) /\ ~Post(request)) =>
             Len(hits) = Min({Limit(request), Cardinality(Acceptable)})

(* Every text keeps the vector the provider named for it, whatever order   *)
(* the answer lists them in (align_embeddings, for search and indexing).   *)
TextsKeepTheirVectors(items, sent) ==
  LET a == Align(items, sent)
  IN  a # None => /\ DOMAIN a = 1..sent
                  /\ \A k \in DOMAIN items : a[items[k].index + 1] = items[k].vector

-----------------------------------------------------------------------------
(***************************************************************************)
(* The vector store twice over: as the Qdrant client asks for it (filters, *)
(* scroll pages, counts) and as the in-memory store every server test runs *)
(* on keeps it.  Both answer the same trait, so what the tests establish   *)
(* holds in production only as far as the two agree.                       *)
(*                                                                         *)
(* A collection maps point ids to points; a point is its payload (None for *)
(* a field it lacks), its width and its scores in the two searches.  An    *)
(* etag is a string, "" the one no object has.  While one caller reads the *)
(* indexed objects page by page, the worker writes and deletes points.     *)
(***************************************************************************)
CONSTANTS Ids, Width, ScrollPage, RrfK, Before(_, _), Starts, Batches, Selectors, MaxWrites

VARIABLES points,  \* the collection: a function from some of Ids
          scan,    \* the caller's scroll: the next id, what it has, whether it ended
          touched, \* the keys written or deleted since the scroll began
          writes

vectorVars == <<points, scan, touched, writes>>

Seen(ids) == SetToSortSeq(ids, <)
OfKey(ps, key) == {i \in DOMAIN ps : ps[i].key = key}
Essence(mime) == [essence |-> mime.essence, raw |-> mime.essence]
HasPrefix(key, prefix) == prefix = None \/ (key # None /\ IsPrefix(prefix, key))

-----------------------------------------------------------------------------
(* Both stores fold the chunks' etags of an object with merge_chunk_etag.  *)
Blank(etag) == IF etag = None THEN "" ELSE etag
MergeChunkEtag(byKey, key, etag) ==
  IF key \notin DOMAIN byKey THEN (key :> Blank(etag)) @@ byKey
  ELSE IF byKey[key] # Blank(etag) THEN [byKey EXCEPT ![key] = ""] ELSE byKey
Folded(byKey, ps, ids, prefix) ==
  FoldLeft(LAMBDA acc, i : IF ps[i].key # None /\ HasPrefix(ps[i].key, prefix)
                           THEN MergeChunkEtag(acc, ps[i].key, ps[i].etag) ELSE acc,
           byKey, Seen(ids))
Reported(byKey) ==
  LET keys == SetToSortSeq(DOMAIN byKey, Before)
  IN  [n \in DOMAIN keys |-> [key |-> keys[n], etag |-> byKey[keys[n]]]]
Empty == [k \in {} |-> ""]

-----------------------------------------------------------------------------
(* InMemoryVectorStore.                                                    *)

(* upsert_points: a dense vector of the wrong width ends the call; the     *)
(* points before it stay.                                                  *)
MemUpsert(ps, batch) ==
  LET wide == {n \in DOMAIN batch : batch[n].point.width \notin {None, Width}}
      good == IF wide = {} THEN batch ELSE SubSeq(batch, 1, Min(wide) - 1)
  IN  [ok |-> wide = {},
       points |-> FoldLeft(LAMBDA acc, b : (b.id :> b.point) @@ acc, ps, good)]
MemSelects(sel, p) ==
  /\ p.key = sel.key
  /\ sel.from # None => p.chunk # None /\ p.chunk >= sel.from
MemDelete(ps, sel) == Restrict(ps, {i \in DOMAIN ps : ~MemSelects(sel, ps[i])})
MemIndexedEtag(ps, key) ==
  LET mine == OfKey(ps, key)
  IN  IF mine = {} \/ ps[Min(mine)].etag = None THEN None
      ELSE IF \A i \in mine : ps[i].etag = ps[Min(mine)].etag THEN ps[Min(mine)].etag ELSE None
MemIndexedObjects(ps, prefix) == Reported(Folded(Empty, ps, DOMAIN ps, prefix))

MemMatches(p, f) ==
  /\ HasPrefix(p.key, f.prefix)
  /\ f.mime # None => p.mime \in {Essence(f.mime), f.mime}
  /\ f.concept # None => p.concept = f.concept
  /\ Len(p.heading) >= Len(f.heading) /\ SubSeq(p.heading, 1, Len(f.heading)) = f.heading
  /\ f.after # None => p.mtime # None /\ p.mtime >= f.after
  /\ f.before # None => p.mtime # None /\ p.mtime <= f.before
  /\ f.tags # {} => f.tags \cap p.tags # {}

(* ranked_ids, and Reciprocal Rank Fusion of the two rankings in whole     *)
(* numbers: Whole is divisible by every RrfK + rank.                       *)
RankedIds(score, limit) ==
  LET order == SetToSortSeq(DOMAIN score,
                 LAMBDA a, b : score[a] > score[b] \/ (score[a] = score[b] /\ a < b))
  IN  SubSeq(order, 1, Min({limit, Len(order)}))
Whole == FoldSet(LAMBDA r, acc : acc * (RrfK + r), 1, 1..Cardinality(Ids))
Share(ranked, i) ==
  IF i \in ToSet(ranked)
  THEN Whole \div (RrfK + (CHOOSE r \in DOMAIN ranked : ranked[r] = i)) ELSE 0
MemSearch(ps, f, prefetch, limit) ==
  LET in     == {i \in DOMAIN ps : MemMatches(ps[i], f)}
      dense  == RankedIds([i \in in |-> ps[i].dense], prefetch)
      sparse == RankedIds([i \in {j \in in : ps[j].sparse > 0} |-> ps[i].sparse], prefetch)
  IN  RankedIds([i \in ToSet(dense) \cup ToSet(sparse) |-> Share(dense, i) + Share(sparse, i)], limit)

-----------------------------------------------------------------------------
(* QdrantClient: the conditions it sends, and what Qdrant answers to them. *)
Matches(field, at, any) == [field |-> field, at |-> at, any |-> any, from |-> None, to |-> None]
Between(field, from, to) == [field |-> field, at |-> None, any |-> {}, from |-> from, to |-> to]
ValuesAt(p, c) ==
  CASE c.field = "object_key"   -> {p.key}
    [] c.field = "chunk_index"  -> {p.chunk}
    [] c.field = "etag"         -> {p.etag}
    [] c.field = "mime"         -> {p.mime}
    [] c.field = "okf.type"     -> {p.concept}
    [] c.field = "heading_path" -> IF c.at <= Len(p.heading) THEN {p.heading[c.at]} ELSE {}
    [] c.field = "mtime"        -> {p.mtime}
    [] c.field = "tags"         -> p.tags
Satisfies(p, c) ==
  IF c.from = None /\ c.to = None THEN (ValuesAt(p, c) \ {None}) \cap c.any # {}
  ELSE \E v \in ValuesAt(p, c) \ {None} : /\ c.from # None => v >= c.from
                                          /\ c.to # None => v <= c.to
Must(p, conditions) == \A c \in conditions : Satisfies(p, c)

SelectorFilterAfter(sel) ==
  {Matches("object_key", None, {sel.key})} \cup
  (IF sel.from = None THEN {} ELSE {Between("chunk_index", sel.from + 1, None)})
SelectorFilter(sel) ==
  {Matches("object_key", None, {sel.key})} \cup
  (IF sel.from = None THEN {} ELSE {Between("chunk_index", sel.from, None)})
QdrantDelete(ps, sel) == Restrict(ps, {i \in DOMAIN ps : ~Must(ps[i], SelectorFilter(sel))})

TranslateFilter(f) ==
  UNION {IF f.mime = None THEN {} ELSE {Matches("mime", None, {Essence(f.mime), f.mime})},
         IF f.concept = None THEN {} ELSE {Matches("okf.type", None, {f.concept})},
         {Matches("heading_path", n, {f.heading[n]}) : n \in DOMAIN f.heading},
         IF f.after = None THEN {} ELSE {Between("mtime", f.after, None)},
         IF f.before = None THEN {} ELSE {Between("mtime", None, f.before)},
         IF f.tags = {} THEN {} ELSE {Matches("tags", None, f.tags)}}
PostFilter(f, p) == HasPrefix(p.key, f.prefix)

(* Scroll: ScrollPage points from an id on, in id order, and the id of the *)
(* next batch while there is one.                                           *)
Scroll(ps, conditions, from, limit) ==
  LET rest == {i \in DOMAIN ps : i >= from /\ Must(ps[i], conditions)}
      batch == {i \in rest : Cardinality({j \in rest : j < i}) < limit}
  IN  [batch |-> batch, next |-> IF rest = batch THEN None ELSE Min(rest \ batch)]
Count(ps, must, mustNot) ==
  Cardinality({i \in DOMAIN ps : Must(ps[i], must) /\ \A c \in mustNot : ~Satisfies(ps[i], c)})
QdrantIndexedEtag(ps, key) ==
  LET mine == Matches("object_key", None, {key})
      one  == Scroll(ps, {mine}, Min(Ids), 1).batch
      etag == IF one = {} THEN None ELSE ps[Min(one)].etag
  IN  IF etag = None THEN None
      ELSE IF Count(ps, {mine}, {Matches("etag", None, {etag})}) = 0 THEN etag ELSE None

-----------------------------------------------------------------------------
(* QdrantClient::indexed_objects, a batch at a time, with the worker's      *)
(* writes in between.                                                      *)
BeginScan == [next |-> Min(Ids), found |-> Empty, done |-> FALSE]
IndexInit == points \in Starts /\ scan = BeginScan /\ touched = {} /\ writes = 0

ScanPageRestarts ==
  /\ ~scan.done
  /\ LET got == Scroll(points, {}, scan.next, ScrollPage)
     IN  scan' = [next |-> got.next, done |-> got.next = None,
                  found |-> Folded(Empty, points, got.batch, None)]
  /\ UNCHANGED <<points, touched, writes>>
ScanPage ==
  /\ ~scan.done
  /\ LET got == Scroll(points, {}, scan.next, ScrollPage)
     IN  scan' = [next |-> got.next, done |-> got.next = None,
                  found |-> Folded(scan.found, points, got.batch, None)]
  /\ UNCHANGED <<points, touched, writes>>
Upsert ==
  /\ writes < MaxWrites /\ ~scan.done
  /\ \E batch \in Batches :
       LET made == MemUpsert(points, batch)
       IN  /\ points' = made.points
           /\ touched' = touched \cup {batch[n].point.key : n \in DOMAIN batch}
                                 \cup {points[i].key : i \in {b.id : b \in ToSet(batch)} \cap DOMAIN points}
  /\ writes' = writes + 1
  /\ UNCHANGED scan
DeletePoints ==
  /\ writes < MaxWrites /\ ~scan.done
  /\ \E sel \in Selectors : points' = QdrantDelete(points, sel) /\ touched' = touched \cup {sel.key}
  /\ writes' = writes + 1
  /\ UNCHANGED scan
IndexNext == ScanPage \/ Upsert \/ DeletePoints
IndexSpec == IndexInit /\ [][IndexNext]_vectorVars

-----------------------------------------------------------------------------
(* A scroll that ran beside the worker still says of every object the      *)
(* worker left alone exactly what its chunks say, wherever the pages cut   *)
(* between them: reconciliation repairs nothing that is right and misses   *)
(* nothing that was wrong when it began.                                   *)
(* (vector_store.rs: chunks that disagree report "", which no etag equals) *)
ScrollIsExact ==
  scan.done => \A key \in {points[i].key : i \in DOMAIN points} \ (touched \cup {None}) :
    LET said == {points[i].etag : i \in OfKey(points, key)}
    IN  /\ key \in DOMAIN scan.found
        /\ scan.found[key] = IF Cardinality(said) = 1 THEN Blank(CHOOSE e \in said : TRUE) ELSE ""

(* The store the tests run on answers as the Qdrant client does: which     *)
(* etag an object is indexed as, which points a delete takes, and which    *)
(* hits a filter keeps once the caller's own prefix test has been applied; *)
(* an object is reported with an etag exactly when indexed_etag confirms   *)
(* it.  (testing.rs:74)                                                    *)
StoresAgree(ps, keys, filters, limits) ==
  /\ \A key \in keys :
       /\ MemIndexedEtag(ps, key) = QdrantIndexedEtag(ps, key)
       /\ LET listed == {o \in ToSet(MemIndexedObjects(ps, None)) : o.key = key /\ o.etag # ""}
          IN  listed = IF QdrantIndexedEtag(ps, key) = None THEN {}
                       ELSE {[key |-> key, etag |-> QdrantIndexedEtag(ps, key)]}
  /\ \A sel \in Selectors : MemDelete(ps, sel) = QdrantDelete(ps, sel)
  /\ \A f \in filters : \A i \in DOMAIN ps :
       MemMatches(ps[i], f) <=> Must(ps[i], TranslateFilter(f)) /\ PostFilter(f, ps[i])
  /\ \A f \in filters : \A limit \in limits :
       LET hits == MemSearch(ps, f, Cardinality(Ids), limit)
       IN  /\ \A n \in DOMAIN hits : PostFilter(f, ps[hits[n]])
           /\ Len(hits) = Min({limit, Cardinality({i \in DOMAIN ps : Must(ps[i], TranslateFilter(f)) /\ PostFilter(f, ps[i])})})

-----------------------------------------------------------------------------
(***************************************************************************)
(* The health record of one knowledge base's index and the view a caller   *)
(* gets of it (notedthat-indexer/src/health.rs, router/index_health.rs).   *)
(* The queue is shared with other knowledge bases; a writer sends its      *)
(* event first and stamps `enqueued` afterwards, so the worker may finish  *)
(* it before the stamp.  Time is in ticks of the backpressure window.      *)
(***************************************************************************)
CONSTANTS Keys, Subtrees, Callers, Capacity, MaxNow, MaxSent, SummaryMax

VARIABLES record,   \* KbRecord
          alive,    \* worker_alive
          queue,    \* the owners of the queued events: this base or another
          working,  \* events of this base the worker has taken
          unstamped,\* events of this base sent and not yet stamped
          gauge,    \* notedthat_reconcile_objects_on_disk
          now, sent

healthVars == <<record, alive, queue, working, unstamped, gauge, now, sent>>

Fresh == [enqueued |-> 0, completed |-> 0, lastFailed |-> FALSE, indexedAt |-> None,
          failure |-> None, backpressureAt |-> None, staleSince |-> None, reconcile |-> None]
HealthInit ==
  /\ record = Fresh /\ alive = TRUE /\ queue = <<>> /\ working = 0 /\ unstamped = 0
  /\ gauge = None /\ now = 0 /\ sent = 0

-----------------------------------------------------------------------------
(* The stamps.                                                             *)
Enqueued(r) == [r EXCEPT !.enqueued = @ + 1]
Succeeded(r) == [r EXCEPT !.completed = @ + 1, !.indexedAt = now, !.lastFailed = FALSE]
BoundSummary(summary) == IF summary > SummaryMax THEN SummaryMax + 1 ELSE summary
Failed(r, key, summary) ==
  [r EXCEPT !.completed = @ + 1, !.lastFailed = TRUE,
            !.failure = [at |-> now, key |-> key, summary |-> BoundSummary(summary)]]
Backpressured(r) == [r EXCEPT !.backpressureAt = now]
MarkStale(r) == [r EXCEPT !.staleSince = IF @ = None THEN now ELSE @]
Reconciled(r, scope, counts) ==
  [r EXCEPT !.reconcile = [at |-> now, scope |-> scope, counts |-> counts], !.staleSince = None]

(* derive_state and pending.                                               *)
Pending(r) == IF r.enqueued > r.completed THEN r.enqueued - r.completed ELSE 0
DeriveState(r) ==
  IF ~alive \/ r.lastFailed THEN "failed"
  ELSE IF r.staleSince # None THEN "stale"
  ELSE IF r.backpressureAt # None /\ now - r.backpressureAt <= 1 THEN "backpressured"
  ELSE IF Pending(r) > 0 THEN "indexing" ELSE "healthy"
Rank(state) ==
  CASE state = "healthy" -> 0 [] state = "indexing" -> 1 [] state = "backpressured" -> 2
    [] state = "stale" -> 3 [] state = "failed" -> 4

(* render, for a caller who may list some keys, or the whole base.         *)
FailureView(caller, f) ==
  [at |-> f.at, key |-> IF f.key \in caller.lists THEN f.key ELSE None,
   summary |-> IF caller.whole THEN f.summary ELSE None]
ReconcileView(caller, p) ==
  LET visible == IF p.scope # None THEN p.scope \in caller.lists ELSE caller.whole
  IN  [at |-> p.at, scope |-> IF visible THEN p.scope ELSE None,
       counts |-> IF visible THEN p.counts ELSE None]
Render(caller) ==
  [state |-> IF Len(queue) >= Capacity /\ Rank(DeriveState(record)) < Rank("backpressured")
             THEN "backpressured" ELSE DeriveState(record),
   pending |-> Pending(record), depth |-> Len(queue), running |-> alive,
   failure |-> IF record.failure = None THEN None ELSE FailureView(caller, record.failure),
   reconcile |-> IF record.reconcile = None THEN None ELSE ReconcileView(caller, record.reconcile)]

-----------------------------------------------------------------------------
Send(owner) ==
  /\ sent < MaxSent /\ sent' = sent + 1
  /\ IF alive /\ Len(queue) < Capacity
     THEN /\ queue' = Append(queue, owner)
          /\ unstamped' = unstamped + (IF owner = "this" THEN 1 ELSE 0)
          /\ UNCHANGED record
     ELSE /\ record' = IF alive /\ owner = "this" THEN Backpressured(record) ELSE record
          /\ UNCHANGED <<queue, unstamped>>
  /\ UNCHANGED <<alive, working, gauge, now>>
Stamp ==
  /\ unstamped > 0
  /\ unstamped' = unstamped - 1 /\ record' = Enqueued(record)
  /\ UNCHANGED <<alive, queue, working, gauge, now, sent>>
TakeEvent ==
  /\ alive /\ queue # <<>>
  /\ queue' = Tail(queue) /\ working' = working + (IF Head(queue) = "this" THEN 1 ELSE 0)
  /\ UNCHANGED <<record, alive, unstamped, gauge, now, sent>>
Complete ==
  /\ working > 0 /\ working' = working - 1
  /\ \/ record' = Succeeded(record)
     \/ \E key \in Keys, summary \in 0..SummaryMax + 1 : record' = Failed(record, key, summary)
  /\ UNCHANGED <<alive, queue, unstamped, gauge, now, sent>>
LoseSight ==
  /\ record.staleSince = None
  /\ record' = MarkStale(record)
  /\ UNCHANGED <<alive, queue, working, unstamped, gauge, now, sent>>
Pass ==
  /\ record.staleSince # None
  /\ \E scope \in Subtrees \cup {None} :
       /\ record' = Reconciled(record, scope, IF scope = None THEN 2 ELSE 1)
       /\ gauge' = IF scope = None THEN 2 ELSE gauge
  /\ UNCHANGED <<alive, queue, working, unstamped, now, sent>>
WorkerStopped == alive /\ alive' = FALSE /\ UNCHANGED <<record, queue, working, unstamped, gauge, now, sent>>
Tick == now < MaxNow /\ now' = now + 1 /\ UNCHANGED <<record, alive, queue, working, unstamped, gauge, sent>>

HealthNext == \/ \E owner \in {"this", "other"} : Send(owner)
              \/ Stamp \/ TakeEvent \/ Complete \/ LoseSight \/ Pass \/ WorkerStopped \/ Tick
HealthSpec == HealthInit /\ [][HealthNext]_healthVars

-----------------------------------------------------------------------------
(* What `GET .../index` says is true whatever order the stamps land in:    *)
(* `healthy` only with the worker running, nothing of this base at work or *)
(* queued but events whose own stamp is still to come, nothing unobserved  *)
(* and no failure since the last success; a full queue or a fresh refusal  *)
(* is never reported as anything milder; and no caller is shown a key, a   *)
(* summary or counts beyond its list grant.  (index_health.rs: "A live     *)
(* condition may only raise the state, never lower it")                    *)
Mine == working + Cardinality({i \in DOMAIN queue : queue[i] = "this"})
HealthIsHonest ==
  \A caller \in Callers :
    LET v == Render(caller)
    IN  /\ v.state = "healthy" => /\ v.running /\ Mine <= unstamped /\ Len(queue) < Capacity
                                  /\ record.staleSince = None /\ ~record.lastFailed
        /\ unstamped = 0 => v.pending = Mine
        /\ Len(queue) = Capacity => v.state \in {"backpressured", "stale", "failed"}
        /\ ~v.running => v.state = "failed"
        /\ record.lastFailed => v.state = "failed" /\ v.failure # None
        /\ v.failure # None => /\ v.failure.key # None => v.failure.key \in caller.lists
                               /\ v.failure.summary # None => caller.whole
        /\ v.reconcile # None =>
             /\ v.reconcile.scope # None => v.reconcile.scope \in caller.lists
             /\ v.reconcile.counts # None /\ v.reconcile.scope = None => caller.whole

=============================================================================
