------------------------------- MODULE WebDav -------------------------------
(***************************************************************************)
(* The WebDAV surface (notedthat-webdav): the middleware that answers the   *)
(* write methods, PROPPATCH and over-deep or over-large PROPFINDs, and the  *)
(* file system it gives to dav-server for the rest.  Every storage call is  *)
(* a step of its own and clients run concurrently.                          *)
(*                                                                          *)
(* One knowledge base.  A key is the sequence of its segments.  The object  *)
(* a request names has a kind: "path", "kb" (the root of the base), "root"  *)
(* (the list of bases), "undeclared" (another base) or "bad" (a path that   *)
(* does not parse).  An object's entity tag is its content, as on both      *)
(* backends.                                                                *)
(***************************************************************************)
EXTENDS IfHeader, FiniteSets

CONSTANTS
    Clients,     \* clients, each with one request at a time
    Asks,        \* client -> requests it may make
    Keys,        \* object keys
    Rank,        \* key -> its place in listing order
    Reserved,    \* keys nothing may be stored under
    Visible,     \* keys the caller's rules let it list
    Contents,    \* contents of an object, sequences of chunks
    MaxEntries,  \* PROPFIND_MAX_ENTRIES
    MaxScanned,  \* PROPFIND_MAX_SCANNED
    PageCap,     \* keys per listing call
    Budget,      \* client -> bound on its requests
    MaxFaults    \* bound on storage and queue failures

VARIABLES
    store,   \* key -> content, or None
    job,     \* client -> what its request has done so far
    left,    \* client -> requests it may still make
    faults   \* failures so far

vars == <<store, job, left, faults>>

Idle == [pc |-> "idle", req |-> None, etag |-> None, dst |-> None, listing |-> None, cursor |-> 0, scanned |-> 0,
         status |-> 0, did |-> {}, prior |-> None, removed |-> None, body |-> <<>>, late |-> FALSE, seen |-> None]

Init ==
    /\ store \in [Keys -> Contents \cup {None}]
    /\ job = [c \in Clients |-> Idle]
    /\ left = Budget
    /\ faults = 0

-----------------------------------------------------------------------------
(* Requests that are answered before storage is touched. *)

Collections == {"root", "kb"}

\* The answer of the first early return whose condition holds, 0 when none does.
FirstOf(returns) ==
    LET taken == {i \in DOMAIN returns : returns[i][1]}
    IN IF taken = {} THEN 0 ELSE returns[Min(taken)][2]

\* handle_put up to the commit, with its answer to a StageError.
StageStatus(body) ==
    CASE body = "too_large" -> 413
      [] body \in {"length_mismatch", "read"} -> 400
      [] body = "write" -> 507
      [] OTHER -> 0

PutRefusal(r) ==
    CASE r.target.kind \in Collections \cup {"bad"} -> 400
      [] r.target.kind = "undeclared" -> 403
      [] r.target.key \in Reserved -> 400
      [] OTHER -> StageStatus(r.body)

\* handle_delete
DeleteRefusal(r) ==
    CASE r.target.kind \in Collections \cup {"bad"} -> 400
      [] r.target.kind = "undeclared" -> 403
      [] OTHER -> 0

\* handle_copy_or_move up to the first HEAD.  The request line names the source.
CopyRefusal(r) ==
    FirstOf(<<
        <<r.dst.kind \in {"absent", "repeated"}, 400>>,
        <<r.overwrite = "other", 400>>,
        <<r.dst.kind \in {"fragment", "unparsed"}, 400>>,
        <<r.dst.kind = "elsewhere", 502>>,
        <<"bad" \in {r.target.kind, r.dst.kind}, 400>>,
        <<{r.target.kind, r.dst.kind} \cap (Collections \cup {"undeclared"}) # {}, 403>>,
        <<r.dst.key \in Reserved, 400>>,
        <<r.dst.kind = "other base" \/ r.dst.key = r.target.key, 403>>,
        <<r.ifs = Malformed, 400>> >>)

\* evaluate_write_preconditions of If-Match and of If-None-Match: *
Holds(cond, content) ==
    /\ cond.match = None \/ (content # None /\ content = cond.match)
    /\ cond.absent => content = None

\* The tail of handle_proppatch, once the target is known to exist: properties
\* are refused, except that a request for Windows timestamps alone is accepted.
UpdateStatus(r, etag) ==
    LET current == [tag \in Tags(r.ifs) \cup {None} |-> IF tag \in {None, r.target.key} THEN etag ELSE None]
    IN FirstOf(<<
        <<~Holds(r.cond, etag), 412>>,
        <<r.ifs # None /\ ~Evaluate(r.ifs, current), 412>>,
        <<r.body = "too_large", 413>>,
        <<r.body = "read", 400>>,
        <<TRUE, 207>> >>)

\* handle_proppatch up to its HEAD.
ProppatchRefusal(r) ==
    FirstOf(<<
        <<r.target.kind = "bad" \/ r.ifs = Malformed, 400>>,
        <<r.target.kind = "undeclared", 403>>,
        <<r.target.kind \in Collections, UpdateStatus(r, None)>> >>)

\* intercept_propfind_too_large comes before intercept_read_methods: an
\* infinite depth is refused even for a path that does not parse.  The list of
\* bases and the base itself are answered without storage.
PropfindRefusal(r) ==
    FirstOf(<<
        <<r.depth = "invalid", 400>>,
        <<r.depth = "infinity" /\ r.target.kind # "path", 403>>,
        <<r.target.kind = "bad", 400>>,
        <<r.target.kind = "undeclared", 403>>,
        <<r.target.kind = "root" \/ (r.target.kind = "kb" /\ r.depth = "0"), 207>> >>)

\* intercept_read_methods, then WebDavStorage::open.
GetRefusal(r) ==
    CASE r.target.kind = "bad" -> 400
      [] r.target.kind \in Collections \cup {"undeclared"} -> 403
      [] OTHER -> 0

\* intercept_options, intercept_lock_unlock, and create_dir: a folder is made by
\* storing something in it.
Refusal(r) ==
    CASE r.method = "PUT" -> PutRefusal(r)
      [] r.method = "DELETE" -> DeleteRefusal(r)
      [] r.method \in {"COPY", "MOVE"} -> CopyRefusal(r)
      [] r.method = "PROPPATCH" -> ProppatchRefusal(r)
      [] r.method = "PROPFIND" -> PropfindRefusal(r)
      [] r.method = "GET" -> GetRefusal(r)
      [] r.method = "MKCOL" -> 201
      [] r.method = "OPTIONS" -> 204
      [] r.method = "LOCK" -> 405

\* intercept_write_methods and the layers of build_bounded_router: where a
\* request goes first.
FirstStep(r) ==
    CASE r.method = "PUT" -> "put"
      [] r.method = "DELETE" -> "delete"
      [] r.method \in {"COPY", "MOVE"} -> "head"
      [] r.method = "GET" -> "open"
      [] r.method = "PROPPATCH" -> "exists"
      [] r.method = "PROPFIND" ->
            CASE r.depth = "infinity" -> "folder"
              [] r.depth = "0" -> "stat"
              [] r.depth = "1" -> IF r.target.kind = "kb" THEN "collect" ELSE "prepare"

Begin(c, r) ==
    /\ job[c].pc = "idle"
    /\ left[c] > 0
    /\ left' = [left EXCEPT ![c] = @ - 1]
    /\ job' = [job EXCEPT ![c] = [Idle EXCEPT
            !.pc = IF Refusal(r) # 0 THEN "done" ELSE FirstStep(r),
            !.req = r, !.status = Refusal(r),
            !.seen = IF r.method \in {"GET", "PROPFIND"} /\ Refusal(r) = 0
                     THEN [k \in Keys |-> {store[k]}] ELSE None]]
    /\ UNCHANGED <<store, faults>>

\* The answer is out; the client may ask again.
End(c) ==
    /\ job[c].pc = "done"
    /\ job' = [job EXCEPT ![c] = Idle]
    /\ UNCHANGED <<store, left, faults>>

-----------------------------------------------------------------------------
(* Storage, the answers it leads to, and what the others notice of a change. *)

Fault == faults < MaxFaults /\ faults' = faults + 1

Key(c) == job[c].req.target.key

Answered(j, status) == [j EXCEPT !.pc = "done", !.status = status]

Goes(c, j) ==
    /\ job' = [job EXCEPT ![c] = j]
    /\ UNCHANGED <<store, faults>>

\* storage_status of a backend that is unavailable or fails otherwise.
Fails(c, statuses) ==
    /\ Fault
    /\ \E status \in statuses : job' = [job EXCEPT ![c] = Answered(@, status)]
    /\ UNCHANGED store

StorageStatuses == {500, 503}

\* A request under way sees k become v.  A write that lands on a MOVE's source
\* after its HEAD is late.
Noticed(j, k, v) ==
    [j EXCEPT !.seen = IF @ = None THEN None ELSE [@ EXCEPT ![k] = @ \cup {v}],
              !.late = @ \/ (j.pc \in {"head_dst", "copy", "drop"} /\ k = j.req.target.key /\ v # None)]

\* c makes k hold v and goes on as j.
Change(c, k, v, j) ==
    /\ store' = [store EXCEPT ![k] = v]
    /\ job' = [x \in Clients |->
                IF x = c THEN [j EXCEPT !.did = @ \cup {<<k, v>>}] ELSE Noticed(job[x], k, v)]

\* The change is made and reported; or the event log or the index queue refuses
\* it once it is made (retry_later), and the request ends there.
Commit(c, k, v, j) ==
    \/ Change(c, k, v, j) /\ UNCHANGED faults
    \/ Change(c, k, v, Answered(j, 503)) /\ Fault

\* PutOutcome.created
Written(k) == IF store[k] = None THEN 201 ELSE 204

-----------------------------------------------------------------------------
(* PUT and DELETE. *)

Put(c) ==
    /\ job[c].pc = "put"
    /\ \/ /\ Holds(job[c].req.cond, store[Key(c)])
          /\ Commit(c, Key(c), job[c].req.content,
                    [Answered(job[c], Written(Key(c))) EXCEPT !.prior = store[Key(c)]])
       \/ ~Holds(job[c].req.cond, store[Key(c)]) /\ Goes(c, Answered(job[c], 412))
       \/ Fails(c, StorageStatuses)

\* If-None-Match is ignored, and deleting what is not there succeeds.
Delete(c) ==
    /\ job[c].pc = "delete"
    /\ LET if_match == job[c].req.cond.match
       IN \/ /\ store[Key(c)] # None
             /\ if_match \in {None, store[Key(c)]}
             /\ Commit(c, Key(c), None, [Answered(job[c], 204) EXCEPT !.prior = store[Key(c)]])
          \/ store[Key(c)] = None /\ Goes(c, Answered(job[c], 204))
          \/ /\ store[Key(c)] # None
             /\ if_match \notin {None, store[Key(c)]}
             /\ Goes(c, Answered(job[c], 412))
          \/ Fails(c, StorageStatuses)

-----------------------------------------------------------------------------
(* COPY and MOVE: HEAD, copy, delete. *)

NamesDestination(r) == r.ifs # None /\ r.dst.key \in Tags(r.ifs)

\* The If header against the entity tags the HEADs reported.
Judged(j) ==
    LET current == [tag \in Tags(j.req.ifs) \cup {None} |->
                      CASE tag \in {None, j.req.target.key} -> j.etag
                        [] tag = j.req.dst.key -> j.dst
                        [] OTHER -> None]
    IN IF j.req.ifs = None \/ Evaluate(j.req.ifs, current)
       THEN [j EXCEPT !.pc = "copy"] ELSE Answered(j, 412)

\* The source's HEAD.  A missing source is 404 whatever the preconditions.
HeadSource(c) ==
    /\ job[c].pc = "head"
    /\ LET j == [job[c] EXCEPT !.etag = store[Key(c)]]
       IN \/ Goes(c, CASE j.etag = None -> Answered(j, 404)
                       [] j.etag # None /\ ~Holds(j.req.cond, j.etag) -> Answered(j, 412)
                       [] OTHER -> IF NamesDestination(j.req) THEN [j EXCEPT !.pc = "head_dst"]
                                   ELSE Judged(j))
          \/ Fails(c, StorageStatuses)

\* The destination's HEAD; a failure reads as absent.
HeadDestination(c) ==
    /\ job[c].pc = "head_dst"
    /\ \/ Goes(c, Judged([job[c] EXCEPT !.dst = store[job[c].req.dst.key]]))
       \/ Fault /\ UNCHANGED store /\ job' = [job EXCEPT ![c] = Judged(@)]

\* What storage.copy_object refuses: a missing source, one that is not the one
\* HEAD saw, and a destination that exists when it may not.
CopyRefused(c) ==
    LET r == job[c].req
    IN FirstOf(<<
        <<store[Key(c)] = None, 404>>,
        <<store[Key(c)] # job[c].etag, 412>>,
        <<r.overwrite = "F" /\ store[r.dst.key] # None, 412>> >>)

\* commit_copy, and on COPY the answer.
Copied(c, status) ==
    LET j == [job[c] EXCEPT !.prior = store[job[c].req.dst.key], !.status = status]
    IN Commit(c, job[c].req.dst.key, store[Key(c)],
              [j EXCEPT !.pc = IF j.req.method = "MOVE" THEN "drop" ELSE "done"])

\* Mutant: the copy is not pinned to the entity tag HEAD saw.
CopyUnpinned(c) ==
    /\ job[c].pc = "copy"
    /\ store[Key(c)] # None
    /\ Copied(c, Written(job[c].req.dst.key))

\* Mutant: whether the destination is new is judged when it is looked up.
CopyJudgedEarly(c) ==
    /\ job[c].pc = "copy"
    /\ \/ CopyRefused(c) = 0 /\ Copied(c, IF job[c].dst = None THEN 201 ELSE 204)
       \/ CopyRefused(c) # 0 /\ Goes(c, Answered(job[c], CopyRefused(c)))

Copy(c) ==
    /\ job[c].pc = "copy"
    /\ \/ CopyRefused(c) = 0 /\ Copied(c, Written(job[c].req.dst.key))
       \/ CopyRefused(c) # 0 /\ Goes(c, Answered(job[c], CopyRefused(c)))
       \/ Fails(c, StorageStatuses)

\* Mutant: the delete is unconditional.
DropUnpinned(c) ==
    /\ job[c].pc = "drop"
    /\ store[Key(c)] # None
    /\ Commit(c, Key(c), None, [job[c] EXCEPT !.pc = "done", !.removed = store[Key(c)]])

\* MOVE's commit_delete of the source, on the same entity tag.  When the source
\* has changed the answer is 412 and the copy stays.
Drop(c) ==
    /\ job[c].pc = "drop"
    /\ \/ /\ store[Key(c)] = job[c].etag
          /\ Commit(c, Key(c), None, [job[c] EXCEPT !.pc = "done", !.removed = store[Key(c)]])
       \/ store[Key(c)] = None /\ Goes(c, [job[c] EXCEPT !.pc = "done"])
       \/ store[Key(c)] \notin {None, job[c].etag} /\ Goes(c, Answered(job[c], 412))
       \/ Fails(c, StorageStatuses)

-----------------------------------------------------------------------------
(* PROPPATCH, and the HEAD and listing that tell a file from a folder. *)

Beneath(prefix) == {k \in Keys : IsStrictPrefix(prefix, k)}

Stored(ks) == {k \in ks : store[k] # None}

\* A HEAD: the object is there, or one listing call decides.
Look(c, present, below) ==
    Goes(c, IF store[Key(c)] # None THEN present ELSE [job[c] EXCEPT !.pc = below])

Exists(c) ==
    /\ job[c].pc = "exists"
    /\ \/ Look(c, Answered(job[c], UpdateStatus(job[c].req, store[Key(c)])), "exists_below")
       \/ Fails(c, StorageStatuses)

ExistsBelow(c) ==
    /\ job[c].pc = "exists_below"
    /\ \/ Goes(c, Answered(job[c], IF Stored(Beneath(Key(c))) = {} THEN 404
                                   ELSE UpdateStatus(job[c].req, None)))
       \/ Fails(c, {500})

-----------------------------------------------------------------------------
(* PROPFIND: the middleware prepares the listing, dav-server asks for the    *)
(* target's metadata, then for the entries.                                  *)

\* is_virtual_folder; a failure reads as "not a folder".
Folder(c) ==
    /\ job[c].pc = "folder"
    /\ \/ Look(c, [job[c] EXCEPT !.pc = "stat"], "folder_below")
       \/ Fault /\ UNCHANGED store /\ job' = [job EXCEPT ![c].pc = "stat"]

FolderBelow(c) ==
    /\ job[c].pc = "folder_below"
    /\ \/ Goes(c, IF Stored(Beneath(Key(c))) # {} THEN Answered(job[c], 403)
                  ELSE [job[c] EXCEPT !.pc = "stat"])
       \/ Fault /\ UNCHANGED store /\ job' = [job EXCEPT ![c].pc = "stat"]

\* prepare_propfind_listing of a path: a file needs no listing.
Prepare(c) ==
    /\ job[c].pc = "prepare"
    /\ \/ Look(c, [job[c] EXCEPT !.pc = "stat"], "collect")
       \/ Fails(c, StorageStatuses)

\* entries_from_objects: the next segment of each key, a folder winning over a
\* file of its name.
Folders(prefix, keys) == {k[Len(prefix) + 1] : k \in {x \in keys : Len(x) > Len(prefix) + 1}}
Files(prefix, keys) == {k[Len(prefix) + 1] : k \in {x \in keys : Len(x) = Len(prefix) + 1}}
Entries(prefix, keys) ==
    [folders |-> Folders(prefix, keys), files |-> Files(prefix, keys) \ Folders(prefix, keys)]

\* What follows a full listing: for the base itself the answer, for a path its
\* metadata, and in the fallback of list_entries the answer.
Collected(j) ==
    IF j.pc = "collect" /\ j.req.target.kind = "path" THEN [j EXCEPT !.pc = "stat"]
    ELSE [Answered(j, 207) EXCEPT !.body = Entries(j.req.target.key, j.listing)]

\* dav-server answers 207 with no entries when read_dir fails.
ShownEmpty(j) == [Answered(j, 207) EXCEPT !.listing = None, !.body = Entries(<<>>, {})]


\* collect_propfind_objects, one page: at most PageCap keys and one more than
\* the answer has room for, counted as scanned whether visible or not.
PageOf(j) ==
    LET so_far == IF j.listing = None THEN {} ELSE j.listing
        limit == Min({PageCap, MaxEntries - Cardinality(so_far) + 1})
        ahead == {k \in Stored(Beneath(j.req.target.key)) : Rank[k] > j.cursor}
        page == {k \in ahead : Cardinality({x \in ahead : Rank[x] <= Rank[k]}) <= limit}
        found == so_far \cup (page \cap Visible)
        scanned == j.scanned + Cardinality(page)
        next == [j EXCEPT !.listing = found, !.scanned = scanned,
                          !.cursor = Max({j.cursor} \cup {Rank[k] : k \in page})]
    IN IF scanned > MaxScanned \/ Cardinality(found) > MaxEntries
       THEN IF j.pc = "collect" THEN Answered(j, 507) ELSE ShownEmpty(j)
       ELSE IF page = ahead THEN Collected(next) ELSE next

Collect(c) ==
    /\ job[c].pc \in {"collect", "recollect"}
    /\ \/ Goes(c, PageOf(job[c]))
       \/ job[c].pc = "collect" /\ Fails(c, StorageStatuses)
       \/ job[c].pc = "recollect" /\ Fault /\ UNCHANGED store /\ job' = [job EXCEPT ![c] = ShownEmpty(@)]

\* dav-server: WebDavStorage::metadata of a path.
Stat(c) ==
    /\ job[c].pc = "stat"
    /\ \/ Look(c, [Answered(job[c], 207) EXCEPT !.listing = None], "stat_below")
       \/ Fails(c, {500})

\* A folder: list_entries takes the prepared listing, or lists again when there
\* is none.
StatBelow(c) ==
    /\ job[c].pc = "stat_below"
    /\ \/ Goes(c, CASE Stored(Beneath(Key(c))) = {} -> Answered(job[c], 404)
                    [] Stored(Beneath(Key(c))) # {} ->
                        CASE job[c].req.depth # "1" -> Answered(job[c], 207)
                          [] job[c].req.depth = "1" /\ job[c].listing = None ->
                                [job[c] EXCEPT !.pc = "recollect"]
                          [] job[c].req.depth = "1" /\ job[c].listing # None ->
                                [Answered(job[c], 207) EXCEPT !.body = Entries(Key(c), job[c].listing)])
       \/ Fails(c, {500})

-----------------------------------------------------------------------------
(* GET: dav-server asks for the file's metadata, then reads chunk by chunk;   *)
(* no read is pinned to the entity tag.                                       *)

Open(c) ==
    /\ job[c].pc = "open"
    /\ \/ Goes(c, IF store[Key(c)] = None THEN Answered(job[c], 404)
                  ELSE [job[c] EXCEPT !.etag = store[Key(c)], !.pc = "read"])
       \/ Fails(c, {500})

\* StorageReadFile::read_bytes; a read past the end is empty and ends the body,
\* an object gone or a failing backend cuts it off.
Read(c) ==
    /\ job[c].pc = "read"
    /\ \/ LET at == Len(job[c].body) + 1
          IN Goes(c, CASE at > Len(job[c].etag) -> Answered(job[c], 200)
                       [] at <= Len(job[c].etag) ->
                            IF store[Key(c)] = None THEN Answered(job[c], 0)
                            ELSE IF at > Len(store[Key(c)]) THEN Answered(job[c], 200)
                            ELSE [job[c] EXCEPT !.body = Append(@, store[Key(c)][at])])
       \/ Fails(c, {0})

-----------------------------------------------------------------------------
\* One step of a request.
Work(c) ==
    \/ Put(c) \/ Delete(c)
    \/ HeadSource(c) \/ HeadDestination(c) \/ Copy(c) \/ Drop(c)
    \/ Exists(c) \/ ExistsBelow(c)
    \/ Folder(c) \/ FolderBelow(c) \/ Prepare(c) \/ Collect(c) \/ Stat(c) \/ StatBelow(c)
    \/ Open(c) \/ Read(c)

\* A request that is answered is over: nothing it still holds is visible to the
\* others, so its end comes first.
Next ==
    \E c \in Clients :
        \/ End(c)
        \/ /\ \A x \in Clients : job[x].pc # "done"
           /\ (\E r \in Asks[c] : Begin(c, r)) \/ (Work(c) /\ UNCHANGED left)

Spec == Init /\ [][Next]_vars

-----------------------------------------------------------------------------
(* Properties. *)

Finished(c, methods) == job[c].pc = "done" /\ job[c].req.method \in methods

Wrote(j, k) == \E v \in Contents : <<k, v>> \in j.did

\* An answer says what the request did, whatever the others do meanwhile: a
\* refusal (4xx) changed nothing, except the 412 of a MOVE that has copied and
\* kept its source; a success of PUT, COPY or MOVE wrote the destination, and
\* answers 201 exactly when there was nothing there as it was written
\* (handle_put, handle_copy_or_move, handle_delete, write_error_response).
AnswersAreTrue ==
    \A c \in Clients :
        /\ Finished(c, {"PUT", "DELETE", "COPY"}) /\ job[c].status \in 400..499 => job[c].did = {}
        /\ Finished(c, {"MOVE"}) /\ job[c].status \in 400..499 =>
            \/ job[c].did = {}
            \/ job[c].status = 412 /\ job[c].did = {<<job[c].req.dst.key, job[c].etag>>}
        /\ Finished(c, {"PUT", "COPY", "MOVE"}) /\ job[c].status \in {201, 204} =>
            LET k == IF job[c].req.method = "PUT" THEN Key(c) ELSE job[c].req.dst.key
            IN Wrote(job[c], k) /\ (job[c].status = 201 <=> job[c].prior = None)

\* The client's preconditions hold of the object at the moment of the write, not
\* only when they were judged: a COPY or MOVE copies the very content its HEAD
\* saw, and never over an object that Overwrite: F protects.
PreconditionsHoldAtTheWrite ==
    \A c \in Clients :
        LET j == job[c]
        IN \A e \in j.did :
            /\ j.req.method = "PUT" => Holds(j.req.cond, j.prior)
            /\ j.req.method \in {"COPY", "MOVE"} /\ e[2] # None =>
                e[2] = j.etag /\ Holds(j.req.cond, e[2]) /\ (j.req.overwrite = "F" => j.prior = None)

\* The content a MOVE removes from its source is the content it copied: a write
\* of other content to the source is never deleted by the MOVE it raced with.
MoveRemovesWhatItCopied ==
    \A c \in Clients :
        job[c].removed # None => <<job[c].req.dst.key, job[c].removed>> \in job[c].did

\* A 207 for a folder's members shows every visible key that was there all along
\* and none that was not there at any time, although it is gathered page by page
\* and before dav-server looks at the folder (sync clients delete what a listing
\* leaves out); and a download of an object nobody changed is that object.
ReadsAreTrue ==
    \A c \in Clients :
        /\ Finished(c, {"PROPFIND"}) /\ job[c].status = 207 /\ job[c].listing # None =>
            LET prefix == Key(c)
                shown == job[c].body
                candidates == Beneath(prefix) \cap Visible
                steady == {k \in candidates : None \notin job[c].seen[k]}
                ever == {k \in candidates : job[c].seen[k] # {None}}
            IN /\ Folders(prefix, steady) \subseteq shown.folders
               /\ Files(prefix, steady) \subseteq shown.files \cup shown.folders
               /\ shown.folders \subseteq Folders(prefix, ever)
               /\ shown.files \subseteq Files(prefix, ever)
        /\ Finished(c, {"GET"}) /\ job[c].status = 200 =>
            \A v \in Contents : job[c].seen[Key(c)] = {v} => job[c].body = v

\* A write that lands on the source of a MOVE after its preconditions were
\* checked ends the MOVE in 412 (docs/API.md, "WebDAV").
LateWriteEndsIn412 ==
    \A c \in Clients : Finished(c, {"MOVE"}) /\ job[c].status \in {201, 204} => ~job[c].late
=============================================================================
