--------------------------- MODULE ObjectRewrite ---------------------------
(***************************************************************************)
(* Concurrent requests on one object: PATCH and replace, which read the     *)
(* object, splice it and write it back with a compare-and-swap              *)
(* (notedthat-write/src/commit.rs cas_rewrite); PUT and DELETE with their   *)
(* preconditions; and downloads resumed with Range and If-Range             *)
(* (notedthat-api-http/src/router/objects/read.rs).  Every call to storage  *)
(* is atomic and every await between two calls lets other requests run.     *)
(*                                                                         *)
(* An ETag is a function of the bytes in both backends, so it is the text    *)
(* itself.  Publishing and indexing what was stored is WritePath's subject.  *)
(***************************************************************************)
EXTENDS Ranges, FiniteSets

CONSTANTS Clients,      \* concurrent requests, one per client at a time
          Contents,     \* what a PUT may store
          Rewrites,     \* the splices a PATCH or a replace may ask for
          NoObject,     \* there is no object
          MaxSize,      \* max_patchable_size
          MaxRequests   \* bound: requests made in all

VARIABLES object,       \* the stored bytes, or NoObject
          made,         \* requests made so far
          pc,           \* per client: where its request is
          op,           \* per client: the splice it asked for
          ifMatch,      \* per client: the ETag it sent, or None
          attempt,      \* per client: cas_rewrite's attempts
          anchor,       \* per client: the ETag of the HEAD (or of the read)
          spliced,      \* per client: the bytes to be written
          held,         \* per client: <<the ETag it knows, the bytes of it that it has>>
          answer,       \* per client: the status of its last request
          reported,     \* per client: the size a replace answered with
          since         \* per client: changes of the object since its request began

vars == <<object, made, pc, op, ifMatch, attempt, anchor, spliced, held, answer, reported, since>>

asked == <<made, op, ifMatch>>

Init ==
    /\ object \in Contents \cup {NoObject}
    /\ made = 0
    /\ pc = [c \in Clients |-> "idle"]
    /\ op = [c \in Clients |-> None]
    /\ ifMatch = [c \in Clients |-> None]
    /\ attempt = [c \in Clients |-> 0]
    /\ anchor = [c \in Clients |-> None]
    /\ spliced = [c \in Clients |-> None]
    /\ held = [c \in Clients |-> None]
    /\ answer = [c \in Clients |-> None]
    /\ reported = [c \in Clients |-> None]
    /\ since = [c \in Clients |-> 0]

\* A request of c begins, with the ETag it sends as If-Match or If-Range.
Begin(c, where, splice, tag) ==
    /\ pc[c] = "idle" /\ made < MaxRequests
    /\ made' = made + 1
    /\ pc' = [pc EXCEPT ![c] = where]
    /\ op' = [op EXCEPT ![c] = splice]
    /\ ifMatch' = [ifMatch EXCEPT ![c] = tag]
    /\ attempt' = [attempt EXCEPT ![c] = 0]
    /\ answer' = [answer EXCEPT ![c] = None]
    /\ since' = [since EXCEPT ![c] = 0]
    /\ UNCHANGED <<object, anchor, spliced, held, reported>>

Ends(c, status) ==
    /\ pc' = [pc EXCEPT ![c] = "idle"]
    /\ answer' = [answer EXCEPT ![c] = status]

\* The object becomes new: a change to every request that is under way.
Becomes(new) ==
    /\ object' = new
    /\ since' = [c \in Clients |-> since[c] + 1]

----------------------------------------------------------------------------
(* PATCH and POST replace.                                                    *)

Known(c) == IF held[c] = None THEN {} ELSE {held[c][1]}

\* validate_caller_if_match: a byte or line range and a replace need an If-Match,
\* an append may do without.
AskRewrite(c) ==
    \E splice \in Rewrites, tag \in Known(c) \cup {None} :
        /\ tag = None => splice.mode = "append"
        /\ Begin(c, "head", splice, tag)

Apply(splice, text) ==
    CASE splice.mode = "append"  -> PatchAppend(text, splice.body, MaxSize)
      [] splice.mode = "range"   ->
            PatchRange(text, splice.unit, splice.range, splice.body, MaxSize)
      [] splice.mode = "replace" ->
            LET done == ReplaceIn(text, splice.needle, splice.body, splice.all, MaxSize)
            IN  IF done = None THEN None ELSE done[1]

MaxAttempts(c) == IF ifMatch[c] # None THEN 1 ELSE 3

\* head_anchor: a stale caller sees 412 before 413.
HeadAnchor(c) ==
    /\ pc[c] = "head"
    /\ attempt' = [attempt EXCEPT ![c] = @ + 1]
    /\ \/ object = NoObject /\ Ends(c, 404) /\ UNCHANGED anchor
       \/ /\ object # NoObject
          /\ ifMatch[c] # None /\ ifMatch[c] # object
          /\ Ends(c, 412) /\ UNCHANGED anchor
       \/ /\ object # NoObject
          /\ ifMatch[c] \in {None, object}
          /\ \/ Len(object) > MaxSize /\ Ends(c, 413) /\ UNCHANGED anchor
             \/ /\ Len(object) <= MaxSize
                /\ anchor' = [anchor EXCEPT ![c] = object]
                /\ pc' = [pc EXCEPT ![c] = "get"]
                /\ UNCHANGED answer
    /\ UNCHANGED <<object, asked, spliced, held, reported, since>>

\* A 412 of the GET or the PUT: another attempt, or the end.
Conflict(c) ==
    \/ /\ attempt[c] < MaxAttempts(c)
       /\ pc' = [pc EXCEPT ![c] = "head"]
       /\ UNCHANGED answer
    \/ attempt[c] >= MaxAttempts(c) /\ Ends(c, 412)

\* GET If-Match the anchor, and the splice of what it returned; every reason not
\* to splice it (400, 413, 416, 422) is the status 400.
GetAnchored(c) ==
    /\ pc[c] = "get"
    /\ \/ object = NoObject /\ Ends(c, 404) /\ UNCHANGED spliced
       \/ object # NoObject /\ object # anchor[c] /\ Conflict(c) /\ UNCHANGED spliced
       \/ /\ object = anchor[c]
          /\ LET new == Apply(op[c], object)
             IN  \/ new = None /\ Ends(c, 400) /\ UNCHANGED spliced
                 \/ /\ new # None
                    /\ spliced' = [spliced EXCEPT ![c] = new]
                    /\ pc' = [pc EXCEPT ![c] = "put"]
                    /\ UNCHANGED answer
    /\ UNCHANGED <<object, asked, attempt, anchor, held, reported, since>>

\* Mutant: the PUT is conditional on the caller's If-Match instead of the anchor.
PutCallers(c) ==
    /\ pc[c] = "put"
    /\ \/ ifMatch[c] \notin {None, object} /\ Conflict(c) /\ UNCHANGED <<object, since>>
       \/ ifMatch[c] \in {None, object} /\ Becomes(spliced[c]) /\ Ends(c, 200)
    /\ UNCHANGED <<asked, attempt, anchor, spliced, held, reported>>

\* PUT If-Match the anchor; an object that is gone does not match either.
PutAnchored(c) ==
    /\ pc[c] = "put"
    /\ \/ object # anchor[c] /\ Conflict(c) /\ UNCHANGED <<object, since>>
       \/ /\ object = anchor[c]
          /\ Becomes(spliced[c])
          /\ \/ op[c].mode # "replace" /\ Ends(c, 200)
             \/ /\ op[c].mode = "replace"
                /\ pc' = [pc EXCEPT ![c] = "size"]
                /\ UNCHANGED answer
    /\ UNCHANGED <<asked, attempt, anchor, spliced, held, reported>>

\* replace_object asks storage for the size it answers with.
HeadSize(c) ==
    /\ pc[c] = "size"
    /\ \/ object = NoObject /\ Ends(c, 404) /\ UNCHANGED reported
       \/ /\ object # NoObject
          /\ reported' = [reported EXCEPT ![c] = Len(object)]
          /\ Ends(c, 200)
    /\ UNCHANGED <<object, asked, attempt, anchor, spliced, held, since>>

----------------------------------------------------------------------------
(* PUT and DELETE, one conditional call of storage each.                      *)

\* evaluate_write_preconditions with an If-Match, an If-None-Match: * or neither.
Permitted(tag, createOnly) ==
    /\ tag # None => object = tag
    /\ createOnly => object = NoObject

Store(c, new, tag, createOnly) ==
    /\ pc[c] = "idle" /\ made < MaxRequests
    /\ made' = made + 1
    /\ \/ /\ Permitted(tag, createOnly)
          /\ Becomes(new)
          /\ answer' = [answer EXCEPT ![c] = 200]
       \/ /\ ~Permitted(tag, createOnly)
          /\ answer' = [answer EXCEPT ![c] = 412]
          /\ UNCHANGED <<object, since>>
    /\ op' = [op EXCEPT ![c] = None]
    /\ UNCHANGED <<pc, ifMatch, attempt, anchor, spliced, held, reported>>

Put(c) ==
    \E new \in Contents, tag \in Known(c) \cup {None}, createOnly \in BOOLEAN :
        Store(c, new, tag, createOnly)

Delete(c) ==
    /\ object # NoObject
    /\ \E tag \in Known(c) \cup {None} : Store(c, NoObject, tag, FALSE)

----------------------------------------------------------------------------
(* Downloads.                                                                 *)

\* A GET of the whole object, whose connection may be lost after any prefix.
Download(c) ==
    /\ pc[c] = "idle" /\ made < MaxRequests /\ object # NoObject
    /\ made' = made + 1
    /\ \E n \in 0 .. Len(object) : held' = [held EXCEPT ![c] = <<object, SubSeq(object, 1, n)>>]
    /\ answer' = [answer EXCEPT ![c] = 200]
    /\ op' = [op EXCEPT ![c] = None]
    /\ UNCHANGED <<object, pc, ifMatch, attempt, anchor, spliced, reported, since>>

\* GET Range: bytes=<bytes held>- with If-Range: <the ETag they are of>.
AskRest(c) ==
    /\ held[c] # None
    /\ Begin(c, "rest", None, held[c][1])

\* Mutant: the range is served whatever version it is now of.
GetRestUnchecked(c) ==
    /\ pc[c] = "rest"
    /\ LET range == FromStartOpen(Len(held[c][2]), Len(object))
       IN  \/ object = NoObject /\ Ends(c, 404) /\ UNCHANGED held
           \/ /\ object # NoObject /\ range # None
              /\ held' = [held EXCEPT ![c] = <<object, @[2] \o Slice(object, range)>>]
              /\ Ends(c, 206)
           \/ object # NoObject /\ range = None /\ Ends(c, 416) /\ UNCHANGED held
    /\ UNCHANGED <<object, asked, attempt, anchor, spliced, reported, since>>

\* get_object with the range.  If-Range is compared with the ETag of this read; a
\* slice of another version is discarded, and a range it could not serve is kept
\* for the second read to decide.
GetRest(c) ==
    /\ pc[c] = "rest"
    /\ LET range == FromStartOpen(Len(held[c][2]), Len(object))
       IN  \/ object = NoObject /\ Ends(c, 404) /\ UNCHANGED <<spliced, held>>
           \/ /\ object # NoObject /\ range # None /\ object = ifMatch[c]
              /\ held' = [held EXCEPT ![c] = <<object, @[2] \o Slice(object, range)>>]
              /\ Ends(c, 206) /\ UNCHANGED spliced
           \/ /\ object # NoObject /\ (range = None \/ object # ifMatch[c])
              /\ spliced' = [spliced EXCEPT ![c] = range]
              /\ pc' = [pc EXCEPT ![c] = "whole"]
              /\ UNCHANGED <<answer, held>>
    /\ UNCHANGED <<object, asked, attempt, anchor, reported, since>>

\* The second read, of the whole object.
GetWhole(c) ==
    /\ pc[c] = "whole"
    /\ \/ object = NoObject /\ Ends(c, 404) /\ UNCHANGED held
       \/ /\ object # NoObject /\ spliced[c] = None /\ object = ifMatch[c]
          /\ Ends(c, 416) /\ UNCHANGED held
       \/ /\ object # NoObject /\ ~(spliced[c] = None /\ object = ifMatch[c])
          /\ held' = [held EXCEPT ![c] = <<object, object>>]
          /\ Ends(c, 200)
    /\ UNCHANGED <<object, asked, attempt, anchor, spliced, reported, since>>

----------------------------------------------------------------------------
\* A request is dropped at any of its awaits.
Dropped(c) ==
    /\ pc[c] # "idle"
    /\ Ends(c, None)
    /\ UNCHANGED <<object, asked, attempt, anchor, spliced, held, reported, since>>

Next ==
    \E c \in Clients :
        \/ AskRewrite(c) \/ HeadAnchor(c) \/ GetAnchored(c) \/ PutAnchored(c) \/ HeadSize(c)
        \/ Put(c) \/ Delete(c)
        \/ Download(c) \/ AskRest(c) \/ GetRest(c) \/ GetWhole(c)
        \/ Dropped(c)

Spec == Init /\ [][Next]_vars

----------------------------------------------------------------------------
TypeOK ==
    /\ made \in 0 .. MaxRequests
    /\ \A c \in Clients :
          /\ pc[c] \in {"idle", "head", "get", "put", "size", "rest", "whole"}
          /\ attempt[c] \in 0 .. 3
          /\ since[c] \in 0 .. MaxRequests
          /\ pc[c] = "put" => Len(spliced[c]) <= MaxSize

Lands(c) == pc[c] = "put" /\ (pc'[c] = "size" \/ answer'[c] = 200)

\* patch.rs "Apply one optimistic PATCH using the current HEAD ETag as the internal
\* CAS anchor": a rewrite that is acknowledged changed the object in one step from
\* what was stored, so no concurrent write is lost in it, and from what the
\* caller's If-Match named.
RewritesAreAtomic ==
    [][\A c \in Clients :
          Lands(c) => /\ object # NoObject
                      /\ ifMatch[c] \in {None, object}
                      /\ object' = Apply(op[c], object)]_vars

\* commit.rs "only a rewrite without one (PATCH append) retries, at most twice": an
\* append is refused for a conflict only when the object changed three times under it,
\* and it has read the object afresh after each change it met.
GivesUpForCause ==
    \A c \in Clients :
        op[c] # None =>
            /\ pc[c] \in {"head", "get", "put"} => attempt[c] <= since[c] + 1
            /\ answer[c] = 412 /\ ifMatch[c] = None => since[c] >= 3

\* docs/API.md:445 "The check uses the metadata of the same read the bytes came from, so
\* a concurrent write cannot mix versions": what a client has put together of a
\* download is the beginning of the one version whose ETag it holds.
DownloadsNeverMix ==
    \A c \in Clients :
        held[c] # None =>
            /\ Len(held[c][2]) <= Len(held[c][1])
            /\ held[c][2] = SubSeq(held[c][1], 1, Len(held[c][2]))

\* docs/API.md:1263 "Size of the object after the splice": a replace answers with the
\* size of the version it stored.
ReplaceReportsItsSize ==
    \A c \in Clients :
        pc[c] = "idle" /\ op[c] # None /\ op[c].mode = "replace" /\ answer[c] = 200 =>
            reported[c] = Len(spliced[c])

\* docs/API.md:442 "When the validator matches [...] the range is served as a 206": the
\* range is refused only if the version the client names cannot satisfy it.
MatchingRangeIsServed ==
    \A c \in Clients :
        answer[c] = 416 => FromStartOpen(Len(held[c][2]), Len(held[c][1])) = None
=============================================================================
