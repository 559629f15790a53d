---------------------------- MODULE HttpRouting ---------------------------
(***************************************************************************)
(* HTTP requests: which handler answers, what a refusal says, and the       *)
(* status of every error.                                                   *)
(***************************************************************************)
EXTENDS AccessRules, Integers, Sequences

(***************************************************************************)
(* A request to the HTTP API up to its first storage call: the route its    *)
(* path matches, the credential, the anonymous gate, the knowledge base,    *)
(* the grant, and the checks on headers and body, in the order the code     *)
(* makes them (router/mod.rs, middleware.rs, extract.rs, authz.rs and the   *)
(* handlers; core/auth.rs).  A path is a sequence of segments, a header     *)
(* value a sequence of words between single spaces, a URL an origin and a   *)
(* path.                                                                    *)
(***************************************************************************)
CONSTANTS MalformedKey(_),  \* ObjectPath::try_object_key refuses it
          MalformedSlug(_), \* KbSlug::try_new refuses it
          JsonSlack         \* what a replace body may hold beyond twice the limit

-----------------------------------------------------------------------------
(* The credential.                                                          *)

NotAPrincipal == [reach |-> "refused", subject |-> None, groups |-> {}]

Words(value, first) == SubSeq(value, first, Len(value))

\* The scheme in any case, one space, something that starts with no space.
ExtractBearer(value) ==
    IF Len(value) < 2 \/ value[1] \notin {"Bearer", "bearer"} \/ value[2] = "" THEN None
    ELSE Words(value, 2)

\* The decoded pair is split at its first colon, both sides non-empty.
ExtractBasic(value) ==
    IF Len(value) < 2 \/ value[1] \notin {"Basic", "basic"} \/ (Len(value) > 2 /\ value[2] = "") THEN None
    ELSE LET pair == Words(value, 2)
         IN IF Len(pair) # 2 \/ pair[1] = "" \/ pair[2] = "" THEN None ELSE pair

VerifyBearerToken(provided, expected) == expected # <<>> /\ provided = expected
VerifyBasicCredentials(provided, expected) ==
    /\ provided[1] # "" /\ provided[2] # "" /\ expected[1] # "" /\ expected[2] # ""
    /\ provided = expected

ResolveBearer(auth, token) ==
    IF VerifyBearerToken(token, auth.service) THEN ServiceToken
    ELSE IF token \in DOMAIN auth.vouched THEN auth.vouched[token] ELSE NotAPrincipal

\* Authenticator::resolve.
Principal(auth, headers, schemes) ==
    IF headers = <<>> THEN Anyone
    ELSE IF Len(headers) > 1 THEN NotAPrincipal
    ELSE IF ExtractBearer(headers[1]) # None THEN ResolveBearer(auth, ExtractBearer(headers[1]))
    ELSE IF /\ schemes = "BasicOrBearer" /\ ExtractBasic(headers[1]) # None /\ auth.basic # None
            /\ VerifyBasicCredentials(ExtractBasic(headers[1]), auth.basic)
         THEN ServiceToken ELSE NotAPrincipal

-----------------------------------------------------------------------------
(* Protected-resource metadata (RFC 9728).                                  *)

WellKnown == "oauth-protected-resource"

RECURSIVE TrimEnd(_)
TrimEnd(path) ==
    IF path # <<>> /\ path[Len(path)] = "" THEN TrimEnd(SubSeq(path, 1, Len(path) - 1)) ELSE path

MetadataUrlFor(resource) ==
    [origin |-> resource.origin, path |-> <<WellKnown>> \o TrimEnd(resource.path)]

ProtectedResourceMetadata(auth, path) ==
    IF auth.resource # None /\ (path = <<WellKnown>> \/ path = MetadataUrlFor(auth.resource).path)
    THEN 200 ELSE 404

BearerChallenge(auth) == IF auth.resource = None THEN None ELSE MetadataUrlFor(auth.resource)

-----------------------------------------------------------------------------
(* Answers.                                                                 *)

Reply(status, what) ==
    [status |-> status, what |-> what, about |-> {}, read |-> FALSE, challenge |-> None]
Naming(reply, slugs) == [reply EXCEPT !.about = slugs]
AfterBody(reply) == [reply EXCEPT !.read = TRUE]
Unauthorized == Reply(401, "unauthorized")
KbNotFound(slug) == Naming(Reply(404, "KB not declared"), {slug})
Passed == Reply(0, "to storage")

WithBearerChallenge(auth, reply) ==
    IF reply.status = 401 THEN [reply EXCEPT !.challenge = BearerChallenge(auth)] ELSE reply

\* KbAccess::denial.
DenialToAll(slug, principal) == Reply(403, "forbidden")
Denial(slug, principal) ==
    IF principal.reach = "anonymous" THEN KbNotFound(slug) ELSE Reply(403, "forbidden")

PolicyOf(site, slug) == IF slug \in DOMAIN site.policies THEN site.policies[slug] ELSE {}

Require(site, slug, principal, verb, key) ==
    Allows(Filter(PolicyOf(site, slug), principal, verb), key)
RequireAny(site, slug, principal, verb) == GrantsAny(PolicyOf(site, slug), principal, verb)
RequireVisible(site, slug, principal) == VisibleInListing(PolicyOf(site, slug), principal)
RequireServiceToken(principal) == principal.reach = "service"

-----------------------------------------------------------------------------
(* The route table; a literal segment wins over a parameter.                *)

RouteOf(path) ==
    IF Len(path) = 1 THEN "kbs"
    ELSE IF Len(path) = 2 THEN "kb"
    ELSE IF Len(path) = 3 /\ path[3] \in {"search", "events", "index"} THEN path[3]
    ELSE IF Len(path) = 4 /\ path[3] = "index" /\ path[4] = "reconcile" THEN "reconcile"
    ELSE "object"

Methods(route) ==
    CASE route \in {"kbs", "kb", "events", "index"} -> {"GET", "HEAD"}
      [] route \in {"search", "reconcile"} -> {"POST"}
      [] route = "object" -> {"GET", "HEAD", "PUT", "DELETE", "PATCH", "POST"}

AnonymousReachable ==
    ({"GET", "HEAD"} \X {"kbs", "kb", "object"}) \cup {<<"POST", "search">>, <<"GET", "events">>, <<"GET", "index">>}

AnonymousMayReach(req) == <<req.method, RouteOf(req.path)>> \in AnonymousReachable

KeyOf(path) == SubSeq(path, 3, Len(path))

-----------------------------------------------------------------------------
(* Headers and bodies.                                                      *)

DeclaredOversize(req, limit) == req.length # None /\ req.length > limit
TooLarge == Reply(413, "payload too large")

ReadBoundedBody(req, limit) ==
    IF DeclaredOversize(req, limit) THEN TooLarge
    ELSE AfterBody(IF req.size > limit THEN TooLarge ELSE Passed)

PutBody(site, req) == ReadBoundedBody(req, site.maxBody)

PatchBody(site, req) ==
    IF DeclaredOversize(req, site.maxPatch) THEN TooLarge
    ELSE IF req.ifMatch \in {"*", "list"} THEN Reply(400, "If-Match")
    ELSE ReadBoundedBody(req, site.maxPatch)

ReplaceConditionals(req) ==
    CASE req.ifMatch = None -> Reply(428, "If-Match required")
      [] req.ifMatch \in {"*", "list", "not text"} -> Reply(400, "If-Match")
      [] OTHER -> Passed

ReplaceBody(site, req) ==
    LET cap == 2 * site.maxPatch + JsonSlack
    IN IF DeclaredOversize(req, cap) THEN TooLarge
       ELSE IF ReplaceConditionals(req) # Passed THEN ReplaceConditionals(req)
       ELSE IF ReadBoundedBody(req, cap).status # 0 THEN ReadBoundedBody(req, cap)
       ELSE AfterBody(IF req.wellFormed THEN Passed ELSE Reply(400, "malformed body"))

-----------------------------------------------------------------------------
(* The handlers.                                                            *)

\* ObjectRequest::resolve, then what the method does before storage.
ObjectRoute(site, req, principal, slug, key, verb, then) ==
    IF MalformedKey(key) THEN Reply(400, "object key")
    ELSE IF slug \notin site.declared THEN KbNotFound(slug)
    ELSE IF ~Require(site, slug, principal, verb, key) THEN Denial(slug, principal)
    ELSE then

PostObject(site, req, principal, slug, key) ==
    IF Len(key) < 2 \/ key[1] # "replace" THEN Reply(404, "not a defined action")
    ELSE ObjectRoute(site, req, principal, slug, Tail(key), "write", ReplaceBody(site, req))

ListKbs(site, principal) ==
    LET seen == {slug \in site.declared : RequireVisible(site, slug, principal)}
    IN IF seen = {} /\ principal.reach = "anonymous" THEN Unauthorized ELSE Naming(Reply(200, "knowledge bases"), seen)

ListObjects(site, req, principal, slug) ==
    IF ~req.queryOk THEN Reply(400, "query")
    ELSE IF slug \notin site.declared THEN KbNotFound(slug)
    ELSE IF ~RequireAny(site, slug, principal, "list") THEN Denial(slug, principal) ELSE Passed

SubscribeEvents(site, req, principal, slug) ==
    IF ListObjects(site, req, principal, slug) # Passed THEN ListObjects(site, req, principal, slug)
    ELSE IF ~site.events THEN Reply(404, "events are not enabled") ELSE Passed

SearchKb(site, req, principal, slug) ==
    IF MalformedSlug(slug) THEN Reply(400, "slug")
    ELSE IF slug \notin site.declared THEN KbNotFound(slug)
    ELSE IF ~RequireAny(site, slug, principal, "search") THEN Denial(slug, principal)
    ELSE IF ReadBoundedBody(req, site.maxSearch).status # 0 THEN ReadBoundedBody(req, site.maxSearch)
    ELSE AfterBody(IF req.wellFormed THEN Passed ELSE Reply(400, "malformed body"))

GetIndexHealth(site, principal, slug) ==
    IF slug \notin site.declared THEN KbNotFound(slug)
    ELSE IF ~RequireVisible(site, slug, principal) THEN Denial(slug, principal) ELSE Passed

PostIndexReconcile(site, principal, slug) ==
    IF slug \notin site.declared THEN KbNotFound(slug)
    ELSE IF ~RequireServiceToken(principal) THEN Denial(slug, principal)
    ELSE CASE site.reconcile = None -> Reply(404, "reconcile unsupported")
           [] site.reconcile = "busy" -> Reply(409, "reconcile in progress")
           [] OTHER -> Reply(202, "started")

Handle(site, req, principal) ==
    LET route == RouteOf(req.path)
        slug == IF Len(req.path) > 1 THEN req.path[2] ELSE None
        key == KeyOf(req.path)
    IN IF req.method \notin Methods(route) THEN Reply(405, "method not allowed")
       ELSE CASE route = "kbs" -> ListKbs(site, principal)
              [] route = "kb" -> ListObjects(site, req, principal, slug)
              [] route = "search" -> SearchKb(site, req, principal, slug)
              [] route = "events" -> SubscribeEvents(site, req, principal, slug)
              [] route = "index" -> GetIndexHealth(site, principal, slug)
              [] route = "reconcile" -> PostIndexReconcile(site, principal, slug)
              [] req.method \in {"GET", "HEAD"} /\ route = "object" ->
                     ObjectRoute(site, req, principal, slug, key, "read", Passed)
              [] req.method = "PUT" -> ObjectRoute(site, req, principal, slug, key, "write", PutBody(site, req))
              [] req.method = "PATCH" -> ObjectRoute(site, req, principal, slug, key, "write", PatchBody(site, req))
              [] req.method = "DELETE" -> ObjectRoute(site, req, principal, slug, key, "delete", Passed)
              [] req.method = "POST" /\ route = "object" -> PostObject(site, req, principal, slug, key)

AuthMiddleware(site, req) ==
    LET principal == Principal(site.auth, req.headers, "Bearer")
    IN WithBearerChallenge(site.auth,
         IF principal = NotAPrincipal \/ (principal.reach = "anonymous" /\ ~AnonymousMayReach(req))
         THEN Unauthorized ELSE Handle(site, req, principal))

-----------------------------------------------------------------------------
(* A credential that does not verify is 401 on every route, never a         *)
(* downgrade; to an anonymous caller with no grant a declared knowledge     *)
(* base answers exactly as an undeclared one, on every route; whatever is   *)
(* let through to a knowledge base is let through to a caller who sees it   *)
(* listed; a refusal reads no body; a declared length over the limit is 413 *)
(* whatever the precondition; and a 401 names metadata that is served       *)
(* (middleware.rs, authz.rs denial: "Byte-identical to the undeclared-slug  *)
(* answer", helpers.rs reject_declared_oversize, well_known.rs).            *)
RequestsAreJudgedInOrder(site, req) ==
    LET answer == AuthMiddleware(site, req)
        principal == Principal(site.auth, req.headers, "Bearer")
        slug == IF Len(req.path) > 1 THEN req.path[2] ELSE None
        without(s) == [site EXCEPT !.declared = @ \ {s}]
    IN /\ principal = NotAPrincipal => answer.status = 401
       /\ \A s \in site.declared :
            principal.reach = "anonymous" /\ ~VisibleInListing(PolicyOf(site, s), principal) =>
                answer = AuthMiddleware(without(s), req)
       /\ answer.status \in {0, 202} =>
            slug \in AuthMiddleware(site, [req EXCEPT !.method = "GET", !.path = <<"kbs">>]).about
       /\ answer.what = "started" => principal = ServiceToken
       /\ answer.status \in {401, 403} \/ answer = KbNotFound(slug) => ~answer.read
       /\ LET small == [req EXCEPT !.length = 0, !.size = 0, !.ifMatch = None]
          IN req.method = "PATCH" /\ DeclaredOversize(req, site.maxPatch)
             /\ AuthMiddleware(site, small).status = 0 => answer.status = 413
       /\ answer.status = 401 /\ site.auth.resource # None =>
            ProtectedResourceMetadata(site.auth, answer.challenge.path) = 200

-----------------------------------------------------------------------------
(***************************************************************************)
(* What becomes of a failure on its way out: a storage, search or write    *)
(* error becomes an API error, that a response of the HTTP API or of       *)
(* WebDAV, and the API's response becomes, for an MCP client, a tool error *)
(* and its JSON-RPC code.  An error is a record with a kind and what the   *)
(* mappings read of its payload; message texts are left out, except that a *)
(* response says whether its text came from an adapter.                    *)
(***************************************************************************)
Err(kind) == [kind |-> kind]

StorageErrors(lengths, etags, dates) ==
  {Err("NotFound"), Err("BucketNotFound"), Err("BackendUnavailable"), Err("Other"),
   Err("PreconditionFailed")}
  \cup {[kind |-> "RangeNotSatisfiable", length |-> n] : n \in lengths}
  \cup {[kind |-> "NotModified", etag |-> e, date |-> d] : e \in etags, d \in dates}

(* The errors the API's handlers make themselves.                          *)
HandlerErrors ==
  {Err(k) : k \in {"Unauthorized", "Forbidden", "EventsUnavailable", "EventsGone",
                   "ReconcileInProgress", "ReconcileUnsupported", "InvalidInput",
                   "CoreNotFound", "MalformedRange", "BucketNameTooLong", "Config"}}

WriteEffects == {"Stored", "Deleted"}
WriteErrors(lengths, etags, dates, counts) ==
  {[kind |-> "Storage", of |-> e] : e \in StorageErrors(lengths, etags, dates)}
  \cup {Err(k) : k \in {"TooLarge", "PatchTooLarge", "IndexerBackpressureUpsert",
                        "IndexerBackpressureTombstone", "PreconditionRequired",
                        "PatchInvalidRange", "InvalidManifest", "ReplaceNoMatch"}}
  \cup {[kind |-> "EventPublishFailed", after |-> w] : w \in WriteEffects}
  \cup {[kind |-> "PatchLineOutOfRange", lines |-> n, bytes |-> m] : n \in lengths, m \in lengths}
  \cup {[kind |-> "ReplaceAmbiguous", count |-> n] : n \in counts}

(* ErrorCode: the codes a body may carry; the two internal ones are not    *)
(* among them.                                                             *)
InternalCodes == {"range_not_satisfiable", "not_modified"}
ErrorCodes ==
  {"invalid_request", "malformed_range", "unauthorized", "forbidden", "not_found", "conflict",
   "gone", "payload_too_large", "precondition_failed", "no_match", "ambiguous_match",
   "precondition_required", "internal_error", "backend_unavailable", "request_timeout"}
  \cup InternalCodes

(* From<CoreError> and From<StorageError>: a missing bucket is an absence  *)
(* like any other.                                                         *)
OfStorage(e) == IF e.kind = "BucketNotFound" THEN Err("CoreNotFound") ELSE e

OfWrite(e) ==
  CASE e.kind = "Storage" -> OfStorage(e.of)
    [] e.kind \in {"TooLarge", "PatchTooLarge"} -> Err("PayloadTooLarge")
    [] e.kind = "PatchLineOutOfRange" ->
         [kind |-> "LineRangeNotSatisfiable", lines |-> e.lines, bytes |-> e.bytes]
    [] e.kind \in {"PatchInvalidRange", "InvalidManifest"} -> Err("InvalidInput")
    [] OTHER -> e

StorageStatus(e) ==
  CASE e.kind \in {"NotFound", "BucketNotFound"} -> <<404, "not_found">>
    [] e.kind = "BackendUnavailable" -> <<503, "backend_unavailable">>
    [] e.kind = "NotModified" -> <<304, "not_modified">>
    [] e.kind = "PreconditionFailed" -> <<412, "precondition_failed">>
    [] e.kind = "RangeNotSatisfiable" -> <<416, "range_not_satisfiable">>
    [] e.kind = "Other" -> <<500, "internal_error">>

StatusAndCode(e) ==
  CASE e.kind = "Unauthorized" -> <<401, "unauthorized">>
    [] e.kind = "Forbidden" -> <<403, "forbidden">>
    [] e.kind \in {"IndexerBackpressureUpsert", "IndexerBackpressureTombstone",
                   "EventPublishFailed", "EventsUnavailable"} -> <<503, "backend_unavailable">>
    [] e.kind = "EventsGone" -> <<410, "gone">>
    [] e.kind = "ReconcileInProgress" -> <<409, "conflict">>
    [] e.kind = "InvalidInput" -> <<400, "invalid_request">>
    [] e.kind \in {"ReconcileUnsupported", "CoreNotFound"} -> <<404, "not_found">>
    [] e.kind = "PayloadTooLarge" -> <<413, "payload_too_large">>
    [] e.kind = "MalformedRange" -> <<400, "malformed_range">>
    [] e.kind = "LineRangeNotSatisfiable" -> <<416, "range_not_satisfiable">>
    [] e.kind = "PreconditionRequired" -> <<428, "precondition_required">>
    [] e.kind = "ReplaceNoMatch" -> <<422, "no_match">>
    [] e.kind = "ReplaceAmbiguous" -> <<422, "ambiguous_match">>
    [] e.kind \in {"BucketNameTooLong", "Config"} -> <<500, "internal_error">>
    [] OTHER -> StorageStatus(e)

(* A response: its status, the code of its JSON body (None: no body), the  *)
(* Retry-After header, the totals its Content-Range headers name, the      *)
(* match count of its body and the validators it carries.                  *)
Bare(status) ==
  [status |-> status, code |-> None, retry |-> None, range |-> None, count |-> None,
   etag |-> None, date |-> None]
Json(status, code) == [Bare(status) EXCEPT !.code = code]
RetryLater == [Json(503, "backend_unavailable") EXCEPT !.retry = 5]
Refusal(status, code) == IF status = 503 THEN RetryLater ELSE Json(status, code)

(* Which texts an adapter wrote, and are replaced in the body by a fixed   *)
(* one.                                                                    *)
AdapterText(e) == e.kind \in {"BackendUnavailable", "Other", "BucketNotFound",
                              "EventsUnavailable", "BucketNameTooLong", "Config"}

IntoResponse(e) ==
  CASE e.kind = "LineRangeNotSatisfiable" ->
         [Bare(416) EXCEPT !.range = [unit |-> "lines", total |-> e.lines, bytes |-> e.bytes]]
    [] e.kind = "RangeNotSatisfiable" ->
         [Bare(416) EXCEPT !.range = [unit |-> "bytes", total |-> e.length, bytes |-> None]]
    [] e.kind = "NotModified" ->
         [Bare(304) EXCEPT !.etag = e.etag, !.date = IF e.etag = None THEN e.date ELSE None]
    [] e.kind \in {"IndexerBackpressureUpsert", "IndexerBackpressureTombstone",
                   "EventPublishFailed", "EventsUnavailable"} -> RetryLater
    [] e.kind = "ReplaceAmbiguous" -> [Json(422, "ambiguous_match") EXCEPT !.count = e.count]
    [] OTHER -> LET sc == StatusAndCode(e) IN Json(sc[1], sc[2])

(* WebDAV's own table, read by its write handlers.                         *)
DavStorageStatus(e) ==
  CASE e.kind \in {"NotFound", "BucketNotFound"} -> 404
    [] e.kind = "BackendUnavailable" -> 503
    [] e.kind = "PreconditionFailed" -> 412
    [] OTHER -> 500
DavResponse(e) ==
  CASE e.kind \in {"TooLarge", "PatchTooLarge"} -> Bare(413)
    [] e.kind = "Storage" -> Bare(DavStorageStatus(e.of))
    [] e.kind \in {"IndexerBackpressureUpsert", "IndexerBackpressureTombstone",
                   "EventPublishFailed"} -> RetryLater
    [] e.kind \in {"InvalidManifest", "PatchInvalidRange"} -> Bare(400)
    [] e.kind = "PreconditionRequired" -> Bare(428)
    [] e.kind = "PatchLineOutOfRange" -> Bare(416)
    [] e.kind \in {"ReplaceNoMatch", "ReplaceAmbiguous"} -> Bare(422)

(* map_response: the tool error a response becomes; one the API does not   *)
(* send reads as an internal error.                                        *)
MapResponseByCode(r) ==
  IF r.status = 416 THEN Err("RangeNotSatisfiable")
  ELSE IF r.code = "ambiguous_match" THEN [kind |-> "AmbiguousMatch", count |-> 0]
  ELSE IF r.code = "no_match" THEN Err("NoMatch")
  ELSE IF r.status = 503 THEN Err("InternalError")
  ELSE IF r.status = 404 THEN Err("NotFound") ELSE Err("InvalidRequest")
MapResponse(r) ==
  CASE r.status = 416 -> Err("RangeNotSatisfiable")
    [] r.status \in {400, 428} -> Err("InvalidRequest")
    [] r.status = 401 -> Err("Unauthorized")
    [] r.status = 403 -> Err("Forbidden")
    [] r.status = 404 -> Err("NotFound")
    [] r.status = 412 -> Err("PreconditionFailed")
    [] r.status = 413 -> Err("PayloadTooLarge")
    [] r.status = 422 /\ r.code = "no_match" -> Err("NoMatch")
    [] r.status = 422 /\ r.code = "ambiguous_match" ->
         [kind |-> "AmbiguousMatch", count |-> IF r.count = None THEN 0 ELSE r.count]
    [] r.status = 422 /\ r.code \notin {"no_match", "ambiguous_match"} -> Err("InvalidRequest")
    [] r.status = 503 -> Err("BackendUnavailable")
    [] r.status = 504 -> Err("RequestTimeout")
    [] OTHER -> Err("InternalError")

RmcpCode(t) ==
  CASE t.kind = "NotFound" -> "RESOURCE_NOT_FOUND"
    [] t.kind \in {"BackendUnavailable", "RequestTimeout", "InternalError", "Transport",
                   "Serialization"} -> "INTERNAL_ERROR"
    [] OTHER -> "INVALID_PARAMS"
-----------------------------------------------------------------------------
(* Whether the bytes had changed in storage when the write failed.         *)
TookEffect(e) == e.kind \in {"IndexerBackpressureUpsert", "IndexerBackpressureTombstone",
                             "EventPublishFailed"}
(* Whether repeating the same call with the same body cannot help.         *)
CallersFault(e) ==
  IF e.kind = "Storage" THEN e.of.kind \in {"NotFound", "BucketNotFound", "PreconditionFailed",
                                            "RangeNotSatisfiable"}
  ELSE ~TookEffect(e)

(* A failed write keeps its meaning on every surface: the HTTP API and     *)
(* WebDAV answer it with one status (a 304 and a byte 416 apart, which no  *)
(* WebDAV write can meet) and promise a retry for the same errors, exactly *)
(* those where the bytes are stored and what follows them failed; an MCP   *)
(* client is told its arguments are at fault, or that the object is not    *)
(* there, exactly when that is so; the match count of an ambiguous replace *)
(* is the one found; and an answer without a body is a 304, or a 416 that  *)
(* names the totals.                                                       *)
WriteFailureKeepsItsMeaning(e) ==
  LET api == IntoResponse(OfWrite(e))
      dav == DavResponse(e)
      tool == MapResponse(api)
      precise == e.kind = "Storage" /\ e.of.kind \in {"NotModified", "RangeNotSatisfiable"}
  IN  /\ ~precise => dav.status = api.status
      /\ (api.retry # None) = TookEffect(e)
      /\ (dav.retry # None) = TookEffect(e)
      /\ (RmcpCode(tool) # "INTERNAL_ERROR") = (CallersFault(e) /\ api.status # 304)
      /\ (RmcpCode(tool) = "RESOURCE_NOT_FOUND") = (api.status = 404)
      /\ e.kind = "ReplaceAmbiguous" => tool = [kind |-> "AmbiguousMatch", count |-> e.count]
      /\ (api.code = None) = (api.status \in {304, 416})
      /\ (api.range # None) = (api.status = 416)

(* The response of any error has the status the handlers read off it and   *)
(* the same code, but for the internal codes, which no body carries; and   *)
(* a text an adapter wrote belongs only to a server error, whose body does *)
(* not repeat it.                                                          *)
StatusIsTheAnswers(e) ==
  /\ IntoResponse(e).status = StatusAndCode(e)[1] /\ StatusAndCode(e)[2] \in ErrorCodes
  /\ IntoResponse(e).code \in {None, StatusAndCode(e)[2]} \ InternalCodes
  /\ AdapterText(e) => StatusAndCode(e)[1] >= 500

(* A request refused before any handler ran is worth repeating exactly     *)
(* when it was refused for want of capacity, and an MCP client can tell    *)
(* the two refusals apart.                                                 *)
RefusalsKeepTheirMeaning ==
  /\ Refusal(503, "backend_unavailable").retry # None /\ Refusal(504, "request_timeout").retry = None
  /\ MapResponse(Refusal(503, "backend_unavailable")) # MapResponse(Refusal(504, "request_timeout"))

FailuresKeepTheirMeaning(writes) ==
  /\ RefusalsKeepTheirMeaning
  /\ \A e \in writes : WriteFailureKeepsItsMeaning(e) /\ StatusIsTheAnswers(OfWrite(e))
  /\ \A e \in HandlerErrors : StatusIsTheAnswers(e)

=============================================================================
