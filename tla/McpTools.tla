----------------------------- MODULE McpTools -----------------------------
(***************************************************************************)
(* The MCP tools: their arguments, resources and answers, and the parser of *)
(* the event stream they follow.                                            *)
(***************************************************************************)
EXTENDS Integers, Sequences, SequencesExt, FiniteSetsExt

(***************************************************************************)
(* What the MCP server makes of the HTTP API: resource URIs, the listing   *)
(* of resources across knowledge bases, the search across them, and bodies *)
(* read within a budget.  A key is a sequence of characters; an answer of  *)
(* the API is a record with ok and either its content or the tool error it *)
(* became.                                                                 *)
(***************************************************************************)
CONSTANTS None, Reserved  \* no value; the keys that name routes

Refused(why) == [ok |-> FALSE, why |-> why]

(* utf8_percent_encode with OBJECT_PATH_ENCODE, and percent_decode_str: an *)
(* unreserved character stands for itself, any other is "%" and two        *)
(* digits; a "%" that no two digits follow decodes to itself.              *)
HexOf(ch) == CASE ch = "/" -> <<"2", "F">> [] ch = "%" -> <<"2", "5">> [] ch = " " -> <<"2", "0">>
Escaped == {"/", "%", " "}
EncodeObjectPath(key) ==
  FlattenSeq([i \in 1..Len(key) |-> IF key[i] \in Escaped THEN <<"%">> \o HexOf(key[i])
                                                          ELSE <<key[i]>>])
RECURSIVE Decode(_)
Decode(text) ==
  LET named == {ch \in Escaped : Len(text) >= 3 /\ HexOf(ch) = SubSeq(text, 2, 3)}
  IN  IF text = <<>> THEN <<>>
      ELSE IF text[1] = "%" /\ named # {}
      THEN <<CHOOSE ch \in named : TRUE>> \o Decode(SubSeq(text, 4, Len(text)))
      ELSE <<text[1]>> \o Decode(Tail(text))

(* ObjectPath::try_object_key: one leading slash is stripped, no segment   *)
(* is empty, "." or "..", and the key names no route.                      *)
Segments(key) ==
  LET cuts == {0, Len(key) + 1} \cup {i \in 1..Len(key) : key[i] = "/"}
      next(i) == Min({j \in cuts : j > i})
  IN  {SubSeq(key, i + 1, next(i) - 1) : i \in cuts \ {Len(key) + 1}}
Stripped(key) == IF key # <<>> /\ key[1] = "/" THEN Tail(key) ELSE key
IsObjectKey(key) ==
  LET path == Stripped(key)
  IN  /\ path # <<>>
      /\ \A i \in 1..Len(path) : path[i] \notin {"\\", "NUL"}
      /\ Segments(path) \cap {<<>>, <<".">>, <<".", ".">>} = {}
      /\ path \notin Reserved

ResourceFor(kb, key) == [scheme |-> "notedthat", host |-> kb, path |-> EncodeObjectPath(key)]
ParseResourceUriTwice(uri) ==
  LET key == Decode(Decode(uri.path))
  IN  IF IsObjectKey(key) THEN [ok |-> TRUE, kb |-> uri.host, key |-> key] ELSE Refused("params")
ParseResourceUri(uri) ==
  LET key == Decode(uri.path)
  IN  IF uri.scheme # "notedthat" \/ uri.host = None \/ uri.path = <<>> THEN Refused("params")
      ELSE IF ~IsObjectKey(key) THEN Refused("params")
      ELSE [ok |-> TRUE, kb |-> uri.host, key |-> key]
-----------------------------------------------------------------------------
(* list_resources.  listings[kb] is a refusal or the pages the API has for *)
(* it, in order; a cursor names a knowledge base and how many of its pages *)
(* have been read, and a page is of one knowledge base.                    *)
StartPosition(kbs, cursor) ==
  IF cursor = None THEN (IF kbs = <<>> THEN None ELSE [kb |-> kbs[1], page |-> 0])
  ELSE IF cursor.kb \in Range(kbs) THEN cursor
  ELSE Refused("cursor")

NextKbAfter(kbs, kb) ==
  LET i == CHOOSE i \in 1..Len(kbs) : kbs[i] = kb
  IN  IF i < Len(kbs) THEN kbs[i + 1] ELSE None

ListResources(kbs, listings, cursor) ==
  LET at == StartPosition(kbs, cursor)
      listing == listings[at.kb]
      keys == SelectSeq(listing.pages[at.page + 1], IsObjectKey)
      after == NextKbAfter(kbs, at.kb)
  IN  IF at = None THEN [ok |-> TRUE, resources |-> <<>>, next |-> None]
      ELSE IF "ok" \in DOMAIN at THEN at
      ELSE IF ~listing.ok THEN Refused(listing.why)
      ELSE [ok |-> TRUE,
            resources |-> [i \in 1..Len(keys) |-> ResourceFor(at.kb, keys[i])],
            next |-> IF at.page + 1 < Len(listing.pages) THEN [kb |-> at.kb, page |-> at.page + 1]
                     ELSE IF after = None THEN None
                     ELSE [kb |-> after, page |-> 0]]

(* A client that follows the cursors to the end, or to a refusal.          *)
RECURSIVE Follow(_, _, _)
Follow(kbs, listings, cursor) ==
  LET page == ListResources(kbs, listings, cursor)
  IN  IF ~page.ok THEN [ended |-> page.why, resources |-> <<>>]
      ELSE IF page.next = None THEN [ended |-> "end", resources |-> page.resources]
      ELSE LET rest == Follow(kbs, listings, page.next)
           IN  [rest EXCEPT !.resources = page.resources \o @]
-----------------------------------------------------------------------------
(* search: named is the kb argument, visible what list_kb_slugs answers    *)
(* when it is empty; answers[kb] is a refusal or the hits.                 *)
HasDuplicate(named) == \E i, j \in 1..Len(named) : i # j /\ named[i] = named[j]
Select(named, visible, slugs) ==
  IF named = <<>> THEN [ok |-> TRUE, all |-> TRUE, kbs |-> visible]
  ELSE IF HasDuplicate(named) \/ ~(Range(named) \subseteq slugs) THEN Refused("InvalidRequest")
  ELSE [ok |-> TRUE, all |-> FALSE, kbs |-> named]

Skippable(error, all) == all /\ error.why \in {"Forbidden", "NotFound"}

SearchAll(named, visible, slugs, answers) ==
  LET sel == Select(named, visible, slugs)
      Failing(kb) == ~answers[kb].ok /\ ~Skippable(answers[kb], sel.all)
      Good(kb) == answers[kb].ok
      Passed(kb) == ~answers[kb].ok
  IN  IF ~sel.ok THEN sel
      ELSE IF \E kb \in Range(sel.kbs) : Failing(kb)
      THEN LET first == SelectSeq(sel.kbs, Failing)[1] IN [ok |-> FALSE, why |-> answers[first].why, kb |-> first]
      ELSE LET kept == SelectSeq(sel.kbs, Good)
           IN  [ok |-> TRUE, skipped |-> SelectSeq(sel.kbs, Passed),
                results |-> [i \in 1..Len(kept) |-> [kb |-> kept[i], hits |-> answers[kept[i]].hits]]]
-----------------------------------------------------------------------------
(* read_body_bounded: chunks of bytes, a declared length or None.          *)
RECURSIVE TakeChunks(_, _, _)
TakeChunks(body, chunks, limit) ==
  IF chunks = <<>> THEN [ok |-> TRUE, body |-> body]
  ELSE IF Len(body) + Len(chunks[1]) > limit THEN Refused("ResponseTooLarge")
  ELSE TakeChunks(body \o chunks[1], Tail(chunks), limit)
ReadBodyBounded(chunks, declared, limit) ==
  IF declared # None /\ declared > limit THEN Refused("ResponseTooLarge")
  ELSE TakeChunks(<<>>, chunks, limit)

(* read_resource: the stored type, unless it says nothing; the extension's *)
(* for a text without one, and for bytes that are no text a type without   *)
(* the charset they just failed.                                           *)
Says(type) == type # None /\ type.essence # "octet-stream"
WithoutUtf8Charset(type) ==
  IF type.essence = "" THEN [essence |-> "octet-stream", charset |-> None]
  ELSE [type EXCEPT !.charset = IF @ = "utf-8" THEN None ELSE @]
ResourceContents(type, utf8, byExtension) ==
  [as |-> IF utf8 THEN "text" ELSE "blob",
   mime |-> IF utf8 THEN (IF Says(type) THEN type ELSE [essence |-> byExtension, charset |-> None])
            ELSE IF Says(type) THEN WithoutUtf8Charset(type)
            ELSE [essence |-> "octet-stream", charset |-> None]]
-----------------------------------------------------------------------------
(* Every resource the listing names can be read under its URI: the pages   *)
(* followed to the end name each object of each visible knowledge base     *)
(* once and in order, the keys no tool accepts left out, and its URI leads *)
(* back to that very key; a knowledge base that refuses ends the listing   *)
(* with its refusal, never with a shorter one that claims to be whole.     *)
ResourcesLeadToObjects(kbs, listings) ==
  LET found == Follow(kbs, listings, None)
      objects(kb) == SelectSeq(FlattenSeq(listings[kb].pages), IsObjectKey)
      expected == FlattenSeq([i \in 1..Len(kbs) |->
                    [j \in 1..Len(objects(kbs[i])) |-> [ok |-> TRUE, kb |-> kbs[i],
                                                        key |-> objects(kbs[i])[j]]]])
  IN  IF \A kb \in Range(kbs) : listings[kb].ok
      THEN found.ended = "end"
           /\ expected = [i \in 1..Len(found.resources) |-> ParseResourceUri(found.resources[i])]
      ELSE found.ended # "end"

(* A search accounts for every knowledge base it was asked about: one that *)
(* was named is answered or fails the call, one that was found is answered *)
(* or listed as skipped, and no failure that is not a refusal is skipped.  *)
SearchAccountsForEach(named, visible, slugs, answers) ==
  LET out == SearchAll(named, visible, slugs, answers)
      asked == IF named = <<>> THEN visible ELSE named
      groups == {out.results[i].kb : i \in 1..Len(out.results)}
  IN  IF out.ok
      THEN /\ groups \cup Range(out.skipped) = Range(asked)
           /\ groups \cap Range(out.skipped) = {}
           /\ Len(out.results) + Len(out.skipped) = Len(asked)
           /\ named # <<>> => out.skipped = <<>>
           /\ \A kb \in Range(out.skipped) : answers[kb].why \in {"Forbidden", "NotFound"}
           /\ \A i \in 1..Len(out.results) : out.results[i].hits = answers[out.results[i].kb].hits
      ELSE HasDuplicate(asked) \/ ~(Range(asked) \subseteq slugs)
           \/ ~answers[out.kb].ok

(* A read never holds more than its budget and never returns part of a     *)
(* body; one within the budget is returned unless its declared length lies.*)
ReadsAreWhole(chunks, declared, limit) ==
  LET out == ReadBodyBounded(chunks, declared, limit)
      whole == FlattenSeq(chunks)
  IN  /\ out.ok => out.body = whole /\ Len(whole) <= limit
      /\ ~out.ok => Len(whole) > limit \/ (declared # None /\ declared > limit)

(* A resource keeps the type it was stored with, unless that says nothing, *)
(* and bytes that are not UTF-8 are never said to be.                      *)
TypesAreTrue(type, utf8, byExtension) ==
  LET out == ResourceContents(type, utf8, byExtension)
  IN  /\ ~utf8 => out.mime.charset # "utf-8"
      /\ (Says(type) /\ (utf8 \/ type.charset # "utf-8") /\ type.essence # "") => out.mime = type

-----------------------------------------------------------------------------
(* The requests the MCP server makes of the HTTP API on a caller's behalf: *)
(* the tools that forward one call, the client they share, and the         *)
(* handlers of the resource methods.  A URL is the sequence of its path    *)
(* segments after /api/v1, each a sequence of characters as in McpTools;   *)
(* a fixed word of the API is one character.                               *)
CONSTANT IsKbSlug(_)   \* KbSlug::try_new accepts the text

Kbs == <<"knowledgebases">>
Dots == {<<".">>, <<".", ".">>}

(* NotedThatClient::new; blank is a text of spaces.                        *)
Trimmed(text) == SelectSeq(text, LAMBDA ch : ch # " ")
NewClient(url, token) ==
  IF url.scheme = None THEN Refused("InvalidUrl")
  ELSE IF url.scheme \notin {"http", "https"} THEN Refused("UrlNotHttp")
  ELSE IF Trimmed(token) = <<>> THEN Refused("EmptyToken")
  ELSE [ok |-> TRUE, token |-> Trimmed(token), base |-> url.host]
WithToken(client, token) == [client EXCEPT !.token = token]
Anonymous(client) == [client EXCEPT !.token = None]

(* url::PathSegmentsMut::push drops "." and "..", and encodes the rest.    *)
Push(url, segment) == IF segment \in Dots THEN url ELSE Append(url, EncodeObjectPath(segment))
ApiV1Url(segments) == FoldLeft(Push, <<>>, segments)

Request(method, url, headers) ==
  [ok |-> TRUE, method |-> method, url |-> url, headers |-> headers, bearer |-> None, source |-> None]
Authorized(client, request) == [request EXCEPT !.bearer = client.token, !.source = "mcp"]

(* args.rs *)
ParseKb(kb) == IF IsKbSlug(kb) THEN [ok |-> TRUE, kb |-> kb] ELSE Refused("invalid kb")
\* Mutant: the path goes to the URL as the caller spelled it.
ParseObjectPathAsGiven(path) == [ok |-> TRUE, key |-> path]
ParseObjectPath(path) ==
  IF IsObjectKey(path) THEN [ok |-> TRUE, key |-> Stripped(path)] ELSE Refused("invalid path")

\* The arguments that were given, as headers or query parameters.
Given(args, names) == [name \in {n \in names : args[n] # None} |-> args[name]]

AboutKb(client, method, args, more, names) ==
  IF ~ParseKb(args.kb).ok THEN ParseKb(args.kb)
  ELSE Authorized(client, Request(method, ApiV1Url(<<Kbs, args.kb>> \o more), Given(args, names)))

AboutObject(client, method, args, names) ==
  LET path == ParseObjectPath(args.path)
  IN  IF ~ParseKb(args.kb).ok THEN ParseKb(args.kb)
      ELSE IF ~path.ok THEN path
      ELSE AboutKb(client, method, args, <<path.key>>, names)

WriteTool(client, args) == AboutObject(client, "PUT", args, {"type", "ifMatch", "ifNoneMatch"})
DeleteTool(client, args) == AboutObject(client, "DELETE", args, {"ifMatch"})
ListTool(client, args) == AboutKb(client, "GET", args, <<>>, {"prefix", "limit", "cursor"})
IndexStatusTool(client, args) == AboutKb(client, "GET", args, <<<<"index">>>>, {})

(* The API client's own calls, whose arguments were parsed already.        *)
(* list_kbs takes an entry that is a bare slug as well as a summary.       *)
ListKbs(client) == Authorized(client, Request("GET", ApiV1Url(<<Kbs>>), <<>>))
SearchOne(client, args) ==
  Authorized(client, Request("POST", ApiV1Url(<<Kbs, args.kb, <<"search">>>>), <<>>))
EventsStream(client, args) ==
  Authorized(client, Request("GET", ApiV1Url(<<Kbs, args.kb, <<"events">>>>), Given(args, {"lastEventId"})))
ListObjects(client, args) ==
  Authorized(client, Request("GET", ApiV1Url(<<Kbs, args.kb>>), Given(args, {"prefix", "cursor"})))

(* client_for: the caller the middleware left on the request.              *)
ClientFor(server, caller) ==
  CASE caller = None -> Refused("Forbidden")
    [] caller # None /\ caller.kind = "bearer" -> WithToken(server.client, caller.token)
    [] caller # None /\ caller.kind = "anonymous" -> Anonymous(server.client)

\* events and objects are no tools: a subscription and a resource listing send them,
\* for a knowledge base that was listed or parsed before.
ToolRequest(tool, client, args) ==
  CASE tool = "write" -> WriteTool(client, args) [] tool = "delete" -> DeleteTool(client, args)
    [] tool = "list" -> ListTool(client, args) [] tool = "index_status" -> IndexStatusTool(client, args)
    [] tool = "list_knowledgebases" -> ListKbs(client)
    [] tool = "search" -> IF ParseKb(args.kb).ok THEN SearchOne(client, args) ELSE ParseKb(args.kb)
    [] tool = "events" -> EventsStream(client, args) [] tool = "objects" -> ListObjects(client, args)

CallTool(server, caller, tool, args) ==
  LET client == ClientFor(server, caller)
  IN  IF ~client.ok THEN client ELSE ToolRequest(tool, client, args)
-----------------------------------------------------------------------------
(* The API's side: the route of a URL, a literal before a parameter, and   *)
(* what its parameters decode to.                                          *)
RouteOf(url) ==
  CASE Len(url) = 1 -> "kbs" [] Len(url) = 2 -> "kb"
    [] Len(url) = 3 /\ url[3] \in {<<"search">>, <<"events">>, <<"index">>} -> url[3][1]
    [] OTHER -> "object"
Names(url) == [route |-> RouteOf(url),
               kb |-> IF Len(url) > 1 THEN Decode(url[2]) ELSE None,
               key |-> IF Len(url) > 2 THEN Decode(url[3]) ELSE None]

-----------------------------------------------------------------------------
(* The resource methods.  A server has subscriptions when it has events.   *)
GetInfo(server) == {"tools", "resources"} \cup
  (IF server.events THEN {"subscribe", "listChanged"} ELSE {})

KbForPage(kbs, cursor) ==
  LET at == StartPosition(kbs, cursor)
  IN  IF at = None THEN None ELSE IF "ok" \in DOMAIN at THEN at ELSE at.kb

\* The page, and the knowledge bases watched for list_changed because of it.
ListResourcesMethod(server, caller, kbs, listings, cursor) ==
  LET page == ListResources(kbs, listings, cursor)
      watched == IF server.events /\ page.ok /\ KbForPage(kbs, cursor) # None
                 THEN {KbForPage(kbs, cursor)} ELSE {}
  IN  IF ~ClientFor(server, caller).ok THEN [page |-> ClientFor(server, caller), watched |-> {}]
      ELSE [page |-> page, watched |-> watched]

Subscribe(server, caller, uri, listable) ==
  LET parsed == ParseResourceUri(uri)
  IN  IF ~server.events THEN Refused("method_not_found")
      ELSE IF ~ClientFor(server, caller).ok THEN ClientFor(server, caller)
      ELSE IF ~parsed.ok THEN parsed
      ELSE IF ~listable THEN Refused("NotFound")
      ELSE parsed

Unsubscribe(server, uri) ==
  IF ~server.events THEN Refused("method_not_found") ELSE ParseResourceUri(uri)
-----------------------------------------------------------------------------
(* A tool's request reaches the route it is for, and names there the very  *)
(* knowledge base and key the caller named, with every condition given and *)
(* no other, under the caller's own credential; a call is refused only for *)
(* a name the API would refuse, or for want of a caller (args.rs, client_for). *)
ToolsReachTheirRoute(server, caller, tool, args) ==
  LET out == CallTool(server, caller, tool, args)
      aims == CASE tool \in {"write", "delete"} -> [route |-> "object", kb |-> args.kb, key |-> Stripped(args.path)]
                [] tool \in {"list", "objects"} -> [route |-> "kb", kb |-> args.kb, key |-> None]
                [] tool \in {"search", "events"} -> [route |-> tool, kb |-> args.kb, key |-> <<tool>>]
                [] tool = "index_status" -> [route |-> "index", kb |-> args.kb, key |-> <<"index">>]
                [] tool = "list_knowledgebases" -> [route |-> "kbs", kb |-> None, key |-> None]
      takes == CASE tool = "write" -> {"type", "ifMatch", "ifNoneMatch"} [] tool = "delete" -> {"ifMatch"}
                 [] tool = "list" -> {"prefix", "limit", "cursor"} [] tool = "objects" -> {"prefix", "cursor"}
                 [] tool = "events" -> {"lastEventId"} [] OTHER -> {}
  IN  IF tool \in {"events", "objects"} /\ ~IsKbSlug(args.kb) THEN TRUE
      ELSE IF out.ok
      THEN /\ Names(out.url) = aims /\ DOMAIN out.headers \subseteq takes
           /\ out.bearer = (IF caller.kind = "bearer" THEN caller.token ELSE None)
           /\ out.source = "mcp"
           /\ \A n \in takes : IF args[n] = None THEN n \notin DOMAIN out.headers ELSE out.headers[n] = args[n]
      ELSE \/ caller = None
           \/ tool # "list_knowledgebases" /\ ~IsKbSlug(args.kb)
           \/ tool \in {"write", "delete"} /\ ~IsObjectKey(args.path)

(* What initialize advertises is what is served: subscribe is answered     *)
(* exactly on a server that said so, and a listed page leaves a watch on   *)
(* the one knowledge base it showed and on none that it refused (D66).     *)
AdvertisedIsServed(server, caller, kbs, listings, cursor, uri) ==
  LET listed == ListResourcesMethod(server, caller, kbs, listings, cursor)
      tried == Subscribe(server, caller, uri, TRUE)
      undone == Unsubscribe(server, uri)
  IN  /\ "subscribe" \in GetInfo(server) <=> (tried.ok \/ tried.why # "method_not_found")
      /\ "subscribe" \in GetInfo(server) <=> (undone.ok \/ undone.why # "method_not_found")
      /\ tried.ok => undone = tried
      /\ "listChanged" \notin GetInfo(server) => listed.watched = {}
      /\ listed.watched # {} =>
           /\ listed.page.ok
           /\ \A i \in 1..Len(listed.page.resources) : listed.page.resources[i].host \in listed.watched
      /\ ("listChanged" \in GetInfo(server) /\ listed.page.ok) =>
           \A i \in 1..Len(listed.page.resources) : listed.page.resources[i].host \in listed.watched

-----------------------------------------------------------------------------
(***************************************************************************)
(* The incremental parser the subscription forwarders read event streams   *)
(* with.  A stream is a sequence of bytes cut into chunks anywhere.  A     *)
(* byte is a character of its own ("\n", "\r", ":", " ", a field name or a *)
(* letter), or the first ("hi") or second ("lo") byte of a character of    *)
(* two; one of these without the other is no character.                    *)
(***************************************************************************)
CONSTANTS MaxPending

Start == [text |-> <<>>, partial |-> <<>>, out |-> <<>>]

(* decode: whole characters go to the text, a byte that can be no part of  *)
(* one is replaced, and a character the chunk cut in two waits for the     *)
(* next.                                                                   *)
RECURSIVE DecodeTextEach(_, _)
DecodeTextEach(s, bytes) ==
  IF bytes = <<>> THEN s
  ELSE IF bytes[1] = "hi" /\ Len(bytes) > 1 /\ bytes[2] = "lo"
  THEN DecodeTextEach([s EXCEPT !.text = Append(@, "wide")], SubSeq(bytes, 3, Len(bytes)))
  ELSE DecodeTextEach([s EXCEPT !.text = Append(@, IF bytes[1] \in {"hi", "lo"} THEN "replaced"
                                               ELSE bytes[1])], Tail(bytes))
RECURSIVE DecodeText(_, _)
DecodeText(s, bytes) ==
  IF bytes = <<>> THEN s
  ELSE IF bytes = <<"hi">> THEN [s EXCEPT !.partial = bytes]
  ELSE IF bytes[1] = "hi" /\ bytes[2] = "lo"
  THEN DecodeText([s EXCEPT !.text = Append(@, "wide")], SubSeq(bytes, 3, Len(bytes)))
  ELSE DecodeText([s EXCEPT !.text = Append(@, IF bytes[1] \in {"hi", "lo"} THEN "replaced"
                                                ELSE bytes[1])], Tail(bytes))

(* find_blank_line: the earliest of the four needles.                      *)
Needles == {<<"\r", "\n", "\r", "\n">>, <<"\n", "\n">>, <<"\r", "\n", "\n">>, <<"\n", "\r", "\n">>}
Holds(text, i, needle) ==
  i + Len(needle) - 1 <= Len(text) /\ SubSeq(text, i, i + Len(needle) - 1) = needle
BlankLine(text) ==
  LET at == {<<i, n>> \in (1..Len(text)) \X Needles : Holds(text, i, n)}
  IN  IF at = {} THEN None
      ELSE CHOOSE p \in at : \A q \in at : p[1] <= q[1]

(* parse_block: a field per line; a colon opens a comment or ends a name,  *)
(* and one space after it belongs to neither.                              *)
Lines(block) ==
  LET cuts == {0, Len(block) + 1} \cup {i \in 1..Len(block) : block[i] = "\n"}
      starts == SetToSortSeq(cuts \ {Len(block) + 1}, <)
      line(i) == SubSeq(block, i + 1, Min({j \in cuts : j > i}) - 1)
      bare(l) == IF l # <<>> /\ Last(l) = "\r" THEN Front(l) ELSE l
  IN  [i \in 1..Len(starts) |-> bare(line(starts[i]))]
FieldOf(line) ==
  LET colons == {i \in 1..Len(line) : line[i] = ":"}
      c == IF colons = {} THEN Len(line) + 1 ELSE Min(colons)
      value == SubSeq(line, c + 1, Len(line))
  IN  [name |-> SubSeq(line, 1, c - 1),
       value |-> IF value # <<>> /\ value[1] = " " THEN Tail(value) ELSE value]
Values(lines, name) ==
  LET those == SelectSeq(lines, LAMBDA line : FieldOf(line).name = <<name>>)
  IN  [i \in 1..Len(those) |-> FieldOf(those[i]).value]
Joined(data) == FlattenSeq([i \in 1..Len(data) |-> IF i = 1 THEN data[i] ELSE <<"\n">> \o data[i]])
LastOf(values) == IF values = <<>> THEN None ELSE Last(values)
EventOf(lines) ==
  IF lines = <<>> THEN None
  ELSE [id |-> LastOf(Values(lines, "id")), event |-> LastOf(Values(lines, "event")),
        retry |-> LastOf(Values(lines, "retry")), data |-> Joined(Values(lines, "data"))]
ParseBlock(block) ==
  EventOf(SelectSeq(Lines(block), LAMBDA line : line # <<>> /\ line[1] # ":"))

Emit(out, event) == IF event = None THEN out ELSE Append(out, event)
DrainOne(s, end) ==
  [s EXCEPT !.text = SubSeq(@, end[1] + Len(end[2]), Len(@)),
            !.out = Emit(@, ParseBlock(SubSeq(s.text, 1, end[1] - 1)))]
RECURSIVE Drain(_)
Drain(s) ==
  IF BlankLine(s.text) = None THEN s ELSE Drain(DrainOne(s, BlankLine(s.text)))

(* feed; a frame that never ends is dropped.                               *)
Pending(s) == Len(s.text) + Len(s.partial)
Bounded(s) == IF Pending(s) > MaxPending THEN [s EXCEPT !.text = <<>>, !.partial = <<>>] ELSE s
Feed(s, bytes) == Bounded(Drain(DecodeText([s EXCEPT !.partial = <<>>], s.partial \o bytes)))
FeedAll(chunks) == FoldLeft(Feed, Start, chunks)
-----------------------------------------------------------------------------
(* Where the transport cuts a stream is not seen: whatever the chunks, a   *)
(* multi-byte character, a line end or a blank line cut in two included,   *)
(* the parser hands back the events of the whole stream, and holds what it *)
(* would hold, as long as no frame is longer than it may be.               *)
FramesDoNotDependOnChunks(chunks) ==
  LET whole == FlattenSeq(chunks)
      bounded == \A n \in 0..Len(whole) :
                   Pending(Drain(DecodeText(Start, SubSeq(whole, 1, n)))) <= MaxPending
  IN  bounded => FeedAll(chunks) = Feed(Start, whole)

=============================================================================
