---------------------------- MODULE MCAlgorithms ----------------------------
(***************************************************************************)
(* The functions that take texts, streams and headers apart, each on small  *)
(* inputs.  A behaviour picks a subject, then one input of it; the subject  *)
(* "edit" is EditSession's, a state machine of its own.                     *)
(***************************************************************************)
EXTENDS EditSession, FiniteSets, TLC

VARIABLES subject,   \* which function is looked at, None at first
          input      \* what it is given, None until it is chosen

Words(letters, n) == UNION {[1 .. k -> letters] : k \in 0 .. n}

IsAbout(s) == subject = s /\ input # None

-----------------------------------------------------------------------------
(* The texts EditSession's requests carry: with them every text of up to     *)
(* four bytes of which some are line breaks is reached.                      *)
MCBodies == {<<>>, <<"x">>, <<LF>>, <<CR>>, <<"x", "x">>, <<CR, LF>>}

(* An edit does what its numbers say: an accepted one replaces exactly the   *)
(* lines it names, a refused one is at fault, a Content-Range names the      *)
(* slice beside it, what was read can be written back unchanged under the    *)
(* numbers the read reported, and a replace cuts at the matches and counts   *)
(* them (docs/API.md:1174, :1183, tools/read.rs, replace.rs).                *)
EditsAreExact ==
    /\ EditReplacesItsLines /\ EditIsRefusedForCause
    /\ ContentRangeNamesTheSlice
    /\ ReadThenEditChangesNothing
    /\ ReplaceCutsAtMatches

-----------------------------------------------------------------------------
(* Notes: the chunker, the snapshot of an object that is being indexed, its *)
(* batches, and the preview in a search result.                             *)
Yaml(s) == IF "a" \in ToSet(s) THEN "t" ELSE None

Doc == INSTANCE Documents WITH WordBackoff <- 2, MemoryThreshold <- 2

Line(is, chars) ==
    [is |-> is, lead |-> 0, quote |-> 0, indent |-> 0, ticks |-> 3, closes |-> FALSE,
     depth |-> 1, chars |-> chars]

Lines ==
    {Line("text", <<"x", "x", Doc!LF>>), Line("text", <<"u", "u", " ", "x", "u">>),
     Line("blank", <<Doc!LF>>), Line("text", <<"x", Doc!CR, Doc!LF>>), Line("atx", <<"x", "x", Doc!LF>>),
     [Line("atx", <<"u", Doc!LF>>) EXCEPT !.depth = 2], Line("underline", <<"x", Doc!LF>>),
     Line("fence", <<"x", "x", Doc!LF>>)}

\* Only the last line may lack its line feed.
Notes == {d \in Words(Lines, 3) : \A i \in 1 .. Len(d) - 1 : Last(d[i].chars) = Doc!LF}

Cuts == {<<a, b, c>> : a \in Words({"a", "L", "C", "X"}, 2), b \in Words({"a", "L", "C"}, 1),
                       c \in Words({"a", "L", "C"}, 2)}

NoteInputs ==
    [chunk    |-> [lines : Notes, size : {<<1, 0>>, <<4, 1>>, <<8, 2>>}],
     observe  |-> [chunks : Cuts, limit : 0 .. 4],
     body     |-> [object : [md : BOOLEAN, reserved : BOOLEAN], text : Words({"a", "n", "-"}, 4),
                   seek : [from : {"start"}, by : 0 .. 2] \cup [from : {"current", "end"}, by : -2 .. 1]],
     batch    |-> [chunks : Words({1, 2, None}, 4), start : 0 .. 2, size : 1 .. 2],
     preview  |-> [text : Words({"a", " "}, 5), max : 0 .. 4]]

(* A note is indexed whole and as it is stored: its chunks cover the text,   *)
(* in order, within their size and on character boundaries, under the        *)
(* headings they stand under; what the snapshot learns does not depend on    *)
(* how the bytes arrived, not even in the middle of a character; the body is *)
(* what follows the frontmatter wherever a reader seeks; chunk numbers run   *)
(* through the batches without a gap; and a preview is a beginning of the    *)
(* text (chunker, snapshot.rs, pipeline.rs, preview.rs).                     *)
NotesAreCutSoundly ==
    /\ IsAbout("chunk") => Doc!ChunksAreSound(Doc!Document(input.lines, input.size[1], input.size[2]))
    /\ IsAbout("observe") => Doc!SnapshotIgnoresChunks(input.chunks, input.limit)
    /\ IsAbout("body") => Doc!BodyFollowsFrontmatter(input.object, input.text, input.seek)
    /\ IsAbout("batch") => Doc!BatchesNumberChunks(input.chunks, input.start, input.size)
    /\ IsAbout("preview") => Doc!PreviewsAreHonest(input.text, input.max)

-----------------------------------------------------------------------------
(* Streams: an upload staged in memory or on disk, the event stream an MCP   *)
(* server follows, the pages of a listing.                                   *)
Mcp == INSTANCE McpTools WITH
        Reserved <- {<<"index">>, <<"search">>, <<"events">>, <<"index", "/", "r">>},
        IsKbSlug <- LAMBDA s : s \in {<<"k">>, <<"index">>}, MaxPending <- 4

Re == INSTANCE Reconcile WITH
        KeyKind <- <<"plain", "reserved", "plain", "invalid">>, NoEtag <- None

Uploads ==
    {<<>>, << <<1>> >>, << <<1, 2>> >>, << <<1, 2, 3>> >>, << <<1>>, <<2>> >>, << <<1, 2>>, <<3>> >>,
     << <<1>>, <<2, 3>> >>, << <<1>>, <<2>>, <<3>> >>, << <<1>>, <<2, 3>>, <<>>, <<4>> >>}

Faults ==
    {Doc!NoFault} \cup [at : {"create", "spill", "sync"}, n : {0}] \cup [at : {"read", "write"}, n : 1 .. 3]

Frames == Words({"\n", "\r", ":", "data", "hi", "lo"}, 4)

\* A stream cut in three, at two places that may coincide.
InThree(s, cut) ==
    LET i == Lesser(cut[1], Len(s))  j == Lesser(cut[2], Len(s))
    IN  <<SubSeq(s, 1, i), SubSeq(s, i + 1, j), SubSeq(s, j + 1, Len(s))>>

Answers ==
    {None} \cup {Re!S3ListObjects([objects |-> <<n>>, flag |-> f, token |-> t]) :
                    n \in 1 .. 2, f \in {None, "true", "false"}, t \in {None, "x", "y"}}
           \cup [objects : {<<>>, <<3>>}, truncated : {TRUE}, next : {None, "x"}]

StreamInputs ==
    [stage |-> [chunks : Uploads, expected : {None} \cup 0 .. 4, limit : 0 .. 4, force : BOOLEAN,
                fault : Faults],
     sse   |-> [stream : Frames, cut : {c \in (0 .. 4) \X (0 .. 4) : c[1] <= c[2]}],
     walk  |-> [answers : Words(Answers, 3)]]

-----------------------------------------------------------------------------
(* A comparison of storage and index.                                        *)
Sides == {SelectSeq(<<1, 2, 3, 4>>, LAMBDA k : k \in ks) : ks \in SUBSET (1 .. 4)}

Tagged == UNION {{[i \in DOMAIN side |-> <<side[i], tags[side[i]]>>] : tags \in [1 .. 4 -> {"e", "f"}]} :
                    side \in Sides}

CompareInputs == [compare |-> [stored : Tagged, indexed : Tagged, from : 1 .. 2]]

(* A stream means the same however it is cut, and never counts as whole      *)
(* before it is: an upload is staged byte for byte or refused, whether it    *)
(* stays in memory or spills, and leaves no file behind when it fails; the   *)
(* frames of an event stream do not depend on its chunks; and a walk of a    *)
(* listing that cannot be followed to its end is an error, since a shorter   *)
(* one would remove the rest from the index.  A comparison of two listings   *)
(* names every key that differs and only those, whatever keys storage and    *)
(* index hold beside each other, under a prefix or not, with keys among them *)
(* that are private or cannot be parsed (staging.rs, sse.rs,                 *)
(* reconcile.rs:301-317 and compare).                                        *)
StreamsArriveWhole ==
    /\ IsAbout("stage") =>
         Doc!StagesTheWholeBody(input.chunks, input.expected, input.limit, input.force, input.fault)
    /\ IsAbout("sse") => Mcp!FramesDoNotDependOnChunks(InThree(input.stream, input.cut))
    /\ IsAbout("walk") => Re!WalksAreWhole(input.answers)
    /\ IsAbout("compare") =>
         Re!ComparesExactly(SelectSeq(input.stored, LAMBDA e : e[1] >= input.from), input.indexed,
                            input.from .. 4)

-----------------------------------------------------------------------------
(* Conditions: the headers of a conditional request and WebDAV's If header.  *)
Pre == INSTANCE StorageContract WITH
        Malformed <- Absent, ManifestKey <- <<0>>, MaxPage <- 2,
        Before <- LAMBDA a, b : a[1] < b[1] \/ (a[1] = b[1] /\ Len(a) < Len(b)),
        HasPrefix <- LAMBDA k, p : IsPrefix(p, k)

If == INSTANCE IfHeader

Tags == {None, Pre!Star, <<Pre!Strong("e")>>, <<[weak |-> TRUE, tag |-> "e"]>>,
         <<Pre!Strong("f"), Pre!Strong("e")>>, <<Pre!Strong("f")>>}

Dates == {None, Absent, 0, 1, 2}

Conditions == {If!Term(not, etag) : not \in BOOLEAN, etag \in {None, "e"}}

Lists == Words(Conditions, 2) \ {<<>>}

Groups ==
    {<<[tag |-> t, lists |-> ls]>> : t \in {None, "token", "t"}, ls \in Words(Lists, 2) \ {<<>>}}
    \cup {<<[tag |-> t, lists |-> <<l>>], [tag |-> u, lists |-> <<m>>]>> :
            t, u \in {"token", "t"}, l, m \in Lists}
    \cup {<<[tag |-> None, lists |-> <<l>>]>> : l \in Words(Conditions, 3) \ {<<>>}}

Written == {If!WriteGroups(g) : g \in Groups}

Lexemes == {<<"(">>, <<")">>, <<"not">>, <<"angle", "token">>, <<"etag", "e">>, <<"bad">>}

ConditionInputs ==
    [condition |-> [mtime : {9, 10, 19}, ifMatch : Tags, ifNoneMatch : Tags, modified : Dates,
                    unmodified : Dates],
     contract  |-> [held : [{<<1>>, <<1, 2>>, <<2>>} -> {None, "x", "yy"}], key : {<<1>>, <<2>>},
                    other : {<<1, 2>>, <<2>>}, first : {"x", "yy"}, second : {"x", "yy"},
                    tag : {"x", "yy"}, limit : 1 .. 2],
     groups    |-> [groups : Groups],
     lexemes   |-> [header : Words(Lexemes, 5)]]


-----------------------------------------------------------------------------
(* Names: slugs, keys and their files, WebDAV paths, the patterns of access  *)
(* rules, content types.                                                     *)
Gl == INSTANCE Glob WITH MaxAlternatives <- 3

Decoded == "kb" :> <<"kb">> @@ "%61" :> <<"a">> @@ "" :> <<"">> @@ ".." :> <<"..">>
           @@ "%2e%2e" :> <<"..">> @@ "a%2Fb" :> <<"a", "b">> @@ "%5C" :> <<"\\">>
           @@ "x" :> <<"x">> @@ "webdav" :> <<"webdav">>

Nm == INSTANCE Names WITH
        KbMax <- 3, TenantMax <- 3, BucketMax <- 8, SegmentMax <- 2,
        Decode <- LAMBDA raw : IF raw = "%ff" THEN Absent ELSE Decoded[raw],
        NotUtf8 <- Absent,
        IsSlug <- LAMBDA s : s \in {"kb", "x", "a", "webdav"},
        IsObjectPath <- LAMBDA k : \A i \in DOMAIN k : k[i] \notin {"", ".", ".."},
        Odd <- {"\\"},
        Lower <- LAMBDA w : IF w = "MD" THEN "md" ELSE w, LatestFormattable <- 9

Slugs == Words({"a", "-"}, 3)

FileKeys == Words({"a", ".ntmeta", ".notedthat-tmp-", "/", "."}, 3)

Types == {None, Nm!Markdown, Nm!OctetStream, Nm!Png, [Nm!Markdown EXCEPT !.charset = <<"latin-1">>],
          [Nm!Json EXCEPT !.charset = <<"utf-8", "utf-8">>], Nm!Parsed("application", "x", "xml", <<>>),
          [Nm!Plain("text", "broken") EXCEPT !.parses = FALSE]}

FileNames == [stem : {"", "md", "a"}, ext : {None, "md", "MD", "txt", "png", "json", ""}]

NameInputs ==
    [slug    |-> [tenant : Words({"a", "-", "A"}, 3)],
     key     |-> [key : FileKeys],
     pattern |-> [source : Words({"a", "*", "?", "/", "{", ",", "}"}, 4)
                           \cup {<<"{", "a", ",", "a", "b", "}", "/", "*">>, <<"*", "*", "/", "a", "/", "*", "b">>,
                                 <<"a", "*", "a", "b", "*", "b">>, <<"*", "*", "/", "a", "/", "*", "*", "/", "b">>}],
     path    |-> [path : Words(DOMAIN Decoded \cup {"%ff"}, 4) \ {<<>>}],
     type    |-> [declared : Types, key : FileNames, destination : FileNames]]

(* A name means one thing, and the same thing everywhere it is read: no two  *)
(* knowledge bases share a bucket and no two keys a file; a WebDAV path is   *)
(* the same object to the middleware and to the filesystem behind it; a      *)
(* pattern matches what its constructs are documented to, whatever the       *)
(* matcher tries first; and a content type settles, so that writing back     *)
(* what was read, or copying it, keeps it (bucket_name.rs, layout.rs,        *)
(* path_validation.rs, pattern.rs, mime.rs).                                 *)
NamesMeanOneThing ==
    /\ IsAbout("slug") => Nm!BucketsAreDistinct({input.tenant} \cup {<<"a">>, <<"a", "-", "a">>}, Slugs)
    /\ IsAbout("key") =>
         Nm!KeysHaveTheirOwnFiles(Nm!DeriveBucketName(<<"a">>, <<"b">>), input.key,
             {<<"/">> \o input.key, Append(input.key, ".ntmeta")} \cup Words({"a", ".ntmeta", "/"}, 2),
             {<<>>, <<"a">>})
    /\ IsAbout("pattern") => \A key \in Words({"a", "b", "/"}, 3) \ {<<>>} :
         Gl!Parse(input.source) # <<>> =>
             (Gl!PatternMatches(input.source, key) <=> Gl!Fits(input.source, key))
    /\ IsAbout("path") => Nm!PathsMeanOneThing(input.path, {"kb"})
    /\ IsAbout("type") => Nm!TypesSettle(input.declared, input.key, input.destination)

-----------------------------------------------------------------------------
(* What an operator writes: the command line and a manifest, in storage and  *)
(* on a disk that fails.                                                     *)
Co == INSTANCE Configuration WITH
        MaxMode <- 8, MinDebounce <- 2, MaxDebounce <- 3, MaxPermits <- 3, MaxUploadBytes <- 3,
        MaxReplicas <- 3, MinWindow <- 2, DefaultMaxAge <- 4,
        DisplayNameMax <- 2, DescriptionMax <- 2, WholeKb <- "**",
        ManifestKey <- "manifest", ManifestMaxBytes <- 2,
        Valid <- {"m", "n"}

Amount == {Co!Is("blank"), Co!Is("word"), Co!Number(0), Co!Number(2), Co!Number(9)}

\* Values a setting may be given, one of each kind its parser tells apart.
Ways == [s \in Co!Settings |->
    CASE s = "kbs" -> {Co!Is("word"), Co!Is("commas"), Co!Is("same twice"), Co!Is("bad slug")}
      [] s \in {"listen_addr", "metrics_listen_addr"} -> {Co!Is("addr"), Co!Is("blank"), Co!Is("word")}
      [] s \in {"metrics_enabled", "fs_watch", "fs_allow_lossy_names", "nats_tls_required", "s3_reconcile",
                "s3_force_path_style", "s3_allow_unenforced_conditional_writes"} ->
            {Co!Is("true"), Co!Is("padded true"), Co!Is("word")}
      [] s \in {"oidc_issuer", "oidc_resource", "embedding_endpoint_url", "nats_url"} ->
            {Co!Is("url"), Co!Is("url with query"), Co!Is("url with user"), Co!Is("word")}
      [] s \in {"oidc_audience", "mcp_http_allowed_origins", "mcp_http_allowed_hosts"} ->
            {Co!Is("word"), Co!Is("commas"), Co!Is("blank")}
      [] s \in {"oidc_ca_cert", "fs_root", "upload_tmp_dir", "nats_creds_file", "nats_nkey_seed_file",
                "nats_tls_ca_file", "nats_tls_cert_file", "nats_tls_key_file"} ->
            {Co!Is("empty"), Co!Is("file"), Co!Is("absolute")}
      [] s = "storage_backend" -> {Co!Is("s3"), Co!Is("fs"), Co!Is("word")}
      [] s = "events_backend" -> {Co!Is("none"), Co!Is("memory"), Co!Is("nats"), Co!Is("empty")}
      [] s = "log_format" -> {Co!Is("json"), Co!Is("word")}
      [] s = "fs_metadata" -> {Co!Is("sidecar"), Co!Is("word")}
      [] s = "nats_storage" -> {Co!Is("file"), Co!Is("memory"), Co!Is("word")}
      [] s = "mcp_anonymous" -> {Co!Is("auto"), Co!Is("never"), Co!Is("blank"), Co!Is("word")}
      [] s \in {"fs_file_mode", "fs_dir_mode"} -> {Co!Number(1), Co!Number(9), Co!Is("empty")}
      [] s = "fs_watch_debounce_ms" -> {Co!Number(1), Co!Number(2), Co!Number(4)}
      [] s \in Co!RequestSettings \cup
               {"nats_duplicate_window_secs", "nats_max_age_secs", "nats_replicas", "max_patchable_size",
                "max_requests_in_flight", "ready_probe_interval_ms", "oidc_http_timeout_ms",
                "mcp_max_read_bytes", "mcp_max_sessions", "qdrant_timeout_ms",
                "qdrant_connect_timeout_ms", "embedding_dimensions", "embedding_batch_size",
                "index_concurrency", "embedding_timeout_ms", "embedding_max_retries",
                "embedding_max_input_tokens", "events_memory_capacity"} -> Amount
      [] OTHER -> {Co!Is("empty"), Co!Is("word")}]

Required ==
    [s \in {"api_token", "kbs", "webdav_username", "webdav_password", "qdrant_url", "embedding_model",
            "embedding_api_key"} |-> Co!Is("word")]
    @@ "embedding_endpoint_url" :> Co!Is("url") @@ "embedding_dimensions" :> Co!Number(2)

\* Three command lines that start: S3 alone, S3 with NATS and OIDC, the filesystem.
Bases ==
    LET s3 == [s \in {"s3_region", "s3_access_key_id", "s3_secret_access_key"} |-> Co!Is("word")]
    IN  <<Required @@ s3,
          Required @@ s3 @@ "events_backend" :> Co!Is("nats") @@ "nats_url" :> Co!Is("url")
              @@ "oidc_issuer" :> Co!Is("url") @@ "oidc_audience" :> Co!Is("word"),
          Required @@ "storage_backend" :> Co!Is("fs") @@ "fs_root" :> Co!Is("absolute")
              @@ "events_backend" :> Co!Is("memory")>>

\* A base with one setting changed or taken away, and perhaps a switch thrown.
CommandLine(i) ==
    [s \in Co!Settings |->
        IF s = i.first THEN i.value
        ELSE IF s = i.switch[1] THEN i.switch[2]
        ELSE IF s \in DOMAIN Bases[i.base] THEN Bases[i.base][s] ELSE None]

Switches == {<<"", None>>, <<"storage_backend", Co!Is("fs")>>, <<"events_backend", Co!Is("nats")>>,
             <<"events_backend", Co!Is("memory")>>, <<"oidc_issuer", None>>,
             <<"nats_max_age_secs", Co!Number(2)>>}

Changes == UNION {[base : 1 .. 3, first : {s}, value : Ways[s] \cup {None}, switch : Switches] :
                    s \in Co!Settings}

Rules == [who : {[kind |-> "anyone", name |-> <<>>], [kind |-> "user", name |-> <<"group:">>]},
          effect : {"allow", "deny"}, verbs : {{}, {"read"}, {"write"}}, under : {<<>>, <<"**">>, <<"a", "**">>}]

RuleTexts == [who : {<<"anyone">>, <<"user:">>, <<"group:", "g">>, <<"signed-in", "x">>},
              may : {None, {"read"}}, mayNot : {None, {"read"}}, under : {None, <<"**">>, <<"a">>}]

Manifests ==
    {[Co!NewV1("t", <<"k">>) EXCEPT !.kb = kb, !.version = v, !.displayName = d, !.embedding = e,
                                    !.access = a] :
        kb \in {<<"k">>, <<"l">>}, v \in 1 .. 2, d \in {<<"x">>, <<" ">>, <<"x", "LF">>, <<"x", " ", "x">>},
        e \in {None, "m", "n"}, a \in Words(Rules, 1)}

DiskFaults ==
    [at : {None, "stat", "mkdir", "read", "stage", "write", "flush", "mode", "sync", "metadata", "persist",
           "sidecar"},
     kind : {"NotFound", "PermissionDenied", "NotADirectory", "StorageFull", "Interrupted"}]

OperatorInputs ==
    [settings |-> Changes,
     policy   |-> [rules : Words(Rules, 2)],
     manifest |-> [size : 1 .. 3, doc : Manifests \cup {None}],
     disk     |-> [tree : {Co!Tree("absent", None, None), Co!Tree("file", None, None)}
                          \cup {Co!Tree("dir", m, r) : m \in {None, "m", "broken"}, r \in {None, "m"}},
                   body : {"m", "n"}, fault : DiskFaults]]

(* Nothing an operator writes is silently ignored or lost: a setting of a    *)
(* backend that is not in use, or one out of range, stops the start and the  *)
(* message names a setting to change; a manifest is read back as the rules   *)
(* that were written, and one that any surface accepts is the one the next   *)
(* start serves; and a disk that fails leaves the old manifest or the new    *)
(* one and is never reported as a missing one (config.rs, kb.rs,             *)
(* manifest.rs, storage-fs/storage.rs).                                      *)
OperatorsAreHeeded ==
    /\ IsAbout("settings") => LET cli == CommandLine(input)
                              IN  Co!NothingIsIgnored(cli, Ways) /\ Co!BlameIsJust(cli, Ways)
    /\ IsAbout("policy") => Co!PoliciesSurviveRewriting(input.rules, RuleTexts)
    /\ IsAbout("manifest") => /\ Co!AcceptedManifestsBoot("t", <<"k">>, input, "m")
                              /\ Co!FreshManifestsAreValid("t", <<"k">>)
    /\ IsAbout("disk") => Co!ManifestsAreSafe(input.tree, input.body, input.fault)

Hr == INSTANCE HttpRouting WITH
        Keys <- {<<"a">>, <<"b">>, <<".nt">>, <<"a", "b">>}, Patterns <- {"**", "a/**"},
        Matches <- LAMBDA p, k : p = "**" \/ k[1] = "a",
        LiteralFirst <- LAMBDA p : IF p = "**" THEN None ELSE "a",
        FirstSegment <- LAMBDA k : k[1],
        Internal <- ".nt", WholeKb <- "**", JsonSlack <- 1,
        MalformedKey <- LAMBDA k : \E i \in DOMAIN k : k[i] = "",
        MalformedSlug <- LAMBDA s : s = "BAD"

-----------------------------------------------------------------------------
(* Requests to the HTTP API: policies of one rule, every route, and the      *)
(* headers that tell the parsers apart.                                      *)
Subjects == {[kind |-> "anyone", name |-> None], [kind |-> "signed-in", name |-> None],
             [kind |-> "user", name |-> "u"]}

Policies ==
    {p \in {{}} \cup {{r} : r \in
        [who : Subjects, verbs : {{"list"}, {"read"}, {"search"}, {"write", "delete"}},
         under : {{"**"}, {"a/**"}}, effect : {"allow"}]} : Hr!Valid(p)}

Auth(resource) == [service |-> <<"svc">>, basic |-> None, resource |-> resource,
                   vouched |-> [t \in {<<"tok">>} |-> Hr!User("u", {})]]

Site(policy, auth, reconcile) ==
    [declared |-> {"kb"}, policies |-> [s \in {"kb"} |-> policy], auth |-> auth, events |-> TRUE,
     reconcile |-> reconcile, maxBody |-> 2, maxPatch |-> 1, maxSearch |-> 1]

Sites == {Site(p, Auth(None), None) : p \in Policies}
         \cup {Site(p, Auth([origin |-> "o", path |-> <<"mcp">>]), "busy") : p \in Policies}

Requests ==
    [method : {"GET", "HEAD", "PUT", "PATCH", "DELETE", "POST"},
     path : {<<"kbs">>} \cup {<<"kbs", s>> : s \in {"kb", "other"}}
            \cup {<<"kbs", "kb", s>> : s \in {"search", "events", "index", "a", "b", ".nt", ""}}
            \cup {<<"kbs", "BAD", "search">>, <<"kbs", "kb", "index", "reconcile">>,
                  <<"kbs", "kb", "replace", "a">>, <<"kbs", "other", "a">>},
     headers : {<<>>, << <<"Bearer", "svc">> >>, << <<"bearer", "tok">> >>, << <<"Bearer", "x">> >>,
                << <<"Basic", "svc">> >>, << <<"Bearer", "svc">>, <<"Bearer", "svc">> >>}]

RequestBodies ==
    {[length |-> None, size |-> s, ifMatch |-> m, wellFormed |-> w, queryOk |-> TRUE] :
        s \in {1, 3}, m \in {None, "*", "not text"}, w \in BOOLEAN}
    \cup {[length |-> n, size |-> n, ifMatch |-> m, wellFormed |-> TRUE, queryOk |-> q] :
            n \in {0, 2}, m \in {None, "one"}, q \in BOOLEAN}

-----------------------------------------------------------------------------
(* Calls of the MCP tools and of its resources.                              *)
Paths == {<<>>, <<"a">>, <<"/", "a">>, <<"a", "/", "a">>, <<"%", "2", "F">>, <<"a", " ">>, <<"a", "%">>,
          <<"index">>, <<"/", "index">>, <<"index", "/", "a">>, <<"a", "/">>, <<".", ".">>, <<".">>,
          <<"a", "/", ".", ".">>}

Servers == [events : BOOLEAN, client : {Mcp!NewClient([scheme |-> "http", host |-> "h"], <<"s">>)}]

Callers == {None, [kind |-> "bearer", token |-> <<"t">>], [kind |-> "anonymous", token |-> None]}

ToolArgs ==
    {args @@ ("lastEventId" :> args.prefix) : args \in
            [kb : {<<"k">>, <<"index">>, <<".", ".">>, <<>>}, path : Paths, type : {None},
             ifMatch : {None, "v"}, ifNoneMatch : {None, "v"}, prefix : {None, "v"}, limit : {None},
             cursor : {None}]}

Visible == {<<>>, <<"k">>, <<"k", "l">>}

Refusals(whys) == {[ok |-> FALSE, why |-> w] : w \in whys}

Listed == Refusals({"Forbidden"})
          \cup {[ok |-> TRUE, pages |-> p] : p \in {<< <<>> >>, << << <<"a">>, <<"b">> >>, << <<"c">> >> >>}}
          \cup {[ok |-> TRUE, pages |-> << <<p>>, << <<"a", "a">> >> >>] : p \in Paths \ {<<>>}}

Found == Refusals({"Forbidden", "NotFound", "BackendUnavailable"})
         \cup [ok : {TRUE}, hits : {<<>>, <<1>>}]

SurfaceInputs ==
    [request  |-> [site : Sites, request : Requests],
     failure  |-> [writes : {Hr!WriteErrors(0 .. 1, {None, "e"}, {None, "d"}, 2 .. 3)}],
     tool     |-> [server : Servers, caller : Callers, args : ToolArgs,
                   tool : {"write", "delete", "list", "index_status", "list_knowledgebases", "search",
                           "events", "objects"}],
     resource |-> [server : Servers, caller : Callers, kbs : Visible, listings : [{"k", "l"} -> Listed],
                   cursor : {None} \cup [kb : {"k", "m"}, page : {0}],
                   uri : {Mcp!ResourceFor("k", <<"a">>), [scheme |-> "file", host |-> "k", path |-> <<"a">>]}],
     ask      |-> [kbs : Visible, answers : [{"k", "l", "z"} -> Found],
                   named : {<<>>, <<"k">>, <<"l", "k">>, <<"k", "k">>, <<"z", "k">>, <<"BAD">>}],
     download |-> [chunks : Uploads, declared : {None} \cup 0 .. 3, limit : 1 .. 3, utf8 : BOOLEAN,
                   type : {None} \cup [essence : {"", "text", "octet-stream"}, charset : {None, "utf-8"}]]]

(* A request is judged in the documented order and its answer keeps its      *)
(* meaning on the way to the caller: routing, credentials, access, existence *)
(* and size decide in turn, so that a knowledge base that is not declared    *)
(* and one the caller may not see are answered alike; a failed write has one *)
(* status on HTTP and WebDAV, asks for a retry exactly when the bytes are    *)
(* stored, and blames an MCP caller exactly when the caller is at fault; a   *)
(* tool reaches the route of its arguments and no other; and what the MCP    *)
(* resources and searches leave out is said to be left out (router, authz.rs,*)
(* error.rs, mcp/error.rs, args.rs, resources_list.rs, search.rs).           *)
RequestsAreJudged ==
    /\ IsAbout("request") => \A body \in RequestBodies :
         Hr!RequestsAreJudgedInOrder(input.site, input.request @@ body)
    /\ IsAbout("failure") => Hr!FailuresKeepTheirMeaning(input.writes)
    /\ IsAbout("tool") => Mcp!ToolsReachTheirRoute(input.server, input.caller, input.tool, input.args)
    /\ IsAbout("resource") =>
         /\ Mcp!AdvertisedIsServed(input.server, input.caller, input.kbs, input.listings, input.cursor, input.uri)
         /\ Mcp!ResourcesLeadToObjects(input.kbs, input.listings)
    /\ IsAbout("ask") => Mcp!SearchAccountsForEach(input.named, input.kbs, {"k", "l", "z"}, input.answers)
    /\ IsAbout("download") => /\ Mcp!ReadsAreWhole(input.chunks, input.declared, input.limit)
                              /\ Mcp!TypesAreTrue(input.type, input.utf8, "text")

-----------------------------------------------------------------------------
Inputs == NoteInputs @@ StreamInputs @@ CompareInputs @@ ConditionInputs @@ NameInputs
          @@ OperatorInputs @@ SurfaceInputs

MCInit == Init /\ subject = None /\ input = None

PickSubject ==
    /\ subject = None
    /\ subject' \in DOMAIN Inputs \cup {"edit"}
    /\ UNCHANGED <<input, vars>>

PickInput ==
    /\ subject \in DOMAIN Inputs /\ input = None
    /\ input' \in Inputs[subject]
    /\ UNCHANGED <<subject, vars>>

EditStep == subject = "edit" /\ Next /\ UNCHANGED <<subject, input>>

MCSpec == MCInit /\ [][PickSubject \/ PickInput \/ EditStep]_<<subject, input, vars>>
=============================================================================
