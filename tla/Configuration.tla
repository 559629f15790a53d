--------------------------- MODULE Configuration --------------------------
(***************************************************************************)
(* What operators write: settings, manifests, and the manifests found in a *)
(* directory tree.                                                         *)
(***************************************************************************)
EXTENDS Integers, Sequences, FiniteSets, SequencesExt

(***************************************************************************)
(* The server's settings.  ServerCli holds what the operator supplied, as  *)
(* text and unjudged; Config::from_cli judges it setting by setting, in    *)
(* one fixed order, and either builds the configuration or refuses to      *)
(* start, naming the settings it complains about.  A supplied value is a   *)
(* record: what the text is, and the number when it is one.                *)
(***************************************************************************)
CONSTANT None

CONSTANTS MaxMode, MinDebounce, MaxDebounce, MaxPermits, MaxUploadBytes,
          MaxReplicas, MinWindow, DefaultMaxAge

Is(kind) == [is |-> kind, n |-> 0]
Number(n) == [is |-> "number", n |-> n]

(* ServerCli, group by group, in the order of its fields.                  *)
ListenerSettings == {"api_token", "kbs", "listen_addr", "metrics_enabled",
  "metrics_listen_addr", "log_format", "max_patchable_size",
  "ready_probe_interval_ms"}
RequestSettings == {"request_timeout_ms", "webdav_request_timeout_ms",
  "max_requests_in_flight", "header_read_timeout_ms", "upload_tmp_dir"}
SurfaceSettings == {"webdav_username", "webdav_password",
  "mcp_http_allowed_origins", "mcp_http_allowed_hosts", "mcp_anonymous",
  "mcp_max_read_bytes", "mcp_max_sessions"}
OidcDependent == {"oidc_audience", "oidc_username_claim", "oidc_groups_claim",
  "oidc_http_timeout_ms", "oidc_resource", "oidc_ca_cert"}
S3Owned == {"s3_region", "s3_access_key_id", "s3_secret_access_key",
  "s3_endpoint_url", "s3_force_path_style", "s3_reconcile",
  "s3_allow_unenforced_conditional_writes"}
FsOwned == {"fs_root", "fs_metadata", "fs_file_mode", "fs_dir_mode",
  "fs_allow_lossy_names", "fs_watch", "fs_watch_debounce_ms"}
NatsOwned == {"nats_url", "nats_creds_file", "nats_nkey_seed_file",
  "nats_token", "nats_tls_ca_file", "nats_tls_cert_file",
  "nats_tls_key_file", "nats_tls_required", "nats_replicas", "nats_storage",
  "nats_duplicate_window_secs", "nats_stream", "nats_max_age_secs"}
IndexSettings == {"qdrant_url", "qdrant_api_key", "qdrant_timeout_ms",
  "qdrant_connect_timeout_ms", "embedding_endpoint_url", "embedding_model",
  "embedding_api_key", "embedding_dimensions", "embedding_batch_size",
  "index_concurrency", "embedding_timeout_ms", "embedding_max_retries",
  "embedding_max_input_tokens"}
Removed == {"webdav_listen_addr", "mcp_http_bind", "mcp_http_enabled"}
Settings == ListenerSettings \cup RequestSettings \cup SurfaceSettings
  \cup OidcDependent \cup S3Owned \cup FsOwned \cup NatsOwned
  \cup IndexSettings \cup Removed
  \cup {"oidc_issuer", "storage_backend", "events_backend",
        "events_memory_capacity"}

(* What the parsers tell apart in a text.                                  *)
Supplied(v) == v # None
NonBlank(v) == IF Supplied(v) /\ v.is \in {"empty", "blank"} THEN None ELSE v
AsNumber(v) == v.is = "number"
HttpUrl(v) == v.is \in {"url", "url with query"}

(* Each check is TRUE when the parser refuses the value.                   *)
BadPositive(v) == Supplied(v) /\ ~(AsNumber(v) /\ v.n > 0)
BadPositiveUsize(v) == Supplied(v) /\ ~(AsNumber(v) /\ v.n > 0)
BadNumber(v) == Supplied(v) /\ ~AsNumber(v)
BadS3Bool(v) == Supplied(v) /\ v.is \notin {"true", "padded true", "false"}
BadEnum(v, accepted) == Supplied(v) /\ v.is \notin accepted
BadMode(v, max) == Supplied(v) /\ ~(AsNumber(v) /\ v.n <= max)
BadMillis(v, min, max) == Supplied(v) /\ ~(AsNumber(v) /\ v.n \in min..max)
BadPath(v) == Supplied(v) /\ v.is = "empty"
BadClaim(v) == Supplied(v) /\ NonBlank(v) = None
CommaList(v) == IF NonBlank(v) = None THEN "default"
                ELSE IF v.is = "commas" THEN "nothing" ELSE v.is

(* One complaint: the settings named, or none.                             *)
Complain(bad, names) == IF bad THEN names ELSE {}

(* Bounds of the source, scaled to the instance: the largest value of a    *)
(* mode, the range of the debounce, the permits of a semaphore, the size   *)
(* of an upload, replicas, and the least duplicate window.                 *)

RemovedChecks(c) ==
  << Complain(Supplied(c["webdav_listen_addr"]), {"webdav_listen_addr"}),
     Complain(Supplied(c["mcp_http_bind"]), {"mcp_http_bind"}),
     Complain(Supplied(c["mcp_http_enabled"]), {"mcp_http_enabled"}) >>

BadResource(v) == Supplied(v) /\ v.is # "url"
BadCaCert(v) == Supplied(v) /\ v.is # "file"

OidcChecks(c) ==
  IF ~Supplied(c["oidc_issuer"])
  THEN << {s \in OidcDependent : Supplied(c[s])} >>
  ELSE << Complain(~HttpUrl(c["oidc_issuer"]), {"oidc_issuer"}),
          Complain(CommaList(c["oidc_audience"]) \in {"default", "nothing"},
                   {"oidc_audience"}),
          Complain(BadClaim(c["oidc_username_claim"]), {"oidc_username_claim"}),
          Complain(BadClaim(c["oidc_groups_claim"]), {"oidc_groups_claim"}),
          Complain(BadPositive(c["oidc_http_timeout_ms"]), {"oidc_http_timeout_ms"}),
          Complain(BadResource(c["oidc_resource"]), {"oidc_resource"}),
          Complain(BadCaCert(c["oidc_ca_cert"]), {"oidc_ca_cert"}) >>

BadKbs(v) == NonBlank(v) = None \/ v.is \in {"commas", "bad slug", "same twice"}
BaseChecks(c) ==
  << Complain(NonBlank(c["api_token"]) = None, {"api_token"}),
     Complain(BadKbs(c["kbs"]), {"kbs"}),
     Complain(BadEnum(c["listen_addr"], {"addr"}), {"listen_addr"}) >>

StorageBackend(c) ==
  IF Supplied(c["storage_backend"]) THEN c["storage_backend"].is ELSE "s3"
EventsBackend(c) ==
  IF Supplied(c["events_backend"]) THEN c["events_backend"].is ELSE "none"

(* The tables of reject_unselected_settings: which backend owns a setting. *)
BackendOwnedShort == [s \in (S3Owned \ {"s3_reconcile"}) \cup FsOwned |->
                        IF s \in S3Owned THEN "s3" ELSE "fs"]
BackendOwned == [s \in S3Owned \cup FsOwned |-> IF s \in S3Owned THEN "s3" ELSE "fs"]
EventsOwned == [s \in {"events_memory_capacity"} \cup NatsOwned |->
                  IF s \in NatsOwned THEN "nats" ELSE "memory"]
RejectUnselected(c, effective, owner) ==
  {s \in DOMAIN owner : Supplied(c[s]) /\ owner[s] # effective}

SelectionChecks(c) ==
  << Complain(BadEnum(c["storage_backend"], {"s3", "fs"}), {"storage_backend"}),
     RejectUnselected(c, StorageBackend(c), BackendOwned),
     Complain(BadEnum(c["events_backend"], {"none", "memory", "nats"}),
              {"events_backend"}),
     RejectUnselected(c, EventsBackend(c), EventsOwned) >>

S3Checks(c) ==
  << Complain(~Supplied(c["s3_region"]), {"s3_region"}),
     Complain(~Supplied(c["s3_access_key_id"]), {"s3_access_key_id"}),
     Complain(~Supplied(c["s3_secret_access_key"]), {"s3_secret_access_key"}),
     Complain(BadS3Bool(c["s3_force_path_style"]), {"s3_force_path_style"}),
     Complain(BadS3Bool(c["s3_reconcile"]), {"s3_reconcile"}),
     Complain(BadS3Bool(c["s3_allow_unenforced_conditional_writes"]),
              {"s3_allow_unenforced_conditional_writes"}) >>

FsChecks(c) ==
  << Complain(~Supplied(c["fs_root"]) \/ c["fs_root"].is # "absolute", {"fs_root"}),
     Complain(BadEnum(c["fs_metadata"], {"sidecar"}), {"fs_metadata"}),
     Complain(BadMode(c["fs_file_mode"], MaxMode), {"fs_file_mode"}),
     Complain(BadMode(c["fs_dir_mode"], MaxMode), {"fs_dir_mode"}),
     Complain(BadEnum(c["fs_allow_lossy_names"], {"true", "false"}),
              {"fs_allow_lossy_names"}),
     Complain(BadEnum(c["fs_watch"], {"true", "false"}), {"fs_watch"}),
     Complain(BadMillis(c["fs_watch_debounce_ms"], MinDebounce, MaxDebounce),
              {"fs_watch_debounce_ms"}) >>

(* A URL may carry credentials; only one way to authenticate may be set.   *)
AuthMethods(c) ==
  {s \in {"nats_creds_file", "nats_nkey_seed_file", "nats_token"} : Supplied(c[s])}
  \cup (IF c["nats_url"].is = "url with user" THEN {"nats_url"} ELSE {})
AuthChecks(c) ==
  << Complain(BadPath(c["nats_creds_file"]), {"nats_creds_file"}),
     Complain(BadPath(c["nats_nkey_seed_file"]), {"nats_nkey_seed_file"}),
     Complain(BadPath(c["nats_token"]), {"nats_token"}),
     Complain(Cardinality(AuthMethods(c)) > 1, AuthMethods(c)) >>

TlsChecks(c) ==
  << Complain(BadPath(c["nats_tls_ca_file"]), {"nats_tls_ca_file"}),
     Complain(BadPath(c["nats_tls_cert_file"]), {"nats_tls_cert_file"}),
     Complain(BadPath(c["nats_tls_key_file"]), {"nats_tls_key_file"}),
     Complain(Supplied(c["nats_tls_cert_file"]) # Supplied(c["nats_tls_key_file"]),
              {"nats_tls_cert_file", "nats_tls_key_file"}),
     Complain(BadEnum(c["nats_tls_required"], {"true", "false"}),
              {"nats_tls_required"}) >>

StreamChecks(c) ==
  LET w == c["nats_duplicate_window_secs"]
  IN  << Complain(BadPositive(c["nats_replicas"])
                  \/ BadMillis(c["nats_replicas"], 1, MaxReplicas), {"nats_replicas"}),
         Complain(BadEnum(c["nats_storage"], {"file", "memory"}), {"nats_storage"}),
         Complain(BadPositive(w) \/ (Supplied(w) /\ w.n < MinWindow),
                  {"nats_duplicate_window_secs"}) >>
RetentionChecks(c) ==
  LET w == c["nats_duplicate_window_secs"]
      age == IF Supplied(c["nats_max_age_secs"]) THEN c["nats_max_age_secs"].n
             ELSE DefaultMaxAge
  IN  << Complain(BadEnum(c["nats_stream"], {"word"}), {"nats_stream"}),
         Complain(BadPositive(c["nats_max_age_secs"]) \/ age < MinWindow,
                  {"nats_max_age_secs"}),
         Complain(Supplied(w) /\ w.n > age,
                  {"nats_duplicate_window_secs", "nats_max_age_secs"}) >>

NatsChecks(c) ==
  IF ~Supplied(c["nats_url"]) \/ BadPath(c["nats_url"]) THEN << {"nats_url"} >>
  ELSE AuthChecks(c) \o TlsChecks(c) \o StreamChecks(c) \o RetentionChecks(c)
MemoryChecks(c) ==
  << Complain(BadPositive(c["events_memory_capacity"]), {"events_memory_capacity"}) >>

BackendChecks(c) ==
  (IF StorageBackend(c) = "s3" THEN S3Checks(c) ELSE FsChecks(c))
  \o (CASE EventsBackend(c) = "none" -> <<>>
        [] EventsBackend(c) = "memory" -> MemoryChecks(c)
        [] EventsBackend(c) = "nats" -> NatsChecks(c))

QdrantChecks(c) ==
  << Complain(~Supplied(c["qdrant_url"]), {"qdrant_url"}),
     Complain(BadPositive(c["qdrant_timeout_ms"]), {"qdrant_timeout_ms"}),
     Complain(BadPositive(c["qdrant_connect_timeout_ms"]),
              {"qdrant_connect_timeout_ms"}) >>
EmbedderChecks(c) ==
  << Complain(~Supplied(c["embedding_endpoint_url"])
              \/ ~HttpUrl(c["embedding_endpoint_url"]), {"embedding_endpoint_url"}),
     Complain(~Supplied(c["embedding_model"]), {"embedding_model"}),
     Complain(~Supplied(c["embedding_api_key"]), {"embedding_api_key"}),
     Complain(~Supplied(c["embedding_dimensions"])
              \/ BadNumber(c["embedding_dimensions"]), {"embedding_dimensions"}),
     Complain(BadNumber(c["embedding_batch_size"]), {"embedding_batch_size"}),
     Complain(BadNumber(c["embedding_timeout_ms"]), {"embedding_timeout_ms"}),
     Complain(BadNumber(c["embedding_max_retries"]), {"embedding_max_retries"}),
     Complain(BadNumber(c["embedding_max_input_tokens"]),
              {"embedding_max_input_tokens"}) >>

BoundsChecks(c) ==
  LET permits == NonBlank(c["max_requests_in_flight"])
  IN  << Complain(BadPositiveUsize(permits)
                  \/ (Supplied(permits) /\ permits.n > MaxPermits),
                  {"max_requests_in_flight"}),
         Complain(BadPositive(NonBlank(c["request_timeout_ms"])), {"request_timeout_ms"}),
         Complain(BadPositive(NonBlank(c["webdav_request_timeout_ms"])),
                  {"webdav_request_timeout_ms"}),
         Complain(BadPositive(NonBlank(c["header_read_timeout_ms"])),
                  {"header_read_timeout_ms"}) >>

MetricsOn(c) == Supplied(c["metrics_enabled"])
                /\ c["metrics_enabled"].is \in {"true", "padded true"}
MetricsChecks(c) ==
  LET addr == NonBlank(c["metrics_listen_addr"])
  IN  << Complain(BadS3Bool(c["metrics_enabled"]), {"metrics_enabled"}),
         Complain(IF MetricsOn(c) THEN BadEnum(addr, {"addr"}) ELSE Supplied(addr),
                  {"metrics_listen_addr"}) >>

PatchableChecks(c) ==
  LET v == c["max_patchable_size"]
  IN  << Complain(BadPositive(v) \/ (Supplied(v) /\ v.n > MaxUploadBytes),
                  {"max_patchable_size"}) >>
CredentialChecks(c) ==
  << Complain(~Supplied(c["webdav_username"]) \/ BadPath(c["webdav_username"]),
              {"webdav_username"}),
     Complain(~Supplied(c["webdav_password"]) \/ BadPath(c["webdav_password"]),
              {"webdav_password"}) >>
AnonymousChecks(c) ==
  << Complain(BadEnum(NonBlank(c["mcp_anonymous"]), {"auto", "never", "AUTO"}),
              {"mcp_anonymous"}) >>
SurfaceChecks(c) ==
  CredentialChecks(c) \o AnonymousChecks(c) \o PatchableChecks(c)
  \o << Complain(BadPositive(NonBlank(c["mcp_max_read_bytes"])), {"mcp_max_read_bytes"}),
        Complain(BadPositiveUsize(NonBlank(c["mcp_max_sessions"])), {"mcp_max_sessions"}),
        Complain(BadPositive(c["ready_probe_interval_ms"]),
                 {"ready_probe_interval_ms"}) >>
ConcurrencyChecks(c) ==
  << Complain(BadPositiveUsize(NonBlank(c["index_concurrency"])), {"index_concurrency"}) >>
StagingChecks(c) == << Complain(BadPath(c["upload_tmp_dir"]), {"upload_tmp_dir"}) >>

(* The order of Config::from_cli decides which complaint is made.  A later *)
(* group is judged only when every earlier one had nothing to say.         *)
FirstComplaint(checks) ==
  LET bad == {i \in DOMAIN checks : checks[i] # {}}
  IN  IF bad = {} THEN {}
      ELSE checks[CHOOSE i \in bad : \A j \in bad : i <= j]
LaterChecks(c) ==
  QdrantChecks(c) \o EmbedderChecks(c) \o ConcurrencyChecks(c) \o SurfaceChecks(c)
  \o BoundsChecks(c) \o MetricsChecks(c) \o StagingChecks(c)
Refusal(c) ==
  LET first == FirstComplaint(RemovedChecks(c) \o OidcChecks(c) \o BaseChecks(c)
                              \o SelectionChecks(c))
  IN  IF first # {} THEN first
      ELSE FirstComplaint(BackendChecks(c) \o LaterChecks(c))

(* The configuration built: what each part of the server reads.  A text    *)
(* that falls back to the default is the default.                          *)
Blankable == (RequestSettings \ {"upload_tmp_dir"}) \cup
  {"mcp_anonymous", "mcp_max_read_bytes", "mcp_max_sessions", "index_concurrency",
   "metrics_listen_addr"}
Value(s, v) ==
  CASE s \in {"mcp_http_allowed_origins", "mcp_http_allowed_hosts", "oidc_audience"}
         -> Is(CommaList(v))
    [] s = "log_format" -> Is(IF Supplied(v) /\ v.is = "json" THEN "json" ELSE "pretty")
    [] s \in Blankable -> NonBlank(v)
    [] OTHER -> v
ReadBy(c) ==
  Settings \ (Removed
    \cup (IF StorageBackend(c) = "s3" THEN FsOwned ELSE S3Owned)
    \cup (IF EventsBackend(c) = "nats" THEN {} ELSE NatsOwned)
    \cup (IF EventsBackend(c) = "memory" THEN {} ELSE {"events_memory_capacity"})
    \cup (IF Supplied(c["oidc_issuer"]) THEN {} ELSE OidcDependent)
    \cup (IF MetricsOn(c) THEN {} ELSE {"metrics_listen_addr"})
    \cup {"metrics_enabled", "storage_backend", "events_backend"})
Built(c) == [s \in ReadBy(c) |-> Value(s, c[s])]
FromCli(c) == [refusal |-> Refusal(c),
               config |-> IF Refusal(c) = {}
                          THEN [values |-> Built(c), metrics |-> MetricsOn(c),
                                storage |-> StorageBackend(c), events |-> EventsBackend(c)]
                          ELSE None]

(* A setting is spelled in one of a few ways; changing one changes c so.   *)
Respelled(c, s, ways) == {[c EXCEPT ![s] = v] : v \in ways[s] \cup {None}}
IsSet(v) == Supplied(v) /\ NonBlank(v) # None

(* No supplied setting is ignored: in a configuration that is accepted,    *)
(* some other value of each one changes what is built, or is refused.      *)
NothingIsIgnored(c, ways) ==
  Refusal(c) = {} =>
    \A s \in Settings : IsSet(c[s]) =>
      \E d \in Respelled(c, s, ways) : FromCli(d) # FromCli(c)

(* A refusal names settings that can cure it: with them unset, or with one *)
(* of them given another value, none of them is complained about.          *)
BlameIsJust(c, ways) ==
  LET R == Refusal(c)
  IN  R # {} =>
        \/ Refusal([s \in Settings |-> IF s \in R THEN None ELSE c[s]]) \cap R = {}
        \/ \E s \in R : \E d \in Respelled(c, s, ways) : Refusal(d) \cap R = {}

-----------------------------------------------------------------------------
(***************************************************************************)
(* A knowledge base's manifest as it is written, read back and judged      *)
(* (core/kb.rs and the text forms of core/access/mod.rs).  A subject's     *)
(* text is a sequence of words; a document is a record whose absent fields *)
(* are None; a free text is a sequence of characters.                      *)
(***************************************************************************)
CONSTANTS DisplayNameMax, DescriptionMax,   \* in code points
          WholeKb,                          \* the pattern "**"
          ManifestKey, ManifestMaxBytes     \* KbManifest::KEY, MANIFEST_MAX_BYTES

CurrentVersion == 1
Verbs == {"list", "read", "write", "delete", "search"}
Bad == [ok |-> FALSE]
Good(value) == [ok |-> TRUE, value |-> value]

(* Who: Display, and FromStr, where a name must follow its prefix.         *)
WriteWho(who) ==
  CASE who.kind = "anyone"    -> <<"anyone">>
    [] who.kind = "signed-in" -> <<"signed-in">>
    [] who.kind = "group"     -> <<"group:">> \o who.name
    [] who.kind = "user"      -> <<"user:">> \o who.name
ReadWho(text) ==
  LET named(kind) == IF Len(text) > 1 THEN Good([kind |-> kind, name |-> Tail(text)]) ELSE Bad
  IN  CASE text \in {<<"anyone">>, <<"signed-in">>} -> Good([kind |-> text[1], name |-> <<>>])
        [] text # <<>> /\ text[1] = "group:" -> named("group")
        [] text # <<>> /\ text[1] = "user:" -> named("user")
        [] OTHER -> Bad

(* RuleRepr: From<AccessRule>, which leaves out an `under` that is exactly *)
(* the whole knowledge base, and TryFrom.                                  *)
WholeKbPatterns == <<WholeKb>>
IsWholeKbPatterns(under) == under = WholeKbPatterns
WriteRule(rule) ==
  [who |-> WriteWho(rule.who),
   may |-> IF rule.effect = "allow" THEN rule.verbs ELSE None,
   mayNot |-> IF rule.effect = "deny" THEN rule.verbs ELSE None,
   under |-> IF IsWholeKbPatterns(rule.under) THEN None ELSE rule.under]
\* Mutant: the first key it recognises.
ReadRuleEither(repr) ==
  LET who == ReadWho(repr.who)
  IN  IF ~who.ok \/ (repr.may = None /\ repr.mayNot = None) THEN Bad
      ELSE Good([who |-> who.value,
                 effect |-> IF repr.may # None THEN "allow" ELSE "deny",
                 verbs |-> IF repr.may # None THEN repr.may ELSE repr.mayNot,
                 under |-> IF repr.under = None THEN WholeKbPatterns ELSE repr.under])
ReadRule(repr) ==
  LET who == ReadWho(repr.who)
  IN  IF ~who.ok \/ (repr.may = None) = (repr.mayNot = None) THEN Bad
      ELSE Good([who |-> who.value,
                 effect |-> IF repr.may # None THEN "allow" ELSE "deny",
                 verbs |-> IF repr.may # None THEN repr.may ELSE repr.mayNot,
                 under |-> IF repr.under = None THEN WholeKbPatterns ELSE repr.under])

(* AccessRule::new and deny, and AccessPolicy::signed_in_full.             *)
NewRule(who, verbs) == [who |-> who, effect |-> "allow", verbs |-> verbs, under |-> WholeKbPatterns]
SignedInFull == <<NewRule([kind |-> "signed-in", name |-> <<>>], Verbs)>>
NeedsIdentity(who) == who.kind \in {"group", "user"}
NamesAnIdentity(policy) == \E i \in 1..Len(policy) : NeedsIdentity(policy[i].who)
-----------------------------------------------------------------------------
(* The document: `access` is always written, and a manifest without it     *)
(* gives the credential holder everything.                                 *)
NewV1(tenant, kb) ==
  [version |-> CurrentVersion, tenant |-> tenant, kb |-> kb, displayName |-> kb,
   description |-> None, embedding |-> None, access |-> SignedInFull]
WriteAccessUnlessEmpty(access) ==
  IF access = <<>> THEN None ELSE [i \in 1..Len(access) |-> WriteRule(access[i])]
WriteAccess(access) == [i \in 1..Len(access) |-> WriteRule(access[i])]
ReadAccess(doc) ==
  IF doc = None THEN Good(SignedInFull)
  ELSE LET rules == [i \in 1..Len(doc) |-> ReadRule(doc[i])]
       IN  IF \E i \in 1..Len(doc) : ~rules[i].ok THEN Bad
           ELSE Good([i \in 1..Len(doc) |-> rules[i].value])

(* validate_manifest_text: trim removes white space at both ends.          *)
Control == {"LF", "TAB"}
White == Control \cup {" "}
ValidText(text, max) ==
  /\ ~(ToSet(text) \subseteq White)
  /\ ToSet(text) \cap Control = {}
  /\ Len(text) <= max
ValidDisplayName(text) == ValidText(text, DisplayNameMax)
ValidDescription(text) == ValidText(text, DescriptionMax)

(* AccessPolicy::validate, in Manifest's terms; the patterns of the        *)
(* internal namespace are left to AccessRules.                             *)
ValidRule(rule) ==
  /\ rule.verbs # {} /\ rule.under # <<>>
  /\ rule.who.kind = "anyone" => rule.verbs \cap {"write", "delete"} = {}
ValidManifest(m) ==
  /\ m.version = CurrentVersion
  /\ ValidDisplayName(m.displayName)
  /\ m.description # None => ValidDescription(m.description)
  /\ \A i \in 1..Len(m.access) : ValidRule(m.access[i])

Details(m) == [displayName |-> m.displayName, description |-> m.description]
DetailsFromSlug(kb) == [displayName |-> kb, description |-> None]
-----------------------------------------------------------------------------
(* The check every surface makes of bytes that are about to become a       *)
(* manifest (notedthat-write/src/manifest.rs).  A body is a size and what  *)
(* it parses to, or None.                                                  *)
IsManifest(path) == path = ManifestKey
CheckSize(size) == size <= ManifestMaxBytes

\* Mutant: the slug it names is not compared.
ValidateManifestBytesOfAny(kb, body) == body.doc # None /\ ValidManifest(body.doc)
ValidateManifestBytes(kb, body) ==
  IF body.doc = None THEN FALSE ELSE body.doc.kb = kb /\ ValidManifest(body.doc)

CheckManifestBytes(kb, path, body) ==
  IsManifest(path) => CheckSize(body.size) /\ ValidateManifestBytes(kb, body)
CheckStagedManifest(kb, path, body, readable) ==
  IsManifest(path) => CheckSize(body.size) /\ readable /\ ValidateManifestBytes(kb, body)

(* provision_kbs on what is stored: a manifest of another knowledge base   *)
(* is replaced by a fresh one, one that fails a check stops the start.     *)
CrossCheckManifest(m, env) == m.embedding \in {None, env}
StartsWith(tenant, kb, body, env) ==
  IF body.doc = None THEN Bad
  ELSE IF ~ValidManifest(body.doc) THEN Bad
  ELSE IF body.doc.kb # kb THEN Good(NewV1(tenant, kb))
  ELSE IF ~CrossCheckManifest(body.doc, env) THEN Bad
  ELSE Good([body.doc EXCEPT !.embedding = env])
-----------------------------------------------------------------------------
(* Rewriting a manifest changes no one's access: what the server writes it *)
(* reads back as the same rules, a policy that grants nothing included,    *)
(* and a document it reads says exactly one of `may` and `may_not` in each *)
(* rule (mod.rs: "serde(flatten) would take the first key it recognises    *)
(* and leave the other silently unread").                                  *)
PoliciesSurviveRewriting(access, docs) ==
  /\ ReadAccess(WriteAccess(access)) = Good(access)
  /\ \A doc \in docs : ReadRule(doc).ok => ReadRule(WriteRule(ReadRule(doc).value)) = ReadRule(doc)
                                           /\ {doc.may, doc.mayNot} \cap {None} # {}

(* Startup never refuses what it wrote itself (kb.rs: "only a hand-edited  *)
(* manifest can fail here"), what a listing then shows is what a knowledge *)
(* base without a manifest would show, and any manifest it accepts gives   *)
(* listings one printable line.                                            *)
FreshManifestsAreValid(tenant, kb) ==
  /\ ValidManifest(NewV1(tenant, kb))
  /\ Details(NewV1(tenant, kb)) = DetailsFromSlug(kb)
  /\ ~NamesAnIdentity(NewV1(tenant, kb).access)

(* A manifest some surface accepted is the one the next start serves: it   *)
(* is neither a refused boot nor replaced by a fresh one, so the rules in  *)
(* it take effect (manifest.rs:11-14), as long as the embedding it records *)
(* is the one configured; and the two checks agree on a body that can be   *)
(* read back.                                                              *)
AcceptedManifestsBoot(tenant, kb, body, env) ==
  LET started == StartsWith(tenant, kb, body, env)
  IN  /\ CheckManifestBytes(kb, ManifestKey, body) /\ CrossCheckManifest(body.doc, env) =>
           /\ started.ok
           /\ started.value.access = body.doc.access
           /\ Details(started.value) = Details(body.doc)
      /\ CheckStagedManifest(kb, ManifestKey, body, TRUE) = CheckManifestBytes(kb, ManifestKey, body)
      /\ ~CheckStagedManifest(kb, ManifestKey, body, FALSE)

-----------------------------------------------------------------------------
(* A knowledge base's directory and its manifest on the filesystem backend   *)
(* (notedthat-storage-fs): every system call of ensure_bucket, probe,        *)
(* read_manifest and write_manifest may fail with an io::ErrorKind, and      *)
(* errors.rs turns the kind into what the caller sees.  An operation is a    *)
(* chain of calls; a fault [at, kind] makes the call named at fail.          *)
CONSTANTS Valid    \* Valid: the bodies that parse and pass KbManifest::validate

\* dir: "dir", "file" or "absent"; manifest: None or its bytes; the record of the
\* manifest: None or the bytes whose ETag it holds.
Tree(dir, manifest, record) == [dir |-> dir, manifest |-> manifest, record |-> record]

Backend(kind) == "BackendUnavailable"
BackendAt(kind) == "BackendUnavailable"
Other(kind) == "Other"
UnsupportedKey == "Other"

Bucket(kind) == IF kind = "NotFound" THEN "BucketNotFound" ELSE BackendAt(kind)

Object(kind) ==
    CASE kind = "NotFound" -> "NotFound"
      [] kind \in {"NotADirectory", "IsADirectory"} -> UnsupportedKey
      [] kind \in {"PermissionDenied", "ReadOnlyFilesystem", "StorageFull", "QuotaExceeded"} -> Backend(kind)
      [] OTHER -> Other(kind)

Fails(fault, call) == fault.at = call

Gives(tree, result, body) == [tree |-> tree, result |-> result, body |-> body]

RequireBucket(tree, fault) ==
    IF Fails(fault, "stat") THEN Bucket(fault.kind)
    ELSE CASE tree.dir = "dir" -> "Ok" [] tree.dir = "file" -> "BucketNotFound"
           [] OTHER -> Bucket("NotFound")

\* create_dir_all of both trees; it refuses a file that has the directory's name.
EnsureBucket(tree, fault) ==
    IF Fails(fault, "mkdir") \/ tree.dir = "file"
    THEN Gives(tree, BackendAt("AlreadyExists"), None)
    ELSE Gives([tree EXCEPT !.dir = "dir"], "Ok", None)

Probe(tree, fault) == Gives(tree, RequireBucket(tree, fault), None)

\* Mutant: a manifest that cannot be read counts as none.
ReadManifestOrNone(tree, fault) ==
    LET refused == RequireBucket(tree, fault)
    IN IF refused # "Ok" THEN Gives(tree, refused, None)
       ELSE IF Fails(fault, "read") \/ tree.manifest = None THEN Gives(tree, "NotFound", None)
       ELSE IF tree.manifest \in Valid THEN Gives(tree, "Ok", tree.manifest)
       ELSE Gives(tree, "BackendUnavailable", None)

ReadManifest(tree, fault) ==
    LET refused == RequireBucket(tree, fault)
        kind == IF Fails(fault, "read") THEN fault.kind ELSE "NotFound"
    IN IF refused # "Ok" THEN Gives(tree, refused, None)
       ELSE IF Fails(fault, "read") \/ tree.manifest = None
       THEN Gives(tree, IF kind = "NotFound" THEN "NotFound" ELSE BackendAt(kind), None)
       ELSE IF tree.manifest \in Valid THEN Gives(tree, "Ok", tree.manifest)
       ELSE Gives(tree, "BackendUnavailable", None)

\* stage_in, the writer, and finish up to its rename: before it nothing is visible.
BeforeRename == {"stage", "write", "flush", "mode", "sync", "metadata", "persist"}

\* MetaStore::write and replace_file: every failure is the backend's.
WriteRecord(tree, body, fault) ==
    IF Fails(fault, "sidecar") THEN Gives(tree, Backend(fault.kind), None)
    ELSE Gives([tree EXCEPT !.record = body], "Ok", None)

Store(tree, body, fault) ==
    IF fault.at \in BeforeRename THEN Gives(tree, Object(fault.kind), None)
    ELSE WriteRecord([tree EXCEPT !.manifest = body], body, fault)

WriteManifest(tree, body, fault) ==
    LET refused == RequireBucket(tree, fault)
        stored == Store(tree, body, fault)
    IN IF refused # "Ok" THEN Gives(tree, refused, None)
       ELSE [stored EXCEPT !.result = IF @ \in {"NotFound", "Other"} THEN "BackendUnavailable" ELSE @]

-----------------------------------------------------------------------------
(* Whatever fails, and with whichever kind: the manifest calls answer with   *)
(* the classes of the S3 adapter and no other (errors.rs:5-9); a manifest is *)
(* reported missing only where its file is, so a start never puts a fresh    *)
(* one over another; a write leaves the old bytes or the new ones, the new   *)
(* ones whenever it says so, and what it wrote is what is read back; and the *)
(* readiness probe refuses exactly what every operation refuses              *)
(* (storage.rs:378).                                                         *)
ManifestsAreSafe(tree, body, fault) ==
    LET read == ReadManifest(tree, fault)
        wrote == WriteManifest(tree, body, fault)
        made == EnsureBucket(tree, fault)
        fine == [at |-> None, kind |-> "Other"]
    IN /\ read.result \in {"Ok", "NotFound", "BucketNotFound", "BackendUnavailable"}
       /\ wrote.result \in {"Ok", "BucketNotFound", "BackendUnavailable"}
       /\ made.result \in {"Ok", "BackendUnavailable"}
       /\ read.result = "NotFound" => tree.manifest = None \/ fault.kind = "NotFound"
       /\ read.result = "Ok" => read.body = tree.manifest
       /\ wrote.tree.manifest \in {tree.manifest, body}
       /\ wrote.result = "Ok" => /\ ReadManifest(wrote.tree, fine).body = body
                                 /\ wrote.tree.record = body
       /\ wrote.tree.manifest # tree.manifest => tree.dir = "dir"
       /\ made.result = "Ok" => Probe(made.tree, fine).result = "Ok"
       /\ Probe(tree, fault).result = "Ok" <=>
            {read.result, wrote.result} \cap {"BucketNotFound"} = {} /\ ~(Fails(fault, "stat"))

=============================================================================
