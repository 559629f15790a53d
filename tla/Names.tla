------------------------------- MODULE Names ------------------------------
(***************************************************************************)
(* Names and types: slugs, object paths and buckets (core), the paths of a *)
(* WebDAV request, and the content type of an object.                      *)
(***************************************************************************)
EXTENDS Integers, Sequences, SequencesExt

(***************************************************************************)
(* Names and where they lead: slugs, the bucket name derived from two of   *)
(* them, object keys, and the file and sidecar the filesystem backend      *)
(* gives a key.  A name is a sequence of characters, where the strings     *)
(* the code reserves (the bucket prefix, the prefix of temporary files,    *)
(* the sidecar suffix, the names of the metadata tree and of the lock) are *)
(* characters of their own; a path is a sequence of names.                 *)
(***************************************************************************)
CONSTANTS None,
          KbMax, TenantMax,   \* KbSlug::MAX_LEN, TenantSlug::MAX_LEN
          BucketMax,          \* BUCKET_NAME_MAX
          SegmentMax          \* MAX_SEGMENT_BYTES

SlugChars == {"a", "b", "0", "-"}   \* of [a-z0-9-]
ValidateSlug(s, max) ==
  /\ s # <<>> /\ Len(s) <= max
  /\ s[1] # "-" /\ s[Len(s)] # "-"
  /\ ToSet(s) \subseteq SlugChars
IsKbSlug(s) == ValidateSlug(s, KbMax)
IsTenantSlugLoose(s) == ValidateSlug(s, TenantMax)
IsTenantSlug(s) == ValidateSlug(s, TenantMax) /\ "-" \notin ToSet(s)

BucketPrefix == <<"nt-">>
DeriveBucketName(tenant, kb) == BucketPrefix \o tenant \o <<"-">> \o kb
(* The prefix is three characters long.                                    *)
ValidateBucketName(tenant, kb) == Len(DeriveBucketName(tenant, kb)) + 2 <= BucketMax

(* ObjectPath::try_from_str: the segments of the key, or None.             *)
Pieces(text) ==
  LET step(acc, ch) == IF ch = "/" THEN Append(acc, <<>>)
                       ELSE Front(acc) \o <<Append(Last(acc), ch)>>
  IN  FoldLeft(step, << <<>> >>, text)
ObjectKey(input) ==
  LET s == IF input # <<>> /\ input[1] = "/" THEN Tail(input) ELSE input
  IN  IF \/ s = <<>> \/ ToSet(s) \cap {"\\", "NUL"} # {}
         \/ ToSet(Pieces(s)) \cap {<<>>, <<".">>, <<".", ".">>} # {}
      THEN None ELSE [path |-> Pieces(s)]
-----------------------------------------------------------------------------
(* layout.rs: the files of one storage root, as paths below it.            *)
MetaDir == <<".notedthat-meta">>
LockFile == << <<".notedthat.lock">> >>
SidecarSuffix == ".ntmeta"
TempPrefix == ".notedthat-tmp-"

ValidateSegmentLong(segment) == segment[1] # TempPrefix
ValidateSegment(segment) == Len(segment) <= SegmentMax /\ segment[1] # TempPrefix
(* push_key below a bucket directory: the path, or None for a key the      *)
(* filesystem cannot represent.                                            *)
PushKey(base, key) ==
  IF \A i \in 1..Len(key.path) : ValidateSegment(key.path[i]) THEN [file |-> base \o key.path]
                                                              ELSE None
BucketDir(bucket) == <<bucket>>
MetaBucketDir(bucket) == <<MetaDir, bucket>>
FileOf(bucket, key) == PushKey(BucketDir(bucket), key)
SidecarOf(bucket, key) ==
  LET pushed == PushKey(MetaBucketDir(bucket), key)
      path == pushed.file
  IN  IF pushed = None THEN None
      ELSE [file |-> Front(path) \o <<Append(Last(path), SidecarSuffix)>>]
(* commit: a temporary file beside the target, named by a random tail.     *)
TempBeside(path, tail) == Front(path) \o << <<TempPrefix>> \o tail >>

KeyFromPath(bucket, path) ==
  IF IsStrictPrefix(BucketDir(bucket), path) THEN [path |-> SubSeq(path, 2, Len(path))] ELSE None
-----------------------------------------------------------------------------
(* No two knowledge bases share a bucket or a directory (bucket_name.rs    *)
(* and D58: "two distinct (tenant, kb) pairs therefore never share a       *)
(* bucket").                                                               *)
BucketsAreDistinct(tenants, kbs) ==
  \A t1, t2 \in tenants, k1, k2 \in kbs :
    /\ IsTenantSlug(t1) /\ IsTenantSlug(t2) /\ IsKbSlug(k1) /\ IsKbSlug(k2)
    /\ ValidateBucketName(t1, k1) /\ DeriveBucketName(t1, k1) = DeriveBucketName(t2, k2)
    => t1 = t2 /\ k1 = k2

(* An object's bytes are the bytes of one file and of no other object:     *)
(* keys the backend accepts lead to files and sidecars of their own, no    *)
(* object is the lock, a temporary file or in the metadata tree, the       *)
(* sidecar's name still fits in a directory entry, and listing a file      *)
(* gives back the key it was stored under (layout.rs).                     *)
KeysHaveTheirOwnFiles(bucket, one, keys, tails) ==
  LET key == ObjectKey(one)
      file == FileOf(bucket, key).file
      side == SidecarOf(bucket, key).file
  IN  key # None /\ FileOf(bucket, key) # None =>
        /\ KeyFromPath(bucket, file) = key
        /\ file[1] # MetaDir /\ file # LockFile /\ side[1] = MetaDir
        /\ \A i \in 3..Len(side) : Len(side[i]) <= SegmentMax + 1
        /\ \A tail \in tails, other \in keys :
             LET second == ObjectKey(other)
             IN  second # None /\ FileOf(bucket, second) # None =>
                   /\ file # TempBeside(FileOf(bucket, second).file, tail)
                   /\ second # key => /\ FileOf(bucket, second).file # file
                                      /\ SidecarOf(bucket, second).file # side

-----------------------------------------------------------------------------
(* The two readings of a WebDAV path.  The middleware parses the raw URI of  *)
(* a request (middleware/path_validation.rs); what it lets through to        *)
(* dav-server comes back as a decoded path that the filesystem parses again  *)
(* (filesystem.rs parse_dav_path).  A path is the sequence of the segments   *)
(* between its slashes, the one before the first slash left out: "/webdav/"  *)
(* is <<"webdav", "">>.  A raw segment decodes to the sequence of its pieces *)
(* between decoded slashes.                                                  *)
CONSTANTS Decode(_),       \* percent_decode_str + decode_utf8; NotUtf8 if it is not
          NotUtf8, 
          IsSlug(_), IsObjectPath(_),
          Odd              \* decoded segments with a backslash or a NUL

Prefix == "webdav"
Bad == [kind |-> "bad", kb |-> None, key |-> <<>>]
Root == [kind |-> "root", kb |-> None, key |-> <<>>]
KbRoot(kb) == [kind |-> "kb", kb |-> kb, key |-> <<>>]
Object(kb, key) == [kind |-> "object", kb |-> kb, key |-> key]
NonDeclaredKb == [kind |-> "undeclared", kb |-> None, key |-> <<>>]

From(path, i) == SubSeq(path, i, Len(path))

\* What follows the mount point; NotUtf8 stands for the refusal.
StripWebdavPrefix(path) ==
    IF path = <<>> \/ path[1] # Prefix THEN NotUtf8
    ELSE IF Len(path) = 1 THEN <<"">> ELSE From(path, 2)

ValidateDecodedSegment(raw) ==
    LET pieces == Decode(raw)
    IN IF pieces = NotUtf8 THEN FALSE
       ELSE Len(pieces) = 1 /\ pieces[1] \notin {"", ".", ".."} \cup Odd

Decoded(raws) == FlattenSeq([i \in DOMAIN raws |-> Decode(raws[i])])

ParseUriPath(path, declared) ==
    IF path = <<"">> THEN Root
    ELSE IF ~ValidateDecodedSegment(path[1]) \/ ~IsSlug(Decode(path[1])[1]) THEN Bad
    ELSE LET kb == Decode(path[1])[1]
             rest == From(path, 2)
         IN IF kb \notin declared THEN NonDeclaredKb
            ELSE IF rest \in {<<>>, <<"">>} THEN KbRoot(kb)
            ELSE IF /\ \A i \in DOMAIN rest : ValidateDecodedSegment(rest[i])
                    /\ IsObjectPath(Decoded(rest))
                 THEN Object(kb, Decoded(rest)) ELSE Bad

ParseWebdavUriPath(path, declared) ==
    IF StripWebdavPrefix(path) = NotUtf8 THEN Bad ELSE ParseUriPath(StripWebdavPrefix(path), declared)

\* At most one trailing slash is taken off a collection's path.
Candidate(path) == IF Len(path) > 1 /\ Last(path) = "" THEN Front(path) ELSE path

\* Mutant: the rest of a path below an undeclared knowledge base is not read.
ValidateReadUriPathOfTarget(path, declared) ==
    path = <<"">> \/ ParseUriPath(Candidate(path), declared) # Bad

ValidateReadUriPath(path, declared) ==
    \/ path = <<"">>
    \/ /\ \A i \in DOMAIN Candidate(path) : ValidateDecodedSegment(Candidate(path)[i])
       /\ ParseUriPath(Candidate(path), declared) # Bad

ValidateWebdavReadUriPath(path, declared) ==
    StripWebdavPrefix(path) # NotUtf8 /\ ValidateReadUriPath(StripWebdavPrefix(path), declared)

\* dav-server's decoded path under the mount point.
DavPath(path) == Decoded(From(path, 2))

RECURSIVE TrimStart(_)
TrimStart(path) == IF path # <<>> /\ path[1] = "" THEN TrimStart(Tail(path)) ELSE path

ParseDavPath(path, declared) ==
    LET stripped == TrimStart(path)
    IN IF stripped = <<>> THEN Root
       ELSE IF ~IsSlug(stripped[1]) THEN Bad
       ELSE IF stripped[1] \notin declared THEN NonDeclaredKb
       ELSE LET rest == From(stripped, 2)
                trimmed == IF rest # <<>> /\ Last(rest) = "" THEN Front(rest) ELSE rest
            IN IF trimmed = <<>> THEN KbRoot(stripped[1])
               ELSE IF IsObjectPath(trimmed) THEN Object(stripped[1], trimmed) ELSE Bad

-----------------------------------------------------------------------------
(* A path the middleware lets through to read names one thing, and names it  *)
(* to the middleware and to the filesystem alike; no piece of it can climb   *)
(* out of its place, below an undeclared knowledge base included; and what   *)
(* may be written can be read back under the same path (D40,                 *)
(* path_validation.rs:90-97, filesystem.rs parse_dav_path).                  *)
PathsMeanOneThing(path, declared) ==
    /\ ValidateWebdavReadUriPath(path, declared) =>
         /\ ParseDavPath(DavPath(path), declared) = ParseWebdavUriPath(Candidate(path), declared)
         /\ \A i \in DOMAIN DavPath(path) :
              /\ DavPath(path)[i] \notin {".", ".."} \cup Odd
              /\ DavPath(path)[i] = "" => i = Len(DavPath(path))
    /\ ParseWebdavUriPath(path, declared).kind = "object" =>
         /\ ValidateWebdavReadUriPath(path, declared)
         /\ ParseDavPath(DavPath(path), declared) = ParseWebdavUriPath(path, declared)

-----------------------------------------------------------------------------
(* Where an object's content type comes from and what becomes of it: the    *)
(* write that chooses one, the read that shows it, the indexer that judges  *)
(* it, the filesystem that guesses one when its record is lost, and the     *)
(* MCP resource.  A type is [top, sub, suffix, charset], or one that does   *)
(* not parse; the last segment of a key is a stem and an extension, None    *)
(* when it has no dot.                                                      *)
CONSTANTS Lower(_),   \* to_ascii_lowercase
          LatestFormattable \* 253402300799

Parsed(top, sub, suffix, charset) == [parses |-> TRUE, top |-> top, sub |-> sub, suffix |-> suffix, charset |-> charset]
Plain(top, sub) == Parsed(top, sub, None, <<>>)
Markdown == Plain("text", "markdown")
PlainText == Plain("text", "plain")
Json == Plain("application", "json")
OctetStream == Plain("application", "octet-stream")
Png == Plain("image", "png")
Jpeg == Plain("image", "jpeg")

Word(ext) == IF ext = None THEN None ELSE Lower(ext)
MarkdownWords == {"md", "markdown"}

\* rsplit('.').next(): the whole of a key that has no dot.
SniffContentType(caller, key) ==
    IF caller \notin {None, OctetStream} THEN caller
    ELSE IF Lower(IF key.ext = None THEN key.stem ELSE key.ext) \in MarkdownWords THEN Markdown
    ELSE OctetStream

ContentTypeFromKey(key) ==
    CASE Word(key.ext) \in MarkdownWords -> Markdown [] Word(key.ext) = "txt" -> PlainText [] OTHER -> None

\* Path::extension: a name that begins with its only dot has none.
Extension(key) == IF key.stem = "" THEN None ELSE key.ext

GuessContentType(key) ==
    CASE Word(Extension(key)) \in MarkdownWords -> Markdown
      [] Word(Extension(key)) = "txt" -> PlainText
      [] Word(Extension(key)) = "json" -> Json
      [] OTHER -> None

\* The extension as it is spelled.
DetectMimeType(key) ==
    CASE Extension(key) = "md" -> Markdown [] Extension(key) = "txt" -> PlainText
      [] Extension(key) = "png" -> Png [] Extension(key) \in {"jpg", "jpeg"} -> Jpeg
      [] OTHER -> OctetStream

Essence(type) == [type EXCEPT !.charset = <<>>]
IsIndexable(type) == Essence(type) \in {Markdown, PlainText}

Textual(type) ==
    \/ type.top = "text"
    \/ type.top = "application" /\ {type.sub, type.suffix} \cap {"json", "xml"} # {}

\* Mutant: the charset is added to whatever is there.
NormalizeContentTypeAlways(type) ==
    IF type.parses /\ Textual(type) THEN [type EXCEPT !.charset = Append(@, "utf-8")] ELSE type

NormalizeContentType(type) ==
    IF type.parses /\ Textual(type) /\ type.charset = <<>> THEN [type EXCEPT !.charset = <<"utf-8">>] ELSE type

ResponseContentType(stored) == NormalizeContentType(IF stored = None THEN OctetStream ELSE stored)

HttpDate(seconds) == IF seconds \in 0 .. LatestFormattable THEN seconds ELSE None
WithValidators(etag, modified) ==
    [etag |-> etag, modified |-> IF modified = None THEN None ELSE HttpDate(modified)]

HeadObject(meta) ==
    [type |-> ResponseContentType(meta.type), length |-> meta.size, acceptRanges |-> TRUE,
     validators |-> WithValidators(meta.etag, meta.modified)]

\* The type a copy gives its destination.
CopiedType(stored, destination) == SniffContentType(stored, destination)

-----------------------------------------------------------------------------
(* A type settles: writing back what a read showed changes nothing, however *)
(* often; what a client is shown is indexed, filtered and copied as the     *)
(* same type; and for a key whose name has a stem and an extension, the     *)
(* three guesses of a markdown file agree, so an object that lost its       *)
(* record stays in the index (mime.rs, worker.rs:523-528, meta.rs:238).     *)
TypesSettle(declared, key, destination) ==
    LET stored == SniffContentType(declared, key)
        shown == ResponseContentType(stored)
        kept == key.ext # None /\ key.stem # ""
    IN /\ ResponseContentType(SniffContentType(shown, key)) = shown
       /\ IsIndexable(shown) = IsIndexable(stored)
       /\ Essence(shown) = Essence(stored)
       /\ Len(shown.charset) <= 1 \/ shown = declared
       /\ stored # OctetStream => CopiedType(stored, destination) = stored
       /\ kept => /\ (SniffContentType(None, key) = Markdown) = (ContentTypeFromKey(key) = Markdown)
                  /\ (GuessContentType(key) = Markdown) = (ContentTypeFromKey(key) = Markdown)
                  /\ ContentTypeFromKey(key) # None => GuessContentType(key) = ContentTypeFromKey(key)
                  /\ DetectMimeType(key) \in {Markdown, PlainText} => DetectMimeType(key) = ContentTypeFromKey(key)
       /\ HeadObject([type |-> stored, size |-> 1, etag |-> None, modified |-> LatestFormattable + 1]).validators.modified = None

=============================================================================
