------------------------------ MODULE Listing -----------------------------
(***************************************************************************)
(* Listings of a knowledge base, and the browse pages made of them.        *)
(***************************************************************************)
EXTENDS Glob, AccessRules

(* The three listings of a knowledge base, over one storage and one set of  *)
(* access rules: pages of objects on the HTTP API (router/kbs.rs), a folder *)
(* on the browse pages (browse/listing.rs) and a PROPFIND collection on     *)
(* WebDAV (webdav/filesystem.rs).  Storage lists keys in text order, knows  *)
(* nothing of the rules and hands out cursors at its own page boundaries,   *)
(* so each surface scans, discards and pages; objects come and go between   *)
(* its storage calls.  The storage side is the filesystem backend's walk of *)
(* a directory tree (storage-fs/listing.rs).                                *)
CONSTANTS Rank,             \* the byte order of the characters
          Reserved,         \* RESERVED_KEYS: keys that name a route
          Policies, Principals, Folders, Limits,
          ScanPage,         \* LIST_SCAN_PAGE, SCAN_PAGE
          MaxCalls,         \* LIST_SCAN_MAX_CALLS
          BrowseMax,        \* BROWSE_MAX_KEYS
          DavMaxEntries,    \* PROPFIND_MAX_ENTRIES
          DavMaxScanned,    \* PROPFIND_MAX_SCANNED
          MaxChanges        \* bound: writes and deletes during a walk

VARIABLES policy, principal,    \* fixed at startup and by the credential
          store,                \* the keys stored
          walk,                 \* the listing in progress
          steady,               \* keys stored throughout the walk
          disturbed,            \* a change fell between a page and its re-list
          changes

vars == <<policy, principal, store, walk, steady, disturbed, changes>>

-----------------------------------------------------------------------------
(* Keys in byte order. *)

Before(a, b) ==
    \/ a # b /\ StartsWith(b, a)
    \/ \E i \in 1..Len(a) :
           /\ i <= Len(b)
           /\ SubSeq(a, 1, i - 1) = SubSeq(b, 1, i - 1)
           /\ Rank[a[i]] < Rank[b[i]]

Sorted(texts) ==
    [i \in 1..Cardinality(texts) |->
        CHOOSE t \in texts : Cardinality({u \in texts : Before(u, t)}) = i - 1]

(* A path is a file or a directory, never both. *)
IsTree(keys) == \A k, l \in keys : ~StartsWith(l, Append(k, Slash))

NoCursor == <<>>

(* Mutant: a subtree at or behind the cursor is skipped. *)
SubtreeMayMatchStrict(stem, after, prefix) ==
    /\ StartsWith(stem, prefix) \/ StartsWith(prefix, stem)
    /\ after = NoCursor \/ Before(after, stem)

SubtreeMayMatch(stem, after, prefix) ==
    /\ StartsWith(stem, prefix) \/ StartsWith(prefix, stem)
    /\ \/ after = NoCursor
       \/ Before(after, stem)
       \/ StartsWith(after, stem)

(* One directory, its subdirectories ordered with the slash they stand for. *)
ReadLevel(keys, dir) ==
    LET rest(k) == SubSeq(k, Len(dir) + 1, Len(k))
        name(k) == IF Slash \in ToSet(rest(k))
                   THEN SubSeq(rest(k), 1, First(rest(k), Slash))
                   ELSE rest(k)
    IN Sorted({name(k) : k \in {k \in keys : StartsWith(k, dir)}})

(* The ordered walk: every key past the cursor with the prefix, depth first. *)
RECURSIVE OrderedWalk(_, _, _, _)
OrderedWalk(keys, dir, after, prefix) ==
    LET level == ReadLevel(keys, dir)
        Visit(name) ==
            LET path == dir \o name
            IN IF Last(name) = Slash
               THEN IF SubtreeMayMatch(path, after, prefix)
                    THEN OrderedWalk(keys, path, after, prefix) ELSE <<>>
               ELSE IF /\ after = NoCursor \/ Before(after, path)
                       /\ StartsWith(path, prefix)
                    THEN <<path>> ELSE <<>>
    IN FlattenSeq([i \in 1..Len(level) |-> Visit(level[i])])

(* The walk of every directory tree, tabulated. *)
Walks ==
    [keys \in {s \in SUBSET Keys : IsTree(s)} |->
        [after \in Keys \union {NoCursor} |->
            [prefix \in Folders \union {LiteralFirst(p) : p \in Patterns} |->
                OrderedWalk(keys, <<>>, after, prefix)]]]

(* Storage::list_objects: a page and the cursor of the next one. *)
FirstOf(rows, limit) == SubSeq(rows, 1, IF Len(rows) > limit THEN limit ELSE Len(rows))

PageOf(all, limit) ==
    [rows |-> FirstOf(all, limit),
     next |-> IF Len(all) > limit /\ limit > 0 THEN all[limit] ELSE NoCursor]

ListObjects(prefix, limit, cursor) == PageOf(Walks[store][cursor][prefix], limit)

-----------------------------------------------------------------------------
(* Where a filtered scan starts. *)

Overlap(requested, hint) ==
    \/ hint = None
    \/ StartsWith(requested, Append(hint, Slash))
    \/ StartsWith(hint, requested)

EffectivePrefix(requested, hint) ==
    IF hint = None \/ StartsWith(requested, Append(hint, Slash)) THEN requested ELSE hint

(* The filter is compiled once per request and the scan narrowed by it. *)
ListFilter == walk.filter

NoFilter == [reach |-> "anonymous", allow |-> {}, deny |-> {}]

Idle == [surface |-> "none", phase |-> "idle", prefix |-> <<>>, limit |-> 0,
         cursor |-> NoCursor, found |-> <<>>, calls |-> 0, consumed |-> 0,
         got |-> <<>>, outcome |-> "none", filter |-> NoFilter, hint |-> None]

Init ==
    /\ policy \in Policies /\ principal \in Principals
    /\ store \in DOMAIN Walks
    /\ walk = Idle /\ steady = store
    /\ disturbed = FALSE /\ changes = 0

Scan == EffectivePrefix(walk.prefix, walk.hint)

(* A client starts a listing; a caller no rule grants `list` is refused. *)
Ask(surface, prefix, limit) ==
    /\ walk.phase = "idle" /\ (surface = "api" <=> limit > 0)
    /\ LET filter == Filter(policy, principal, "list")
       IN walk' = [Idle EXCEPT
                     !.surface = surface, !.prefix = prefix, !.limit = limit,
                     !.filter = filter, !.hint = LiteralPrefixHint(filter),
                     !.phase = IF surface # "dav" /\ ~GrantsAny(policy, principal, "list")
                               THEN "refused" ELSE "scan"]
    /\ UNCHANGED <<policy, principal, store, steady, disturbed, changes>>

(* The rows of a page the filter lets through, up to a position. *)
Allowed(rows) == SelectSeq(rows, LAMBDA k : Allows(ListFilter, k))

(* A page is handed to the client, who asks for the next one at once. *)
Answer(rows, next) ==
    [walk EXCEPT !.got = walk.got \o rows, !.cursor = next, !.found = <<>>,
                 !.calls = 0, !.consumed = 0,
                 !.phase = IF next = NoCursor THEN "done" ELSE "scan"]

(* Mutant: the page's own cursor is returned although rows after the one    *)
(* that filled it were not consumed.                                        *)
FilledCursorOfPage(page, rows, consumed) == Answer(rows, page.next)

(* The page is full: with rows left over, the rows consumed are listed again *)
(* for a cursor that stands right behind them.                              *)
Filled(page, rows, consumed) ==
    IF consumed < Len(page.rows)
    THEN [walk EXCEPT !.found = rows, !.consumed = consumed, !.phase = "exact"]
    ELSE Answer(rows, page.next)

(* A scanned page is filtered: it fills the client's page, ends the scan, or *)
(* the next one is needed.                                                  *)
Filtered(page, rows) ==
    LET room == walk.limit - Len(walk.found)
        filling == {n \in 1..Len(page.rows) : Len(Allowed(SubSeq(page.rows, 1, n))) = room}
    IN  IF filling # {} THEN Filled(page, SubSeq(rows, 1, walk.limit), Min(filling))
        ELSE IF page.next = NoCursor \/ walk.calls + 1 = MaxCalls
        THEN Answer(rows, page.next)
        ELSE [walk EXCEPT !.found = rows, !.cursor = page.next, !.calls = @ + 1]

Unfiltered(page) == Answer(page.rows, page.next)

(* One storage call of list_filtered_objects. *)
ApiPage ==
    /\ walk.surface = "api" /\ walk.phase = "scan"
    /\ walk' =
         IF IsAllowAll(ListFilter)
         THEN Unfiltered(ListObjects(walk.prefix, walk.limit, walk.cursor))
         ELSE IF IsDenyAll(ListFilter) \/ ~Overlap(walk.prefix, walk.hint)
         THEN Answer(<<>>, NoCursor)
         ELSE LET page == ListObjects(Scan, ScanPage, walk.cursor)
              IN  Filtered(page, walk.found \o Allowed(page.rows))
    /\ UNCHANGED <<policy, principal, store, steady, disturbed, changes>>

(* The second listing, of exactly the rows consumed. *)
ApiExact ==
    /\ walk.surface = "api" /\ walk.phase = "exact"
    /\ walk' = Answer(walk.found, ListObjects(Scan, walk.consumed, walk.cursor).next)
    /\ UNCHANGED <<policy, principal, store, steady, disturbed, changes>>

(* What a browse page may show at all. *)
IsVisible(key) == ~IsInternal(key) /\ key \notin Reserved /\ Allows(ListFilter, key)

ReadUpTo(page, left) ==
    LET read == FirstOf(page.rows, left)
        cut == Len(page.rows) > left
    IN  [walk EXCEPT !.got = @ \o SelectSeq(read, IsVisible),
                     !.calls = @ + Len(read),
                     !.found = IF read = <<>> THEN @ ELSE <<Last(read)>>,
                     !.cursor = page.next,
                     !.phase = IF cut \/ page.next = NoCursor THEN "done" ELSE "scan",
                     !.outcome = IF cut THEN "truncated"
                                 ELSE IF page.next = NoCursor THEN "whole" ELSE "none"]

(* One storage call of read_directory: the cap counts keys scanned, and the *)
(* last key read is remembered for the notice.                              *)
BrowsePage ==
    /\ walk.surface = "browse" /\ walk.phase = "scan"
    /\ walk' =
         IF ~Overlap(walk.prefix, walk.hint)
         THEN [walk EXCEPT !.phase = "done", !.outcome = "whole"]
         ELSE ReadUpTo(ListObjects(Scan, ScanPage, walk.cursor), BrowseMax - walk.calls)
    /\ UNCHANGED <<policy, principal, store, steady, disturbed, changes>>

(* is_present: a truncated read answers "unknown", which counts as present. *)
IsPresent == walk.got # <<>> \/ walk.outcome = "truncated"

Collected(page) ==
    LET rows == Allowed(page.rows)
        scanned == walk.calls + Len(page.rows)
    IN  IF scanned > DavMaxScanned \/ Len(walk.got) + Len(rows) > DavMaxEntries
        THEN [walk EXCEPT !.got = <<>>, !.phase = "done", !.outcome = "too large"]
        ELSE [walk EXCEPT !.got = @ \o rows, !.calls = scanned, !.cursor = page.next,
                          !.phase = IF page.next = NoCursor THEN "done" ELSE "scan",
                          !.outcome = IF page.next = NoCursor THEN "whole" ELSE "none"]

(* One storage call of collect_propfind_objects: all or nothing. *)
DavPage ==
    /\ walk.surface = "dav" /\ walk.phase = "scan"
    /\ LET room == DavMaxEntries - Len(walk.got)
       IN  walk' = Collected(ListObjects(walk.prefix, Min({room + 1, ScanPage}), walk.cursor))
    /\ UNCHANGED <<policy, principal, store, steady, disturbed, changes>>

(* Another writer adds or removes an object while a walk is under way. *)
Change(k) ==
    /\ walk.phase \in {"scan", "exact"} /\ changes < MaxChanges
    /\ store' = IF k \in store THEN store \ {k} ELSE store \union {k}
    /\ store' \in DOMAIN Walks
    /\ steady' = steady \ {k}
    /\ disturbed' = (disturbed \/ walk.phase = "exact")
    /\ changes' = changes + 1
    /\ UNCHANGED <<policy, principal, walk>>

Next ==
    \/ \E s \in {"api", "browse", "dav"}, p \in Folders, n \in Limits \union {0} : Ask(s, p, n)
    \/ ApiPage \/ ApiExact \/ BrowsePage \/ DavPage
    \/ \E k \in Keys : Change(k)

Spec == Init /\ [][Next]_vars

-----------------------------------------------------------------------------
Ordered(rows) == \A i, j \in 1..Len(rows) : i < j => Before(rows[i], rows[j])

(* The keys a finished listing owes the caller: stored all along, under the *)
(* prefix, allowed, and addressable by a rule at all.                       *)
Owed == {k \in steady : /\ StartsWith(k, walk.prefix) /\ Allows(ListFilter, k)
                        /\ ~IsInternal(k)}

(* Following the cursors to the end gives every object that was there all   *)
(* along and is allowed, each once, in key order, and nothing that is not   *)
(* allowed, whatever is written meanwhile: only a change between a filled   *)
(* page and its re-list is excepted (list_filtered_objects).                *)
PagesAreExact ==
    walk.surface = "api" =>
        /\ \A k \in ToSet(walk.got) : Allows(ListFilter, k) /\ StartsWith(k, walk.prefix)
        /\ ~disturbed => Ordered(walk.got)
        /\ walk.phase = "done" /\ ~disturbed => Owed \subseteq ToSet(walk.got)
        /\ walk.phase = "refused" => Owed = {}

(* A browse page is the truth up to the key its notice names, and a folder  *)
(* that holds something for the caller is never reported absent; a PROPFIND *)
(* that is answered is complete (read_directory, collect_propfind_objects). *)
DirectoriesAreHonest ==
    walk.phase = "done" /\ walk.surface \in {"browse", "dav"} =>
        /\ \A k \in ToSet(walk.got) : Allows(ListFilter, k)
        /\ walk.outcome = "whole" => Owed \ Reserved \subseteq ToSet(walk.got) \union Reserved
        /\ walk.surface = "browse" =>
               /\ walk.outcome = "truncated" =>
                      {k \in Owed \ Reserved : ~Before(walk.found[1], k)} \subseteq ToSet(walk.got)
               /\ Owed \ Reserved # {} => IsPresent

(* The shortcuts a listing takes before it has a key agree with the         *)
(* decision it would make key by key (core/access/mod.rs).                  *)
ShortcutsAreSound ==
    walk.phase = "idle" => \A verb \in {"list", "write"} : ShortcutsAgree(policy, principal, verb)

-----------------------------------------------------------------------------
(* The browse pages (api-http/router/browse): which address answers with a  *)
(* page, which redirects, which is refused, and the links a page offers.    *)
(* Folders are synthesised from keys, a folder no visible key lies under    *)
(* does not exist, and a page is computed from one read of the directory    *)
(* (Listing steps through that read; here it is taken whole).               *)
CONSTANT Objects    \* the keys a client asks for without a trailing slash

(* Rolling a flat listing up into one level. *)
Relative(k, prefix) == SubSeq(k, Len(prefix) + 1, Len(k))

FoldersOf(keys, prefix) ==
    {SubSeq(r, 1, First(r, Slash)) :
        r \in {Relative(k, prefix) : k \in {x \in keys : /\ StartsWith(x, prefix)
                                                        /\ Slash \in ToSet(Relative(x, prefix))}}}

FilesOf(keys, prefix) ==
    {k \in keys : /\ StartsWith(k, prefix) /\ k # prefix
                  /\ Slash \notin ToSet(Relative(k, prefix))}

-----------------------------------------------------------------------------
May(verb, key) == Allows(Filter(policy, principal, verb), key)

(* read_directory, whole: the keys shown and whether the cap cut it short. *)
Shown(rows) ==
    [keys |-> {k \in ToSet(FirstOf(rows, BrowseMax)) : /\ ~IsInternal(k) /\ k \notin Reserved
                                                      /\ May("list", k)},
     truncated |-> Len(rows) > BrowseMax]

RowsUnder(prefix, hint) ==
    IF Overlap(prefix, hint)
    THEN OrderedWalk(store, <<>>, NoCursor, EffectivePrefix(prefix, hint)) ELSE <<>>

Directory(prefix) ==
    Shown(RowsUnder(prefix, LiteralPrefixHint(Filter(policy, principal, "list"))))

Present(dir, prefix) ==
    FoldersOf(dir.keys, prefix) # {} \/ FilesOf(dir.keys, prefix) # {} \/ dir.truncated

Page(dir, prefix) == [answer |-> "page", dir |-> dir, prefix |-> prefix]
To(kind, where) == [answer |-> kind, where |-> where]
Denied == [answer |-> IF principal.reach = "anonymous" THEN "404" ELSE "403"]
NotFound == [answer |-> "404"]

(* render_directory *)
Rendered(dir, prefix) ==
    IF prefix # <<>> /\ ~Present(dir, prefix) THEN Denied ELSE Page(dir, prefix)

RenderDirectory(prefix) == Rendered(Directory(prefix), prefix)

(* Mutant: a folder's address is answered before anything is looked up. *)
ResolveAmbiguousEarly(key) ==
    IF IsInternal(key) THEN NotFound
    ELSE IF key \notin Reserved /\ May("read", key) /\ key \in store
    THEN To("object", key)
    ELSE IF GrantsAny(policy, principal, "list")
    THEN To("directory", Append(key, Slash))
    ELSE NotFound

(* An address without a trailing slash: an object, a folder or neither. *)
ResolveAmbiguous(key) ==
    IF IsInternal(key) THEN NotFound
    ELSE IF key \notin Reserved /\ May("read", key) /\ key \in store
    THEN To("object", key)
    ELSE IF /\ GrantsAny(policy, principal, "list")
            /\ Present(Directory(Append(key, Slash)), Append(key, Slash))
    THEN To("directory", Append(key, Slash))
    ELSE NotFound

(* browse_path: a knowledge base, a folder inside one, or an object. *)
BrowsePath(path, slash) ==
    IF ~VisibleInListing(policy, principal) THEN Denied
    ELSE IF ~slash /\ path # <<>> THEN ResolveAmbiguous(path)
    ELSE IF ~slash THEN To("directory", <<>>)
    ELSE IF path # <<>> /\ IsInternal(path) THEN NotFound
    ELSE IF ~GrantsAny(policy, principal, "list") THEN Denied
    ELSE RenderDirectory(path)

(* The row of a knowledge base on the root page is a link only when it can  *)
(* be followed.                                                             *)
RootLinks == VisibleInListing(policy, principal) /\ GrantsAny(policy, principal, "list")

Parent(prefix) ==
    LET above == {n \in 0..(Len(prefix) - 1) : n = 0 \/ prefix[n] = Slash}
    IN SubSeq(prefix, 1, CHOOSE n \in above : \A m \in above : m <= n)

(* directory_rows: the parent, the folders, the objects that may be read. *)
FolderLinks(page) ==
    {page.prefix \o f : f \in FoldersOf(page.dir.keys, page.prefix)}
        \union (IF page.prefix = <<>> THEN {} ELSE {Parent(page.prefix)})
ObjectLinks(page) == {k \in FilesOf(page.dir.keys, page.prefix) : May("read", k)}

-----------------------------------------------------------------------------
(* Every link leads somewhere: the knowledge base linked at the root, each  *)
(* folder and parent linked on a page and each redirect answer with a page, *)
(* and each object linked or redirected to is stored and readable (browse/  *)
(* mod.rs, whose rows stay plain text rather than promise a 404).           *)
LinksLead ==
    walk.phase = "idle" =>
        LET leads(where) == BrowsePath(where, TRUE).answer = "page"
            reads(k) == k \in store /\ k \notin Reserved /\ May("read", k)
            answers == {BrowsePath(p, TRUE) : p \in Folders} \union
                       {BrowsePath(k, FALSE) : k \in Objects}
        IN /\ RootLinks => leads(<<>>)
           /\ \A a \in answers :
                  /\ a.answer = "page" => /\ \A f \in FolderLinks(a) : leads(f)
                                          /\ \A k \in ObjectLinks(a) : reads(k)
                  /\ a.answer = "directory" => leads(a.where)
                  /\ a.answer = "object" => reads(a.where)

=============================================================================
