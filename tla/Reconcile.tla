------------------------------ MODULE Reconcile ------------------------------
(***************************************************************************)
(* Comparing what storage holds with what the index holds                   *)
(* (notedthat-core/src/reconcile.rs: compare), and paging through a listing *)
(* (walk_etags_paged, advance).  Keys are numbers in their byte order; an   *)
(* ETag is a model value.  Either side is a sequence of <<key, etag>>.      *)
(***************************************************************************)
EXTENDS Integers, Sequences, FiniteSets

CONSTANTS
    KeyKind,   \* key -> "plain", "internal", "invalid" or "reserved"
    NoEtag     \* a listing entry that carries no ETag

\* in_storage after its filters: no private, unparsable or reserved key.
StorageSide(pairs) == SelectSeq(pairs, LAMBDA e : KeyKind[e[1]] = "plain")

\* indexed after its filters: only what can be re-read, and the keys under the prefix.
IndexSide(pairs, under) == SelectSeq(pairs, LAMBDA e : KeyKind[e[1]] # "invalid" /\ e[1] \in under)

\* Mutant: a key the index holds twice over is taken for unchanged.
MergeStepLoose(s, x, m) ==
    LET a == s[m.i]  b == x[m.j] IN
    IF m.i <= Len(s) /\ m.j <= Len(x) /\ a[1] = b[1] /\ a[2] = b[2]
    THEN [m EXCEPT !.i = @ + 1, !.j = @ + 1, !.unchanged = @ + 1]
    ELSE IF m.i <= Len(s) /\ (m.j <= Len(x) => a[1] <= b[1])
    THEN [m EXCEPT !.i = @ + 1, !.j = @ + 1, !.changed = @ + 1, !.keys = Append(@, a[1])]
    ELSE [m EXCEPT !.j = @ + 1, !.orphaned = @ + 1, !.keys = Append(@, b[1])]

\* One turn of the loop over the two cursors.
MergeStep(s, x, m) ==
    LET a == s[m.i]  b == x[m.j]
        both == m.i <= Len(s) /\ m.j <= Len(x) IN
    IF both /\ a[1] = b[1]
    THEN IF a[2] = b[2]
         THEN [m EXCEPT !.i = @ + 1, !.j = @ + 1, !.unchanged = @ + 1]
         ELSE [m EXCEPT !.i = @ + 1, !.j = @ + 1, !.changed = @ + 1, !.keys = Append(@, a[1])]
    ELSE IF m.j > Len(x) \/ (both /\ a[1] < b[1])
    THEN [m EXCEPT !.i = @ + 1, !.changed = @ + 1, !.keys = Append(@, a[1])]
    ELSE [m EXCEPT !.j = @ + 1, !.orphaned = @ + 1, !.keys = Append(@, b[1])]

\* compare: the counts of the report and the keys that need a fresh look.
Compare(inStorage, indexed, under) ==
    LET s == StorageSide(inStorage)
        x == IndexSide(indexed, under)
        start == [i |-> 1, j |-> 1, onDisk |-> Len(s), unchanged |-> 0, changed |-> 0,
                  orphaned |-> 0, keys |-> <<>>]
        Merge[n \in 0 .. Len(s) + Len(x)] ==
            IF n = 0 THEN start
            ELSE LET m == Merge[n - 1] IN
                 IF m.i > Len(s) /\ m.j > Len(x) THEN m ELSE MergeStep(s, x, m)
    IN Merge[Len(s) + Len(x)]

----------------------------------------------------------------------------
\* Mutant: a page that promises more and cannot be followed ends the walk.
AdvanceQuietly(page, sent) ==
    CASE ~page.truncated \/ page.next \in {NoEtag, sent} -> "done" [] OTHER -> "next"

\* advance: what the walk does after a page that was asked for with a cursor.
Advance(page, sent) ==
    CASE ~page.truncated -> "done"
      [] page.truncated /\ page.next \in {NoEtag, sent} -> "error"
      [] OTHER -> "next"

\* S3Storage::list_objects, on a ListObjectsV2 answer whose flag and token may each be
\* missing: a token is believed only with the flag, and the flag only with a token.
S3ListObjects(answer) ==
    LET truncated == answer.flag = "true" IN
    IF truncated /\ answer.token = NoEtag THEN NoEtag
    ELSE [objects |-> answer.objects, truncated |-> truncated,
          next |-> IF truncated THEN answer.token ELSE NoEtag]

\* walk_etags_paged: the listing's answers are taken in turn; NoEtag stands for no
\* cursor and for the call that fails.
WalkEtags(answers) ==
    LET Walk[n \in 0 .. Len(answers)] ==
            IF n = 0 THEN [out |-> <<>>, cursor |-> NoEtag, state |-> "next"]
            ELSE LET was == Walk[n - 1]  page == answers[n] IN
                 IF was.state # "next" THEN was
                 ELSE IF page = NoEtag THEN [was EXCEPT !.state = "error"]
                 ELSE [out |-> was.out \o page.objects, cursor |-> page.next,
                       state |-> Advance(page, was.cursor)]
    IN Walk[Len(answers)]

----------------------------------------------------------------------------
(* A comparison finds every difference and only those: the keys it names   *)
(* are the plain ones whose ETag is not the indexed one and the indexed     *)
(* ones that storage no longer holds, in order and once each, and its       *)
(* counts add up (reconcile.rs compare).                                    *)
ComparesExactly(inStorage, indexed, under) ==
    LET report == Compare(inStorage, indexed, under)
        s == StorageSide(inStorage)
        x == IndexSide(indexed, under)
        held(e, side) == \E i \in DOMAIN side : side[i] = e
        known(k, side) == \E i \in DOMAIN side : side[i][1] = k
        changed == {s[i][1] : i \in {j \in DOMAIN s : ~held(s[j], x)}}
        orphaned == {x[i][1] : i \in {j \in DOMAIN x : ~known(x[j][1], s)}}
        named == {report.keys[i] : i \in DOMAIN report.keys}
    IN /\ named = changed \cup orphaned
       /\ \A i, j \in DOMAIN report.keys : i < j => report.keys[i] < report.keys[j]
       /\ report.changed = Cardinality(changed) /\ report.orphaned = Cardinality(orphaned)
       /\ report.unchanged + report.changed = report.onDisk

(* A walk that ends well has seen the whole of the listing: its pages are   *)
(* taken in order up to the one that says it is the last, and a listing     *)
(* that promises more and cannot be followed is an error, never a shorter   *)
(* walk that would tombstone the rest (reconcile.rs:301-317).               *)
WalksAreWhole(answers) ==
    LET walk == WalkEtags(answers) IN
    walk.state = "done" =>
      \E n \in DOMAIN answers :
        /\ \A i \in 1 .. n : answers[i] # NoEtag /\ (answers[i].truncated <=> i < n)
        /\ LET Taken[i \in 0 .. n] == IF i = 0 THEN <<>> ELSE Taken[i - 1] \o answers[i].objects
           IN walk.out = Taken[n]
=============================================================================
