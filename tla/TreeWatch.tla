------------------------------ MODULE TreeWatch ------------------------------
(***************************************************************************)
(* The fs backend noticing what changes in its tree, from the kernel event  *)
(* to the search index: the watcher's handler and its pending set           *)
(* (notedthat-storage-fs/src/watch.rs, watch/pending.rs), the settle loop,  *)
(* the bridge and its reconciliation passes                                 *)
(* (notedthat-server/src/run/fs_watch.rs), and the staleness the health     *)
(* record reports (notedthat-indexer/src/health.rs).                        *)
(*                                                                         *)
(* One knowledge base.  A path is a number in byte order of its key and may *)
(* hold a file or a directory at different times.  A file's content stands  *)
(* for its ETag.  Clocks are left out: a pending entry may settle at any    *)
(* tick.  The worker is one step per event (WritePath has its detail), and  *)
(* the queue a set, as a second look at a key finds what the first found.   *)
(***************************************************************************)
EXTENDS Integers, Sequences, FiniteSets, SequencesExt

CONSTANTS
    Paths,       \* paths below the knowledge base's directory, numbered from 1
    Parent,      \* path -> the path above it, 0 for the directory itself
    Contents,    \* contents of a file
    Dir,         \* a directory
    Gone,        \* nothing at a path
    Capacity,    \* PENDING_CAPACITY
    SignalCap,   \* signals the channel holds
    QueueCap,    \* events the indexing queue holds
    Bursts,      \* the tree may change faster than the watcher learns its directories
    MaxEdits,    \* bound on changes of the tree
    MaxLost    \* bound on lost events, watch errors and unreadable passes

Root == 0

\* The directories above each path, the root excepted.
Above ==
    LET Climb[q \in Paths \cup {Root}] == IF q = Root THEN {} ELSE {q} \cup Climb[Parent[q]]
    IN [p \in Paths |-> Climb[Parent[p]]]

\* The keys a prefix names; the root's prefix is empty and names them all.
Below == [d \in Paths \cup {Root} |-> {p \in Paths : d = Root \/ d \in Above[p]}]
Within(d) == {d} \cup Below[d]

\* What the tree can hold: something only below a directory.
Trees == {t \in [Paths -> Contents \cup {Dir, Gone}] :
            \A p \in Paths : t[p] # Gone => Parent[p] \in {Root} \cup {d \in Paths : t[d] = Dir}}

VARIABLES
    disk,         \* path -> what is there
    watching,     \* directories the kernel reports on
    kernel,       \* kernel events not handled yet: paths, Root for a rescan
    directories,  \* paths the handler knows as directories
    pending,      \* Pending: [whole, prefixes, keys]
    signals,      \* FsSignals settled and not received: [kind, at]
    bridge,       \* what run_bridge is doing: [phase, scope, indexed, todo]
    refreshes,        \* keys with a Refresh queued
    index,        \* key -> content it is indexed from
    stale,        \* KbRecord.stale_since is set
    owed,         \* keys that a skipped pass did not examine and no later pass has
    edits, faults

bridgeVars == <<disk, watching, kernel, directories, pending, signals, bridge, refreshes, index, stale, owed,
          edits, faults>>
treeVars == <<disk, watching, edits>>
watchVars == <<kernel, directories, pending>>
indexVars == <<refreshes, index>>
healthVars == <<stale, owed>>

IsFile(p) == disk[p] \in Contents
OnDisk(p) == IF IsFile(p) THEN disk[p] ELSE Gone
HoldsDir(p) == IF p = Root THEN TRUE ELSE disk[p] = Dir

Nothing == [whole |-> FALSE, prefixes |-> {}, keys |-> {}]
Idle == [phase |-> "idle", scope |-> Root, indexed |-> <<>>, todo |-> <<>>]
Pass(d) == [Idle EXCEPT !.phase = "index", !.scope = d]

\* The server starts: the tree and the index are as an earlier life left them,
\* every directory is watched and known, and the startup pass is outstanding.
WatchInit ==
    /\ disk \in Trees
    /\ watching = {Root} \cup {p \in Paths : disk[p] = Dir}
    /\ directories = watching \ {Root}
    /\ kernel = <<>>
    /\ pending = Nothing
    /\ signals = <<>>
    /\ bridge = Pass(Root)
    /\ refreshes = {}
    /\ \E v \in Contents \cup {Gone} : index = [p \in Paths |-> v]
    /\ stale = TRUE
    /\ owed = {}
    /\ edits = 0
    /\ faults = 0

Fault == faults < MaxLost /\ faults' = faults + 1

-----------------------------------------------------------------------------
(* The tree, changed by something other than NotedThat.                     *)

\* The tree becomes t, and the kernel reports p if it watches the directory above.
Edit(t, p) ==
    /\ edits < MaxEdits
    /\ edits' = edits + 1
    /\ disk' = t
    /\ watching' = {d \in watching : d = Root \/ t[d] = Dir}
    /\ kernel' = IF Parent[p] \in watching THEN Append(kernel, p) ELSE kernel
    /\ UNCHANGED <<directories, pending, signals, bridge, indexVars, healthVars, faults>>

WriteFile(p, c) ==
    /\ HoldsDir(Parent[p]) /\ disk[p] \notin {c, Dir}
    /\ Edit([disk EXCEPT ![p] = c], p)

RemoveFile(p) ==
    /\ IsFile(p)
    /\ Edit([disk EXCEPT ![p] = Gone], p)

\* A directory appears: made empty, or moved in with what is inside it.
\* Without bursts, not before the watcher has seen what the path held before.
AddDirectory(d) ==
    /\ HoldsDir(Parent[d]) /\ disk[d] = Gone
    /\ Bursts \/ ~ Contains(kernel, d)
    /\ \E t \in Trees :
        /\ t[d] = Dir
        /\ \A p \in Paths : IF p \in Below[d] THEN Bursts \/ t[p] # Dir ELSE p = d \/ t[p] = disk[p]
        /\ Edit(t, d)

\* A directory goes, with what is inside it.  Without bursts, one the watcher knows.
DropDirectory(d) ==
    /\ disk[d] = Dir
    /\ Bursts \/ d \in directories
    /\ Edit([p \in Paths |-> IF p \in Within(d) THEN Gone ELSE disk[p]], d)

\* The kernel's queue overflows: what it held is lost and a rescan is asked for.
\* Without bursts, no directory that came or went is among the lost.
Overflow ==
    /\ kernel # <<>>
    /\ Bursts \/ \A p \in Paths : Contains(kernel, p) => (p \in directories <=> disk[p] = Dir)
    /\ Fault
    /\ kernel' = <<Root>>
    /\ UNCHANGED <<treeVars, directories, pending, signals, bridge, indexVars, healthVars>>

-----------------------------------------------------------------------------
(* The pending set.                                                         *)

Count(pd) == (IF pd.whole THEN 1 ELSE 0) + Cardinality(pd.prefixes) + Cardinality(pd.keys)

WholeKb == [Nothing EXCEPT !.whole = TRUE]

CoveredBy(pd, dirs) == pd.whole \/ pd.prefixes \cap dirs # {}

PendKey(pd, p) ==
    IF CoveredBy(pd, Above[p]) THEN pd
    ELSE IF Count(pd) >= Capacity THEN WholeKb
    ELSE [pd EXCEPT !.keys = @ \cup {p}]

PendPrefix(pd, d) ==
    LET kept == [pd EXCEPT !.prefixes = @ \ Below[d], !.keys = @ \ Below[d]] IN
    IF CoveredBy(pd, {d} \cup Above[d]) THEN pd
    ELSE IF Count(kept) >= Capacity THEN WholeKb
    ELSE [kept EXCEPT !.prefixes = @ \cup {d}]

-----------------------------------------------------------------------------
(* The watcher.                                                             *)

\* Mutant: a path that is no directory any more is looked at by its name.
HandlePathByName(p) ==
    IF disk[p] = Dir
    THEN /\ directories' = directories \cup {p}
         /\ pending' = PendPrefix(pending, p)
         /\ watching' = watching \cup {d \in Within(p) : disk[d] = Dir}
    ELSE /\ directories' = directories \ Within(p)
         /\ pending' = PendKey(pending, p)
         /\ UNCHANGED watching

\* handle_event for one path: whether it is a directory is asked now.  The
\* watcher library watches a reported directory, and those inside it, as the
\* event is handled.
HandlePath(p) ==
    IF disk[p] = Dir
    THEN /\ directories' = directories \cup {p}
         /\ pending' = PendPrefix(pending, p)
         /\ watching' = watching \cup {d \in Within(p) : disk[d] = Dir}
    ELSE IF p \in directories
    THEN /\ directories' = directories \ Within(p)
         /\ pending' = PendPrefix(pending, p)
         /\ UNCHANGED watching
    ELSE /\ pending' = PendKey(pending, p)
         /\ UNCHANGED <<directories, watching>>

HandleEvent ==
    /\ kernel # <<>>
    /\ kernel' = Tail(kernel)
    /\ IF kernel[1] = Root
       THEN pending' = WholeKb /\ UNCHANGED <<directories, watching>>
       ELSE HandlePath(kernel[1])
    /\ UNCHANGED <<disk, edits, signals, bridge, indexVars, healthVars, faults>>

\* handle_error: a watch error, events unknown to the watcher.
HandleError ==
    /\ Fault
    /\ pending' = WholeKb
    /\ UNCHANGED <<treeVars, kernel, directories, signals, bridge, indexVars, healthVars>>

Signals(kind, S) == [i \in 1 .. Cardinality(S) |-> [kind |-> kind, at |-> SetToSortSeq(S, <)[i]]]

\* settle_loop, one tick: whatever has settled leaves the set, broadest first,
\* and is sent before the next tick; a full channel holds the loop.
Settle(whole, ps, ks) ==
    /\ Len(signals) <= SignalCap
    /\ whole \/ ps # {} \/ ks # {}
    /\ whole => pending.whole
    /\ pending' = [whole |-> pending.whole /\ ~ whole,
                   prefixes |-> pending.prefixes \ ps, keys |-> pending.keys \ ks]
    /\ signals' = signals \o Signals("kb", IF whole THEN {Root} ELSE {})
                          \o Signals("prefix", ps) \o Signals("changed", ks)
    /\ UNCHANGED <<treeVars, kernel, directories, bridge, indexVars, healthVars, faults>>

Tick == \E whole \in BOOLEAN, ps \in SUBSET pending.prefixes, ks \in SUBSET pending.keys : Settle(whole, ps, ks)

-----------------------------------------------------------------------------
(* The bridge.                                                              *)

\* run_bridge takes the next signal.
Receive ==
    /\ bridge.phase = "idle"
    /\ signals # <<>>
    /\ signals' = Tail(signals)
    /\ LET s == signals[1] IN
        /\ bridge' = IF s.kind = "changed" THEN [Idle EXCEPT !.phase = "one", !.todo = <<s.at>>]
                                           ELSE Pass(s.at)
        /\ stale' = (stale \/ s.kind = "kb")
    /\ UNCHANGED <<treeVars, watchVars, indexVars, owed, faults>>

Sorted(S) == SetToSortSeq(S, <)

\* reconcile_into reads what the index holds under the prefix.
ReadIndex ==
    /\ bridge.phase = "index"
    /\ bridge' = [bridge EXCEPT !.phase = "walk",
                     !.indexed = LET held == Sorted({p \in Below[bridge.scope] : index[p] # Gone})
                                 IN [i \in DOMAIN held |-> <<held[i], index[held[i]]>>]]
    /\ UNCHANGED <<treeVars, watchVars, signals, indexVars, healthVars, faults>>

\* The index or the tree cannot be read: the pass is skipped and nothing recorded.
PassFails ==
    /\ bridge.phase \in {"index", "walk"}
    /\ Fault
    /\ owed' = owed \cup Below[bridge.scope]
    /\ bridge' = Idle
    /\ UNCHANGED <<treeVars, watchVars, signals, indexVars, stale>>

R == INSTANCE Reconcile WITH KeyKind <- [p \in Paths |-> "plain"], NoEtag <- Gone

\* walk_etags and compare: the files found below the prefix, and the keys to
\* look at again.
WalkAndCompare ==
    /\ bridge.phase = "walk"
    /\ LET found == Sorted({p \in Below[bridge.scope] : IsFile(p)})
           walked == [i \in DOMAIN found |-> <<found[i], disk[found[i]]>>]
       IN bridge' = [bridge EXCEPT !.phase = "send", !.indexed = <<>>,
                                   !.todo = R!Compare(walked, bridge.indexed, Below[bridge.scope]).keys]
    /\ UNCHANGED <<treeVars, watchVars, signals, indexVars, healthVars, faults>>

\* Mutant: a full queue makes the pass drop the key.
SendOrDrop ==
    /\ bridge.phase \in {"send", "one"}
    /\ bridge.todo # <<>>
    /\ refreshes' = IF Cardinality(refreshes) < QueueCap THEN refreshes \cup {bridge.todo[1]} ELSE refreshes
    /\ bridge' = [bridge EXCEPT !.todo = Tail(@)]
    /\ UNCHANGED <<treeVars, watchVars, signals, index, healthVars, faults>>

\* IndexSink.send: blocking on a full queue.
Send ==
    /\ bridge.phase \in {"send", "one"}
    /\ bridge.todo # <<>>
    /\ Cardinality(refreshes) < QueueCap \/ bridge.todo[1] \in refreshes
    /\ refreshes' = refreshes \cup {bridge.todo[1]}
    /\ bridge' = [bridge EXCEPT !.todo = Tail(@)]
    /\ UNCHANGED <<treeVars, watchVars, signals, index, healthVars, faults>>

\* Everything is enqueued; a pass is recorded, which clears the staleness.
Finish ==
    /\ bridge.phase \in {"send", "one"}
    /\ bridge.todo = <<>>
    /\ IF bridge.phase = "send"
       THEN stale' = FALSE /\ owed' = owed \ Below[bridge.scope]
       ELSE UNCHANGED healthVars
    /\ bridge' = Idle
    /\ UNCHANGED <<treeVars, watchVars, signals, indexVars, faults>>

\* The worker takes a key's Refresh and brings the index to what storage holds.
Work(p) ==
    /\ p \in refreshes
    /\ refreshes' = refreshes \ {p}
    /\ index' = [index EXCEPT ![p] = OnDisk(p)]
    /\ UNCHANGED <<treeVars, watchVars, signals, bridge, healthVars, faults>>

WatchNext ==
    \/ \E p \in Paths : RemoveFile(p) \/ AddDirectory(p) \/ DropDirectory(p) \/ Work(p)
    \/ \E p \in Paths, c \in Contents : WriteFile(p, c)
    \/ Overflow \/ HandleEvent \/ HandleError \/ Tick
    \/ Receive \/ ReadIndex \/ PassFails \/ WalkAndCompare \/ Send \/ Finish

WatchSpec == WatchInit /\ [][WatchNext]_bridgeVars

\* What the process does by itself; a pending entry settles once it is left alone.
Settled == Settle(pending.whole, pending.prefixes, pending.keys)
Bridge == Receive \/ ReadIndex \/ WalkAndCompare \/ Send \/ Finish
System == HandleEvent \/ Settled \/ Bridge \/ \E p \in Paths : Work(p)

\* The process is not stopped for good while one of its tasks can run.
WatchFairSpec == WatchSpec /\ WF_bridgeVars(System)

-----------------------------------------------------------------------------
\* Types of the variables.
WatchTypeOK ==
    /\ disk \in [Paths -> Contents \cup {Dir, Gone}]
    /\ watching \subseteq Paths \cup {Root} /\ directories \subseteq Paths
    /\ kernel \in Seq(Paths \cup {Root})
    /\ pending \in [whole : BOOLEAN, prefixes : SUBSET Paths, keys : SUBSET Paths]
    /\ Count(pending) <= Capacity
    /\ bridge.phase \in {"idle", "index", "walk", "send", "one"} /\ bridge.scope \in Paths \cup {Root}
    /\ refreshes \subseteq Paths /\ Cardinality(refreshes) <= QueueCap
    /\ index \in [Paths -> Contents \cup {Gone}]
    /\ stale \in BOOLEAN /\ owed \subseteq Paths

\* A pass that is going to report p, or may still find that it has to.
PassCovers(p) ==
    \/ bridge.phase = "index" /\ p \in Below[bridge.scope]
    \/ /\ bridge.phase = "walk" /\ p \in Below[bridge.scope]
       /\ <<p, OnDisk(p)>> \notin ToSet(bridge.indexed)
       /\ ~ (OnDisk(p) = Gone /\ \A e \in ToSet(bridge.indexed) : e[1] # p)
    \/ Contains(bridge.todo, p)

SignalCovers(s, p) ==
    CASE s.kind = "changed" -> s.at = p
      [] OTHER -> p \in Below[s.at]

\* Something between the kernel and the worker will look at p again.
UnderWay(p) ==
    \/ \E i \in DOMAIN kernel : kernel[i] \in Above[p] \cup {p, Root}
    \/ CoveredBy(pending, Above[p]) \/ p \in pending.keys
    \/ \E i \in DOMAIN signals : SignalCovers(signals[i], p)
    \/ PassCovers(p)
    \/ p \in refreshes

\* No change is lost between the tree and the index: where they differ, an
\* event, a pending entry, a signal, a pass or a queued refresh still stands for
\* the key, or a pass over it was skipped (watch.rs: "re-examine that subtree";
\* pending.rs: "the smallest set of work that still covers everything reported").
NoChangeIsLost == \A p \in Paths : index[p] # OnDisk(p) => UnderWay(p) \/ p \in owed

\* A knowledge base with keys no completed pass has examined says so
\* (health.rs: stale "until a rescan completes"; fs_watch.rs: an incomplete pass
\* leaves `stale`).
SkippedIsStale == owed # {} => stale

\* What the pending set stands for, it goes on standing for until the settle
\* loop takes it, whatever is reported and however full the set is.
Stands(pd, p) == CoveredBy(pd, Above[p]) \/ p \in pd.keys
PendingCovers ==
    [][signals' = signals =>
        \A p \in Paths : Stands(pending, p) => Stands(pending', p)]_bridgeVars

\* Once the tree is left alone the index comes to agree with it, apart from
\* what skipped passes owe.
IndexFollowsTree == <>[](\A p \in Paths : index[p] = OnDisk(p) \/ p \in owed)
=============================================================================
