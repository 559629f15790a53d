----------------------------- MODULE FsStorage ----------------------------
(***************************************************************************)
(* The filesystem backend: its objects and their records, and the claim a  *)
(* process makes on the root directory before it serves.                   *)
(***************************************************************************)
EXTENDS Integers, Sequences, FiniteSets, Functions

(***************************************************************************)
(* One knowledge base in a directory tree (notedthat-storage-fs): objects   *)
(* are files, each with a record (sidecar) of its ETag, its content type    *)
(* and the stamp of the file they were taken from.  A step is a system      *)
(* call or a lock operation; requests, the threads their blocking work runs *)
(* on, programs that edit the tree directly, and crashes interleave.        *)
(*                                                                         *)
(* A file is an inode.  The stamp of an inode is its number and its mtime:  *)
(* bodies are of one size, so that the size never tells two apart, and an   *)
(* ETag, the hash of a body, is the body.  All keys lie in one directory.   *)
(***************************************************************************)
CONSTANTS Keys, Requests, Bodies, Types,
          Asked,        \* the requests that clients make: [kind, key, src, ifMatch,
                        \*   createOnly, body, type]
          Present,      \* the objects there are at first: a sequence of [key, body, type]
          Stripe,       \* KeyLocks::stripe_of: the lock stripe of a key
          Guess,        \* guess_content_type: the type a key's extension suggests
          StageRetries, \* STAGE_RETRIES
          None,
          MaxRequests,  \* bound: requests made
          MaxFaults     \* bound: edits of the tree by others, requests dropped, crashes

ASSUME NoneAssumption == None \notin Nat
ASSUME PresentAssumption == Present \in Seq([key : Keys, body : Bodies, type : Types \cup {None}])
ASSUME GuessAssumption == Guess \in [Keys -> Types \cup {None}] /\ StageRetries \in Nat
ASSUME AskedAssumption ==
    \A o \in Asked :
        /\ o.kind \in {"get", "head", "put", "copy", "delete"} /\ o.key \in Keys
        /\ o.kind = "put" => o.body \in Bodies /\ o.type \in Types \cup {None}
        /\ o.kind = "copy" => o.src \in Keys /\ o.type \in Types \cup {None}

VARIABLES inodes,       \* every file made, by inode number: its body, its mtime, and
                        \*   the type that a write the server acknowledged
                        \*   declared for it, or None
          name,         \* key -> its inode, or None
          record,       \* key -> its sidecar, or None
          dir,          \* does the directory exist
          temps,        \* the temporary files in it
          clock,        \* the last mtime given
          queue,        \* stripe -> the requests that hold (first) or await its lock
          pc,           \* request -> where it is
          w,            \* request -> its local state
          detached,     \* requests dropped while their blocking work ran
          since,        \* request -> who changed its key since it looked at it
          used          \* counts of requests, cancels, faults (cancels, crashes and
                        \*   edits), prunes, and writes that failed for want of
                        \*   a directory

files == <<inodes, name, record, dir, temps, clock>>
vars == <<files, queue, pc, w, detached, since, used>>

\* What a request keeps: what it asked for; the inode it has open, the stamp and the
\* record it has read; the attributes it resolved and, of a copy, its source's inode;
\* its temporary file, and the attempts at making one that are left.
Blank == [op |-> None, handle |-> None, meta |-> None, seen |-> None, attrs |-> None,
          source |-> None, staged |-> None, tries |-> 0]

Stamp(ino) == <<ino, inodes[ino].mtime>>

\* is_fresh_for.
Fresh(rec, stamp) == rec # None /\ rec.stamp = stamp

Init ==
    /\ LET ino(k) == CHOOSE i \in DOMAIN Present : Present[i].key = k
           held   == {Present[i].key : i \in DOMAIN Present}
       IN  /\ inodes = [i \in DOMAIN Present |->
                  [body |-> Present[i].body, mtime |-> i, type |-> Present[i].type]]
           /\ name = [k \in Keys |-> IF k \in held THEN ino(k) ELSE None]
           /\ record = [k \in Keys |->
                  IF k \in held THEN [etag |-> Present[ino(k)].body, type |-> Present[ino(k)].type,
                                      stamp |-> <<ino(k), ino(k)>>] ELSE None]
           /\ dir = (held # {}) /\ temps = {} /\ clock = Len(Present)
    /\ queue = [s \in {Stripe[k] : k \in Keys} |-> <<>>]
    /\ pc = [r \in Requests |-> "idle"]
    /\ w = [r \in Requests |-> Blank]
    /\ detached = {}
    /\ since = [r \in Requests |-> {}]
    /\ used = [requests |-> 0, cancels |-> 0, faults |-> 0, prunes |-> 0, raced |-> 0]

\* The guards of r are dropped.
Without(line, r) ==
    LET at == CHOOSE j \in DOMAIN line : line[j] = r IN
    IF \E j \in DOMAIN line : line[j] = r
    THEN SubSeq(line, 1, at - 1) \o SubSeq(line, at + 1, Len(line)) ELSE line

Unlocked(r) == [s \in DOMAIN queue |-> Without(queue[s], r)]

\* The work of r is over, and its open files and guards are dropped.
Ends(r) ==
    /\ pc' = [pc EXCEPT ![r] = "idle"]
    /\ w' = [w EXCEPT ![r] = Blank]
    /\ queue' = Unlocked(r)
    /\ detached' = detached \ {r}

\* The work of r goes on, with local state to.
Goes(r, where, to) ==
    /\ pc' = [pc EXCEPT ![r] = where]
    /\ w' = [w EXCEPT ![r] = to]
    /\ UNCHANGED <<queue, detached>>

\* A file is made, at a time of its own.
Made(body) ==
    /\ clock' = clock + 1
    /\ inodes' = Append(inodes, [body |-> body, mtime |-> clock + 1, type |-> None])

\* Request q changes key k; a request that has looked at k has it noted, and
\* whether one of the two was dropped by then.
Looked == {"fresh", "open", "load", "hash", "repair", "mkdir", "temp", "rename", "unlink"}

Changed(q, k) ==
    since' = [r \in Requests |->
                 IF r # q /\ pc[r] \in Looked /\ w[r].op.key = k
                 THEN since[r] \cup {IF detached \cap {q, r} # {} THEN "detached" ELSE "server"}
                 ELSE since[r]]

----------------------------------------------------------------------------
(* The lock stripes: KeyLocks::key and KeyLocks::pair.                        *)

\* Mutant: the lock of the source first, whatever its stripe.
LocksInOrderAsked(o) ==
    IF o.kind \in {"get", "head"} THEN <<>>
    ELSE IF o.kind # "copy" \/ Stripe[o.src] = Stripe[o.key] THEN <<Stripe[o.key]>>
    ELSE <<Stripe[o.src], Stripe[o.key]>>

\* Mutant: a copy locks its source only.
LocksSource(o) ==
    IF o.kind \in {"get", "head"} THEN <<>>
    ELSE IF o.kind = "copy" THEN <<Stripe[o.src]>> ELSE <<Stripe[o.key]>>

\* The stripes a request locks, in the order it locks them; reads lock nothing.
Locks(o) ==
    IF o.kind \in {"get", "head"} THEN <<>>
    ELSE IF o.kind # "copy" \/ Stripe[o.src] = Stripe[o.key] THEN <<Stripe[o.key]>>
    ELSE IF Stripe[o.src] < Stripe[o.key] THEN <<Stripe[o.src], Stripe[o.key]>>
    ELSE <<Stripe[o.key], Stripe[o.src]>>

\* Where the blocking work of a request begins.
Start(o) == IF o.kind \in {"get", "copy"} THEN "open" ELSE "stat"

Ask(r, o) ==
    /\ pc[r] = "idle"
    /\ used.requests < MaxRequests
    /\ used' = [used EXCEPT !.requests = @ + 1]
    /\ w' = [w EXCEPT ![r] = [Blank EXCEPT !.op = o]]
    /\ since' = [since EXCEPT ![r] = {}]
    /\ \/ /\ Locks(o) = <<>>
          /\ pc' = [pc EXCEPT ![r] = Start(o)]
          /\ UNCHANGED queue
       \/ /\ Locks(o) # <<>>
          /\ queue' = [queue EXCEPT ![Locks(o)[1]] = Append(@, r)]
          /\ pc' = [pc EXCEPT ![r] = "lock"]
    /\ UNCHANGED <<files, detached>>

\* The first lock is held: the second is asked for, or the work begins.
Lock(r) ==
    LET ls == Locks(w[r].op)
    IN  /\ pc[r] = "lock" /\ queue[ls[1]][1] = r
        /\ \/ Len(ls) = 1 /\ pc' = [pc EXCEPT ![r] = Start(w[r].op)] /\ UNCHANGED queue
           \/ /\ Len(ls) = 2
              /\ queue' = [queue EXCEPT ![ls[2]] = Append(@, r)]
              /\ pc' = [pc EXCEPT ![r] = "pair"]
        /\ UNCHANGED <<files, w, detached, since, used>>

LockPair(r) ==
    /\ pc[r] = "pair" /\ queue[Locks(w[r].op)[2]][1] = r
    /\ pc' = [pc EXCEPT ![r] = Start(w[r].op)]
    /\ UNCHANGED <<files, queue, w, detached, since, used>>

----------------------------------------------------------------------------
(* Inner::describe and Inner::resolve: the attributes of an object.           *)

\* The key that is being resolved: a copy resolves its source first.
At(r) == IF w[r].op.kind = "copy" /\ w[r].source = None THEN w[r].op.src ELSE w[r].op.key

\* There is an object, with attributes a, and If-Match e holds of it (matches_if_match).
Matches(e, a) == IF a = None THEN FALSE ELSE e \in {None, a.etag}

\* What each operation does, with local state l, with the attributes it asked for
\* (None: there is no such object).
FoundToRead(r, l, a) ==
    /\ l.op.kind \in {"get", "head"}
    /\ \/ /\ l.op.kind = "get" /\ Matches(l.op.ifMatch, a)
          /\ Goes(r, "read", [l EXCEPT !.attrs = a])
       \/ ~(l.op.kind = "get" /\ Matches(l.op.ifMatch, a)) /\ Ends(r)

FoundSource(r, l, a) ==
    /\ l.op.kind = "copy" /\ l.source = None
    /\ \/ /\ Matches(l.op.ifMatch, a)
          /\ Goes(r, "stat", [l EXCEPT !.attrs = a, !.source = l.handle])
       \/ ~Matches(l.op.ifMatch, a) /\ Ends(r)

\* evaluate_write_preconditions; the If-Match of a copy is its source's.
Permitted(o, a) ==
    /\ o.kind = "put" /\ o.ifMatch # None => Matches(o.ifMatch, a)
    /\ o.createOnly => a = None

FoundToWrite(r, l, a) ==
    /\ l.op.kind = "put" \/ (l.op.kind = "copy" /\ l.source # None)
    /\ \/ Permitted(l.op, a) /\ Goes(r, "mkdir", [l EXCEPT !.tries = StageRetries])
       \/ ~Permitted(l.op, a) /\ Ends(r)

FoundToDelete(r, l, a) ==
    /\ l.op.kind = "delete"
    /\ \/ Matches(l.op.ifMatch, a) /\ Goes(r, "unlink", l)
       \/ ~Matches(l.op.ifMatch, a) /\ Ends(r)

Found(r, l, a) ==
    FoundToRead(r, l, a) \/ FoundSource(r, l, a) \/ FoundToWrite(r, l, a) \/ FoundToDelete(r, l, a)

\* describe: an lstat, and the record if it is fresh for it.
Stat(r) ==
    /\ pc[r] = "stat"
    /\ since' = [since EXCEPT ![r] = {}]
    /\ \/ name[At(r)] = None /\ Found(r, w[r], None)
       \/ name[At(r)] # None /\ Goes(r, "fresh", [w[r] EXCEPT !.meta = Stamp(name[At(r)])])
    /\ UNCHANGED <<files, used>>

LoadFresh(r) ==
    /\ pc[r] = "fresh"
    /\ \/ Fresh(record[At(r)], w[r].meta) /\ Found(r, w[r], record[At(r)])
       \/ ~Fresh(record[At(r)], w[r].meta) /\ Goes(r, "open", w[r])
    /\ UNCHANGED <<files, since, used>>

\* resolve: open and stat one file, load its record, hash and repair if stale.
Open(r) ==
    /\ pc[r] = "open"
    /\ since' = [since EXCEPT ![r] = {}]
    /\ \/ name[At(r)] = None /\ Found(r, w[r], None)
       \/ /\ name[At(r)] # None
          /\ Goes(r, "load", [w[r] EXCEPT !.handle = name[At(r)], !.meta = Stamp(name[At(r)])])
    /\ UNCHANGED <<files, used>>

\* Mutant: a record is believed whatever its stamp.
LoadAny(r) ==
    /\ pc[r] = "load"
    /\ \/ record[At(r)] # None /\ Found(r, w[r], record[At(r)])
       \/ record[At(r)] = None /\ Goes(r, "hash", w[r])
    /\ UNCHANGED <<files, since, used>>

Load(r) ==
    /\ pc[r] = "load"
    /\ \/ Fresh(record[At(r)], w[r].meta) /\ Found(r, w[r], record[At(r)])
       \/ /\ ~Fresh(record[At(r)], w[r].meta)
          /\ Goes(r, "hash", [w[r] EXCEPT !.seen = record[At(r)]])
    /\ UNCHANGED <<files, since, used>>

\* The bytes are hashed through the handle.  The type that was recorded is kept.
Hash(r) ==
    /\ pc[r] = "hash"
    /\ LET old == w[r].seen
       IN  Goes(r, "repair",
                [w[r] EXCEPT !.seen =
                    [etag  |-> inodes[w[r].handle].body,
                     type  |-> IF old # None /\ old.type # None THEN old.type ELSE Guess[At(r)],
                     stamp |-> w[r].meta]])
    /\ UNCHANGED <<files, since, used>>

\* The repaired record is written without a lock, at best effort.
Repair(r) ==
    /\ pc[r] = "repair"
    /\ \/ record' = [record EXCEPT ![At(r)] = w[r].seen]
       \/ UNCHANGED record
    /\ Found(r, w[r], w[r].seen)
    /\ UNCHANGED <<inodes, name, dir, temps, clock, since, used>>

\* get_object: the bytes are read from the handle.
Read(r) ==
    /\ pc[r] = "read"
    /\ Ends(r)
    /\ UNCHANGED <<files, since, used>>

----------------------------------------------------------------------------
(* Inner::store: stage, rename, record.                                       *)

Mkdir(r) ==
    /\ pc[r] = "mkdir"
    /\ dir' = TRUE
    /\ Goes(r, "temp", w[r])
    /\ UNCHANGED <<inodes, name, record, temps, clock, since, used>>

\* The temporary file is made and written, and hashed on the way: a copy reads its
\* source through the handle that was resolved, and keeps its type unless it was
\* given one.  The record to be written is stamped with this file.
Stage(r) ==
    LET ino  == Len(inodes) + 1
        o    == w[r].op
        body == IF o.kind = "put" THEN o.body ELSE inodes[w[r].source].body
        type == IF o.kind = "put" \/ o.type # None THEN o.type ELSE w[r].attrs.type
    IN  /\ dir
        /\ Made(body)
        /\ temps' = temps \cup {ino}
        /\ Goes(r, "rename",
                [w[r] EXCEPT !.staged = ino,
                             !.seen = [etag |-> body, type |-> type, stamp |-> <<ino, clock + 1>>]])
        /\ UNCHANGED used

RanOut(r) ==
    /\ Ends(r)
    /\ used' = [used EXCEPT !.raced = @ + 1]
    /\ UNCHANGED <<inodes, clock, temps>>

\* stage_in: the directory is made again if it was pruned meanwhile.
Temp(r) ==
    /\ pc[r] = "temp"
    /\ \/ Stage(r)
       \/ /\ ~dir /\ w[r].tries > 0
          /\ Goes(r, "mkdir", [w[r] EXCEPT !.tries = @ - 1])
          /\ UNCHANGED <<inodes, clock, temps, used>>
       \/ ~dir /\ w[r].tries = 0 /\ RanOut(r)
    /\ UNCHANGED <<name, record, dir, since>>

\* finish.
Rename(r) ==
    /\ pc[r] = "rename"
    /\ name' = [name EXCEPT ![w[r].op.key] = w[r].staged]
    /\ temps' = temps \ {w[r].staged}
    /\ Changed(r, w[r].op.key)
    /\ Goes(r, "record", w[r])
    /\ UNCHANGED <<inodes, record, dir, clock, used>>

\* Mutant: the stamp is taken from the path, after the rename.
RecordWhatIsThere(r) ==
    LET k == w[r].op.key
    IN  /\ pc[r] = "record" /\ name[k] # None
        /\ record' = [record EXCEPT ![k] = [w[r].seen EXCEPT !.stamp = Stamp(name[k])]]
        /\ Ends(r)
        /\ UNCHANGED <<inodes, name, dir, temps, clock, since, used>>

\* The record is written; a failure is the request's, though the object is stored.
Record(r) ==
    /\ pc[r] = "record"
    /\ \/ /\ record' = [record EXCEPT ![w[r].op.key] = w[r].seen]
          /\ inodes' = [inodes EXCEPT ![w[r].staged].type = w[r].seen.type]
       \/ UNCHANGED <<record, inodes>>
    /\ Ends(r)
    /\ UNCHANGED <<name, dir, temps, clock, since, used>>

----------------------------------------------------------------------------
(* delete_object: the file, its record, and the directory if that is empty.   *)

Unlink(r) ==
    /\ pc[r] = "unlink"
    /\ \/ name[w[r].op.key] = None /\ Ends(r) /\ UNCHANGED <<name, since>>
       \/ /\ name[w[r].op.key] # None
          /\ name' = [name EXCEPT ![w[r].op.key] = None]
          /\ Changed(r, w[r].op.key)
          /\ Goes(r, "unrecord", w[r])
    /\ UNCHANGED <<inodes, record, dir, temps, clock, used>>

\* MetaStore::remove, for which an absent record is success.
Unrecord(r) ==
    /\ pc[r] = "unrecord"
    /\ record' = [record EXCEPT ![w[r].op.key] = None]
    /\ Goes(r, "prune", w[r])
    /\ UNCHANGED <<inodes, name, dir, temps, clock, since, used>>

NoNames == \A k \in Keys : name[k] = None

\* prune_empty_dirs: remove_dir, which a directory that is not empty refuses.
Prune(r) ==
    /\ pc[r] = "prune"
    /\ IF dir /\ NoNames /\ temps = {}
       THEN dir' = FALSE /\ used' = [used EXCEPT !.prunes = @ + 1]
       ELSE UNCHANGED <<dir, used>>
    /\ Ends(r)
    /\ UNCHANGED <<inodes, name, record, temps, clock, since>>

----------------------------------------------------------------------------
(* A request dropped by its caller, a crash, and edits of the tree by others. *)

Working(r) == pc[r] \notin {"idle", "lock", "pair"}

\* The guards live in the future that is dropped.  Blocking work that was spawned
\* goes on without them.
Cancel(r) ==
    /\ pc[r] # "idle" /\ r \notin detached
    /\ used.faults < MaxFaults
    /\ used' = [used EXCEPT !.faults = @ + 1, !.cancels = @ + 1]
    /\ \/ /\ Working(r)
          /\ queue' = Unlocked(r)
          /\ detached' = detached \cup {r}
          /\ UNCHANGED <<pc, w>>
       \/ ~Working(r) /\ Ends(r)
    /\ UNCHANGED <<files, since>>

\* Temporary files stay behind.
Crash ==
    /\ used.faults < MaxFaults
    /\ used' = [used EXCEPT !.faults = @ + 1]
    /\ pc' = [r \in Requests |-> "idle"]
    /\ w' = [r \in Requests |-> Blank]
    /\ queue' = [s \in DOMAIN queue |-> <<>>]
    /\ detached' = {}
    /\ UNCHANGED <<files, since>>

Edited ==
    /\ used.faults < MaxFaults
    /\ UNCHANGED <<record, temps, queue, pc, w, detached, since>>

\* A new file under the key: created, or saved by renaming over the old one.
EditByRename(k, b) ==
    /\ Edited /\ used' = [used EXCEPT !.faults = @ + 1]
    /\ Made(b)
    /\ name' = [name EXCEPT ![k] = Len(inodes) + 1]
    /\ dir' = TRUE

EditInPlace(k, b) ==
    /\ Edited /\ used' = [used EXCEPT !.faults = @ + 1]
    /\ name[k] # None
    /\ clock' = clock + 1
    /\ inodes' = [inodes EXCEPT ![name[k]].body = b, ![name[k]].mtime = clock + 1]
    /\ UNCHANGED <<name, dir>>

EditRemoves(k) ==
    /\ Edited /\ used' = [used EXCEPT !.faults = @ + 1]
    /\ name[k] # None
    /\ name' = [name EXCEPT ![k] = None]
    /\ UNCHANGED <<inodes, dir, clock>>

EditRemovesDir ==
    /\ Edited /\ used' = [used EXCEPT !.faults = @ + 1, !.prunes = @ + 1]
    /\ dir /\ NoNames /\ temps = {}
    /\ dir' = FALSE
    /\ UNCHANGED <<inodes, name, clock>>

----------------------------------------------------------------------------
\* What the thread of a request does next.
Step(r) ==
    \/ Lock(r) \/ LockPair(r)
    \/ Stat(r) \/ LoadFresh(r) \/ Open(r) \/ Load(r) \/ Hash(r) \/ Repair(r) \/ Read(r)
    \/ Mkdir(r) \/ Temp(r) \/ Rename(r) \/ Record(r)
    \/ Unlink(r) \/ Unrecord(r) \/ Prune(r)

Next ==
    \/ \E r \in Requests : Step(r) \/ Cancel(r) \/ \E o \in Asked : Ask(r, o)
    \/ \E k \in Keys : EditRemoves(k) \/ \E b \in Bodies : EditByRename(k, b) \/ EditInPlace(k, b)
    \/ EditRemovesDir
    \/ Crash

Spec == Init /\ [][Next]_vars

\* The runtime polls a request that can go on, and runs blocking work to its end.
FairSpec == Spec /\ \A r \in Requests : WF_vars(Step(r))

----------------------------------------------------------------------------
Steps == {"idle", "lock", "pair", "read"} \cup Looked
            \cup {"stat", "record", "unrecord", "prune"}

Attributes == [etag : Bodies, type : Types \cup {None}, stamp : (DOMAIN inodes) \X (0..clock)]

\* Every name is of a file that exists, every record is whole, and a request is in a
\* lock queue at most once.
TypeOK ==
    /\ inodes \in Seq([body : Bodies, mtime : 1..clock, type : Types \cup {None}])
    /\ name \in [Keys -> DOMAIN inodes \cup {None}]
    /\ record \in [Keys -> Attributes \cup {None}]
    /\ dir \in BOOLEAN /\ temps \subseteq DOMAIN inodes
    /\ pc \in [Requests -> Steps]
    /\ \A st \in DOMAIN queue : queue[st] \in Seq(Requests) /\ IsInjective(queue[st])
    /\ \A r \in Requests : {w[r].handle, w[r].source, w[r].staged} \subseteq DOMAIN inodes \cup {None}
    /\ detached \subseteq Requests
    /\ since \in [Requests -> SUBSET {"server", "detached"}]

\* A record that is_fresh_for a file has the ETag of that file's bytes, whatever
\* edits, repairs and writes raced: readers and preconditions trust such a record
\* without hashing.
FreshIsTrue ==
    \A k \in Keys : \A i \in DOMAIN inodes :
        Fresh(record[k], Stamp(i)) => record[k].etag = inodes[i].body

\* The bytes get_object serves, and those copy_object copies, are the ones the ETag it
\* reports or has checked names, unless that very file was written in place since it
\* was opened ("An in-place rewrite of that same inode is not guarded against").
EtagNamesBytes ==
    \A r \in Requests :
        /\ pc[r] = "read" /\ w[r].meta = Stamp(w[r].handle) =>
               w[r].attrs.etag = inodes[w[r].handle].body
        /\ w[r].source # None /\ w[r].attrs.stamp = Stamp(w[r].source) =>
               w[r].attrs.etag = inodes[w[r].source].body

\* A write that lands does so on the object whose preconditions it checked: no other
\* request of the server has changed the key in between (KeyLocks).  A request that
\* was dropped while its blocking work ran is not held to it.
WritesAreSerial ==
    \A r \in Requests : pc[r] \in {"record", "unrecord"} => "server" \notin since[r]

\* The same for every write that lands (locks.rs: "Per-key serialization, which is
\* what makes conditional writes atomic").
ConditionalWritesAreAtomic ==
    \A r \in Requests : pc[r] \in {"record", "unrecord"} => since[r] = {}

\* The type that an acknowledged write declared is the one recorded for its file, once
\* nothing is under way (guess_content_type: "this only fires for objects written outside the
\* server, where no type was ever declared").
DeclaredTypeIsKept ==
    (\A r \in Requests : pc[r] = "idle") =>
        \A k \in Keys :
            name[k] # None /\ Fresh(record[k], Stamp(name[k])) /\ inodes[name[k]].type # None
                => record[k].type = inodes[name[k]].type

\* Deletes leave no empty directory behind, in whatever order they and the writes
\* beside them run (prune_empty_dirs); edits and crashes may.
EmptyDirsArePruned ==
    (\A r \in Requests : pc[r] = "idle") /\ used.faults = used.cancels =>
        (dir <=> \E k \in Keys : name[k] # None)

\* A write fails for want of a directory only if one was pruned more often than
\* stage_in tries again.
RacedWritesGoThrough ==
    used.raced > 0 => used.prunes > StageRetries

\* Every request comes to its end: no two copies wait for each other's lock
\* (KeyLocks::pair).
RequestsEnd == \A r \in Requests : pc[r] # "idle" ~> pc[r] = "idle"

-----------------------------------------------------------------------------
(***************************************************************************)
(* Claiming a filesystem root (storage-fs/src/root.rs): a starting process *)
(* tries what it needs of the root, one filesystem call at a time, and     *)
(* then locks it.  Several processes start, stop and crash on one root;    *)
(* the lock belongs to an open file, so the system releases it when its    *)
(* process ends however it ends.                                           *)
(***************************************************************************)
CONSTANTS Procs,
          MaxStarts        \* bound on processes started

VARIABLES root,      \* what the root is, and the operator's setting
          meta,      \* the metadata directory exists
          lockFile,  \* the lock file: Absent, or the process id it holds
          lock,      \* the process whose open file holds the lock
          claim,        \* how far each process has come
          seen,      \* the holder a refused process named
          starts

ASSUME FsRootAssumption ==
    IsFiniteSet(Procs) /\ None \notin Procs /\ "absent" \notin Procs \cup {None} /\ MaxStarts \in Nat

rootVars == <<root, meta, lockFile, lock, claim, seen, starts>>

Absent == "absent"
Roots == [kind : {"missing", "file", "dir"}, writable : BOOLEAN,
          merges : {"nothing", "case", "unicode"}, lossy : BOOLEAN, lockable : BOOLEAN]

RootInit ==
  /\ root \in Roots
  /\ meta \in BOOLEAN /\ lockFile \in {Absent, None}
  /\ lock = None
  /\ claim = [p \in Procs |-> "off"]
  /\ seen = [p \in Procs |-> None]
  /\ starts = 0

Go(p, to) == claim' = [claim EXCEPT ![p] = to]
Same == UNCHANGED <<root, seen, starts>>

StartProcess(p) ==
  /\ claim[p] = "off" /\ starts < MaxStarts
  /\ starts' = starts + 1
  /\ seen' = [seen EXCEPT ![p] = None]
  /\ Go(p, "look")
  /\ UNCHANGED <<root, meta, lockFile, lock>>

(* metadata, is_dir and canonicalize.                                      *)
LookAtRoot(p) ==
  /\ claim[p] = "look"
  /\ Go(p, IF root.kind = "dir" THEN "write" ELSE "refused")
  /\ UNCHANGED <<meta, lockFile, lock>> /\ Same

(* probe_writable: an anonymous temporary file, written and synced.        *)
ProbeWritable(p) ==
  /\ claim[p] = "write"
  /\ Go(p, IF ~root.writable THEN "refused" ELSE IF root.lossy THEN "meta" ELSE "names")
  /\ UNCHANGED <<meta, lockFile, lock>> /\ Same

(* check_distinct writes one name and looks for another in a directory of  *)
(* its own; probe_name_fidelity does so for letter case and for Unicode.   *)
CheckDistinct(what) == root.merges # what
ProbeNameFidelity(p) ==
  /\ claim[p] = "names"
  /\ Go(p, IF CheckDistinct("case") /\ CheckDistinct("unicode") THEN "meta" ELSE "refused")
  /\ UNCHANGED <<meta, lockFile, lock>> /\ Same

CreateMeta(p) ==
  /\ claim[p] = "meta"
  /\ meta' = TRUE
  /\ Go(p, "open")
  /\ UNCHANGED <<lockFile, lock>> /\ Same

(* claim, in its steps: open (creating, never truncating), try_lock, and   *)
(* the process id written for whoever is refused next.                     *)
OpenLock(p) ==
  /\ claim[p] = "open"
  /\ lockFile' = IF lockFile = Absent THEN None ELSE lockFile
  /\ Go(p, "lock")
  /\ UNCHANGED <<meta, lock>> /\ Same
TryLockUnlessNamed(p) ==
  /\ claim[p] = "lock"
  /\ IF lockFile = None THEN lock' = p /\ Go(p, "note") /\ seen' = seen
     ELSE lock' = lock /\ Go(p, "refused") /\ seen' = [seen EXCEPT ![p] = lockFile]
  /\ UNCHANGED <<root, meta, lockFile, starts>>
TryLock(p) ==
  /\ claim[p] = "lock"
  /\ IF root.lockable /\ lock = None THEN lock' = p /\ Go(p, "note") /\ seen' = seen
     ELSE lock' = lock /\ Go(p, "refused")
          /\ seen' = [seen EXCEPT ![p] = IF root.lockable THEN lockFile ELSE None]
  /\ UNCHANGED <<root, meta, lockFile, starts>>
NotePid(p) ==
  /\ claim[p] = "note"
  /\ lockFile' \in {p, None, lockFile}   \* written, cut short, or not at all
  /\ Go(p, "serving")
  /\ UNCHANGED <<meta, lock>> /\ Same

(* The process ends, or is killed at any point: its lock goes with it, and *)
(* the file it wrote stays.                                                *)
End(p) ==
  /\ claim[p] # "off"
  /\ lock' = IF lock = p THEN None ELSE lock
  /\ Go(p, "off")
  /\ UNCHANGED <<meta, lockFile>> /\ Same

RootNext == \E p \in Procs : \/ StartProcess(p) \/ LookAtRoot(p) \/ ProbeWritable(p)
                             \/ ProbeNameFidelity(p) \/ CreateMeta(p) \/ OpenLock(p)
                             \/ TryLock(p) \/ NotePid(p) \/ End(p)
RootSpec == RootInit /\ [][RootNext]_rootVars
-----------------------------------------------------------------------------
Usable == root.kind = "dir" /\ root.writable /\ (root.lossy \/ root.merges = "nothing")
Serving == {p \in Procs : claim[p] \in {"note", "serving"}}

(* "A filesystem storage root supports exactly one process" (root.rs 199): *)
(* at most one process serves a root, and it serves only a writable        *)
(* directory that keeps every two names apart, unless the operator         *)
(* accepted that.  A root that fails a probe gets neither the metadata     *)
(* directory nor the lock file (root.rs 39).  Nobody is turned away by     *)
(* what a crashed process left in the lock file, only by one that holds    *)
(* the root at that moment (root.rs 214: "the lock, not this text, is what *)
(* excludes a second process").                                            *)
OneProcessPerRoot ==
  /\ [](/\ \A p, q \in Serving : p = q
        /\ Serving # {} => Usable /\ root.lockable /\ meta /\ lockFile # Absent
        /\ \A p \in Procs : claim[p] \in {"meta", "open", "lock"} => Usable)
  /\ [][\A p \in Procs : claim[p] = "lock" /\ claim'[p] = "refused" /\ root.lockable
          => Serving \ {p} # {}]_rootVars

=============================================================================
