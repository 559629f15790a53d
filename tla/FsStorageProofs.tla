-------------------------- MODULE FsStorageProofs --------------------------
(***************************************************************************)
(* The filesystem backend proved for every set of keys, requests, bodies   *)
(* and initial objects, any number of requests, edits by others and        *)
(* crashes: what a fresh record and a read promise of the bytes, what the  *)
(* key locks promise of writes, and who may serve a root.                  *)
(***************************************************************************)
EXTENDS FsStorage, TLAPS

Attr == [etag : Bodies, type : Types \cup {None}, stamp : Nat \X Nat]

Inode == [body : Bodies, mtime : Nat, type : Types \cup {None}]

Local == [op : Asked \cup {None}, handle : Nat \cup {None}, meta : (Nat \X Nat) \cup {None},
          seen : Attr \cup {None}, attrs : Attr \cup {None}, source : Nat \cup {None},
          staged : Nat \cup {None}, tries : Nat]

----------------------------------------------------------------------------
(***************************************************************************)
(* The claim on a root: a process that serves holds the lock, the lock is  *)
(* held by one that serves, and each has passed the probes before it.      *)
(***************************************************************************)
Probed == {"meta", "open", "lock", "note", "serving"}

RootInv ==
    /\ root \in Roots /\ DOMAIN claim = Procs
    /\ lock # None => lock \in Serving
    /\ \A p \in Procs :
           /\ claim[p] \in {"write", "names"} => root.kind = "dir"
           /\ claim[p] = "names" => root.writable
           /\ claim[p] \in Probed => Usable
           /\ claim[p] \in Probed \ {"meta"} => meta
           /\ claim[p] \in Probed \ {"meta", "open"} => lockFile # Absent
           /\ claim[p] \in {"note", "serving"} => lock = p /\ root.lockable

LEMMA RootAtFirst == ASSUME RootInit PROVE RootInv
<1>1. \A p \in Procs : claim[p] = "off"
  BY Zenon DEF RootInit
<1>2. QED
  BY <1>1, Zenon DEF RootInit, RootInv, Probed

LEMMA ProbeSteps ==
    ASSUME RootInv, NEW p \in Procs,
           \/ StartProcess(p) \/ LookAtRoot(p) \/ ProbeWritable(p)
           \/ ProbeNameFidelity(p) \/ CreateMeta(p) \/ OpenLock(p)
    PROVE  RootInv'
<1>1. root' = root /\ lock' = lock
  BY Zenon DEF StartProcess, LookAtRoot, ProbeWritable, ProbeNameFidelity, CreateMeta, OpenLock, Same
<1>2. \A x \in Procs \ {p} : claim'[x] = claim[x]
  BY Zenon DEF StartProcess, LookAtRoot, ProbeWritable, ProbeNameFidelity, CreateMeta, OpenLock, Go,
         RootInv
<1>3. claim[p] \notin {"note", "serving"} /\ claim'[p] \notin {"note", "serving"}
  BY Zenon DEF StartProcess, LookAtRoot, ProbeWritable, ProbeNameFidelity, CreateMeta, OpenLock, Go,
         RootInv
<1>4. /\ meta => meta'
      /\ lockFile # Absent => lockFile' # Absent
  BY FsRootAssumption DEF StartProcess, LookAtRoot, ProbeWritable, ProbeNameFidelity, CreateMeta,
         OpenLock, Absent
<1>5. lock' # None => lock' \in Serving'
  BY <1>1, <1>2, <1>3, Zenon DEF RootInv, Serving
<1>6. /\ claim'[p] \in {"write", "names"} => root.kind = "dir"
      /\ claim'[p] = "names" => root.writable
      /\ claim'[p] \in Probed => Usable
      /\ claim'[p] \in Probed \ {"meta"} => meta'
      /\ claim'[p] \in Probed \ {"meta", "open"} => lockFile' # Absent
  <2>1. CASE StartProcess(p)
    BY <2>1, Zenon DEF StartProcess, Go, RootInv, Probed
  <2>2. CASE LookAtRoot(p)
    BY <2>2, Zenon DEF LookAtRoot, Go, RootInv, Probed
  <2>3. CASE ProbeWritable(p)
    BY <2>3, Zenon DEF ProbeWritable, Go, RootInv, Probed, Usable
  <2>4. CASE ProbeNameFidelity(p)
    <3>1. root.merges \in {"nothing", "case", "unicode"}
      BY Zenon DEF RootInv, Roots
    <3>2. QED
      BY <2>4, <3>1, Zenon DEF ProbeNameFidelity, CheckDistinct, Go, RootInv, Probed, Usable
  <2>5. CASE CreateMeta(p)
    BY <2>5, Zenon DEF CreateMeta, Go, RootInv, Probed
  <2>6. CASE OpenLock(p)
    BY <2>6, FsRootAssumption, Zenon DEF OpenLock, Go, RootInv, Probed, Absent
  <2>7. QED
    BY <2>1, <2>2, <2>3, <2>4, <2>5, <2>6, Zenon
<1>7. Usable' <=> Usable
  BY <1>1, Zenon DEF Usable
<1>8. DOMAIN claim' = Procs
  BY Zenon DEF StartProcess, LookAtRoot, ProbeWritable, ProbeNameFidelity, CreateMeta, OpenLock, Go,
         RootInv
<1>9. QED
  BY <1>1, <1>2, <1>3, <1>4, <1>5, <1>6, <1>7, <1>8, Zenon DEF RootInv

LEMMA ClaimSteps ==
    ASSUME RootInv, NEW p \in Procs, TryLock(p) \/ NotePid(p) \/ End(p)
    PROVE  RootInv'
<1>1. root' = root /\ meta' = meta /\ (Usable' <=> Usable)
  BY Zenon DEF TryLock, NotePid, End, Same, Usable
<1>2. DOMAIN claim' = Procs /\ \A x \in Procs \ {p} : claim'[x] = claim[x]
  BY Zenon DEF TryLock, NotePid, End, Go, RootInv
<1>3. lockFile # Absent => lockFile' # Absent
  BY FsRootAssumption, Zenon DEF TryLock, NotePid, End, Absent
<1>4. CASE TryLock(p)
  <2>1. CASE root.lockable /\ lock = None
    <3>1. lock' = p /\ claim'[p] = "note" /\ claim[p] = "lock"
      BY <1>4, <2>1, Zenon DEF TryLock, Go, RootInv
    <3>2. \A x \in Procs \ {p} : claim[x] \notin {"note", "serving"}
      BY <2>1, FsRootAssumption, Zenon DEF RootInv
    <3>3. QED
      BY <1>1, <1>2, <1>3, <2>1, <3>1, <3>2, Zenon DEF RootInv, Serving, Probed
  <2>2. CASE ~(root.lockable /\ lock = None)
    <3>1. lock' = lock /\ claim'[p] = "refused" /\ claim[p] = "lock"
      BY <1>4, <2>2, Zenon DEF TryLock, Go, RootInv
    <3>2. QED
      BY <1>1, <1>2, <1>3, <3>1, Zenon DEF RootInv, Serving, Probed
  <2>3. QED
    BY <2>1, <2>2, Zenon
<1>5. CASE NotePid(p)
  <2>1. lock' = lock /\ claim'[p] = "serving" /\ claim[p] = "note"
    BY <1>5, Zenon DEF NotePid, Go, RootInv
  <2>2. QED
    BY <1>1, <1>2, <1>3, <2>1, Zenon DEF RootInv, Serving, Probed
<1>6. CASE End(p)
  <2>1. lock' = (IF lock = p THEN None ELSE lock) /\ claim'[p] = "off"
    BY <1>6, Zenon DEF End, Go, RootInv
  <2>2. \A x \in Procs \ {p} : claim[x] \in {"note", "serving"} => lock = x
    BY Zenon DEF RootInv
  <2>3. QED
    BY <1>1, <1>2, <1>3, <2>1, <2>2, Zenon DEF RootInv, Serving, Probed
<1>7. QED
  BY <1>4, <1>5, <1>6, Zenon

LEMMA RootInvStep ==
    ASSUME RootInv, [RootNext]_rootVars
    PROVE  RootInv'
<1>1. CASE RootNext
  BY <1>1, ProbeSteps, ClaimSteps, Zenon DEF RootNext
<1>2. CASE UNCHANGED rootVars
  BY <1>2, Zenon DEF rootVars, RootInv, Serving, Usable
<1>3. QED
  BY <1>1, <1>2, Zenon

LEMMA OneServes ==
    ASSUME RootInv
    PROVE  /\ \A p, q \in Serving : p = q
           /\ Serving # {} => Usable /\ root.lockable /\ meta /\ lockFile # Absent
           /\ \A p \in Procs : claim[p] \in {"meta", "open", "lock"} => Usable
<1>1. Serving \subseteq {lock}
  BY Zenon DEF RootInv, Serving
<1>2. \A p, q \in Serving : p = q
  BY <1>1, Zenon
<1>3. QED
  BY <1>2, Zenon DEF RootInv, Serving, Probed

\* Only the lock refuses: whoever is refused there meets another that serves.
Refusals ==
    \A p \in Procs : claim[p] = "lock" /\ claim'[p] = "refused" /\ root.lockable
        => Serving \ {p} # {}

LEMMA RefusedForCause ==
    ASSUME RootInv, [RootNext]_rootVars
    PROVE  Refusals
<1> SUFFICES ASSUME NEW p \in Procs, claim[p] = "lock", claim'[p] = "refused", root.lockable
             PROVE  Serving \ {p} # {}
  BY Zenon DEF Refusals
<1>1. RootNext
  BY Zenon DEF rootVars
<1>2. PICK x \in Procs :
          \/ StartProcess(x) \/ LookAtRoot(x) \/ ProbeWritable(x) \/ ProbeNameFidelity(x)
          \/ CreateMeta(x) \/ OpenLock(x) \/ TryLock(x) \/ NotePid(x) \/ End(x)
  BY <1>1, Zenon DEF RootNext
<1>3. x = p
  BY <1>2, Zenon DEF StartProcess, LookAtRoot, ProbeWritable, ProbeNameFidelity, CreateMeta, OpenLock,
              TryLock, NotePid, End, Go, RootInv
<1>4. TryLock(p)
  BY <1>2, <1>3, Zenon DEF StartProcess, LookAtRoot, ProbeWritable, ProbeNameFidelity, CreateMeta,
                    OpenLock, NotePid, End, Go, RootInv
<1>5. lock # None
  BY <1>4, Zenon DEF TryLock, Go, RootInv
<1>6. QED
  BY <1>5, Zenon DEF RootInv, Serving

(***************************************************************************)
(* For every set of processes that start, crash and restart on one root:   *)
(* at most one serves it, only a root that passed every probe, and nobody  *)
(* is turned away at the lock unless another process holds it then.        *)
(***************************************************************************)
THEOREM RootsAreServedAlone == RootSpec => OneProcessPerRoot
<1>1. RootInit => RootInv
  BY RootAtFirst, Zenon
<1>2. RootInv /\ [RootNext]_rootVars => RootInv' /\ [Refusals]_rootVars
  BY RootInvStep, RefusedForCause, Zenon
<1>3. RootInv => /\ \A p, q \in Serving : p = q
                 /\ Serving # {} => Usable /\ root.lockable /\ meta /\ lockFile # Absent
                 /\ \A p \in Procs : claim[p] \in {"meta", "open", "lock"} => Usable
  BY OneServes, Zenon
<1>4. QED
  BY <1>1, <1>2, <1>3, PTL DEF RootSpec, OneProcessPerRoot, Refusals

----------------------------------------------------------------------------
(***************************************************************************)
(* An ETag was taken from the file its stamp names, no later than now; if  *)
(* the file still has that stamp, it still has those bytes.                *)
(***************************************************************************)
Honest(a, ino, now) ==
    /\ a \in Attr
    /\ a.stamp[1] \in DOMAIN ino /\ a.stamp[2] <= now
    /\ a.stamp[2] = ino[a.stamp[1]].mtime => a.etag = ino[a.stamp[1]].body

Timely(ino, now) ==
    /\ now \in Nat /\ ino \in Seq(Inode)
    /\ \A i \in DOMAIN ino : ino[i].mtime <= now

\* What every step makes of the files: those there are keep their bytes and their
\* mtime, or get an mtime that was never given.
Grows(ino, now, ino2, now2) ==
    /\ now <= now2
    /\ \A i \in DOMAIN ino :
           /\ i \in DOMAIN ino2
           /\ \/ ino2[i].body = ino[i].body /\ ino2[i].mtime = ino[i].mtime
              \/ ino2[i].mtime > now

FilesOK(ino, nm, rec, now) ==
    /\ Timely(ino, now)
    /\ nm \in [Keys -> DOMAIN ino \cup {None}]
    /\ rec \in [Keys -> Attr \cup {None}]
    /\ \A k \in Keys : rec[k] # None => Honest(rec[k], ino, now)

\* What a request that is not idle knows, by where it is.
Good(l, at, ino, now) ==
    /\ l \in Local /\ l.op \in Asked
    /\ at \in {"fresh", "load", "hash", "repair", "read"} =>
           l.meta \in Nat \X Nat /\ l.meta[1] \in DOMAIN ino /\ l.meta[2] <= now
    /\ at \in {"load", "hash", "repair", "read"} => l.handle = l.meta[1]
    /\ at \in {"repair", "rename", "record"} => Honest(l.seen, ino, now)
    /\ at = "repair" => l.seen.stamp = l.meta
    /\ at = "read" => Honest(l.attrs, ino, now) /\ l.attrs.stamp = l.meta
    /\ l.source # None => Honest(l.attrs, ino, now) /\ l.source \in DOMAIN ino
    /\ at \in {"rename", "record"} => l.staged \in DOMAIN ino
    /\ at \in {"stat", "fresh"} => l.op.kind # "get" /\ (l.op.kind = "copy" => l.source # None)
    /\ at \in {"mkdir", "temp", "rename", "record"} =>
           l.op.kind = "put" \/ (l.op.kind = "copy" /\ l.source # None)
    /\ at \in {"unlink", "unrecord", "prune"} => l.op.kind = "delete"

Knows(l, at, ino, now) == IF at = "idle" THEN l = Blank ELSE Good(l, at, ino, now)

FileInv ==
    /\ FilesOK(inodes, name, record, clock)
    /\ pc \in [Requests -> Steps] /\ w \in [Requests -> Local]
    /\ \A r \in Requests : Knows(w[r], pc[r], inodes, clock)

----------------------------------------------------------------------------
LEMMA Indexed ==
    ASSUME NEW S, NEW s \in Seq(S), NEW i \in DOMAIN s
    PROVE  s[i] \in S /\ i \in Nat
OBVIOUS

LEMMA HonestStays ==
    ASSUME NEW a, NEW ino, NEW now, NEW ino2, NEW now2,
           Timely(ino, now), Timely(ino2, now2), Grows(ino, now, ino2, now2), Honest(a, ino, now)
    PROVE  Honest(a, ino2, now2)
<1>1. a.stamp[1] \in Nat /\ a.stamp[2] \in Nat
  BY Zenon DEF Honest, Attr
<1>2. a.stamp[1] \in DOMAIN ino /\ a.stamp[1] \in DOMAIN ino2
  BY Zenon DEF Honest, Grows
<1>3. ino2[a.stamp[1]].mtime \in Nat /\ now \in Nat /\ now2 \in Nat
  <2>1. ino2[a.stamp[1]] \in Inode
    BY <1>2, Indexed, Zenon DEF Timely
  <2>2. QED
    BY <2>1, Zenon DEF Timely, Inode
<1>4. QED
  BY <1>1, <1>2, <1>3 DEF Honest, Grows

LEMMA KnowsStays ==
    ASSUME NEW l, NEW at, NEW ino, NEW now, NEW ino2, NEW now2,
           Timely(ino, now), Timely(ino2, now2), Grows(ino, now, ino2, now2),
           Knows(l, at, ino, now)
    PROVE  Knows(l, at, ino2, now2)
<1>1. CASE at = "idle"
  BY <1>1, Zenon DEF Knows
<1>2. CASE at # "idle"
  <2>1. Good(l, at, ino, now)
    BY <1>2, Zenon DEF Knows
  <2>2. /\ Honest(l.seen, ino, now) => Honest(l.seen, ino2, now2)
        /\ Honest(l.attrs, ino, now) => Honest(l.attrs, ino2, now2)
    BY HonestStays, Zenon
  <2>3. DOMAIN ino \subseteq DOMAIN ino2
    BY Zenon DEF Grows
  <2>4. ASSUME l.meta \in Nat \X Nat, l.meta[2] <= now PROVE l.meta[2] <= now2
    <3>1. l.meta[2] \in Nat /\ now \in Nat /\ now2 \in Nat /\ now <= now2
      BY <2>4, Zenon DEF Timely, Grows
    <3>2. QED
      BY <3>1, <2>4
  <2>5. Good(l, at, ino2, now2)
    BY <2>1, <2>2, <2>3, <2>4, Zenon DEF Good
  <2>6. QED
    BY <1>2, <2>5, Zenon DEF Knows
<1>3. QED
  BY <1>1, <1>2, Zenon

\* A step of one request: it goes where it may, and the files grow.
LEMMA RequestStep ==
    ASSUME FileInv, NEW r \in Requests, NEW at \in Steps, NEW l,
           FilesOK(inodes', name', record', clock'),
           Grows(inodes, clock, inodes', clock'),
           pc' = [pc EXCEPT ![r] = at], w' = [w EXCEPT ![r] = l],
           Knows(l, at, inodes', clock')
    PROVE  FileInv'
<1>1. pc' \in [Requests -> Steps] /\ w' \in [Requests -> Local]
  <2>1. l \in Local
    BY DEF Knows, Good, Blank, Local
  <2>2. QED
    BY <2>1, Zenon DEF FileInv
<1>2. ASSUME NEW x \in Requests PROVE Knows(w'[x], pc'[x], inodes', clock')
  <2>1. CASE x = r
    BY <2>1, Zenon DEF FileInv
  <2>2. CASE x # r
    <3>1. pc'[x] = pc[x] /\ w'[x] = w[x]
      BY <2>2, Zenon DEF FileInv
    <3>2. Knows(w[x], pc[x], inodes, clock) /\ Timely(inodes, clock) /\ Timely(inodes', clock')
      BY Zenon DEF FileInv, FilesOK
    <3>3. QED
      BY <3>1, <3>2, KnowsStays, Zenon
  <2>3. QED
    BY <2>1, <2>2, Zenon
<1>3. QED
  BY <1>1, <1>2, Zenon DEF FileInv

LEMMA SameFilesGrow ==
    ASSUME NEW ino, NEW now, Timely(ino, now)
    PROVE  Grows(ino, now, ino, now)
BY DEF Timely, Grows

\* A request that ends is idle and keeps nothing.
LEMMA EndsStep ==
    ASSUME FileInv, NEW r \in Requests, Ends(r),
           FilesOK(inodes', name', record', clock'), Grows(inodes, clock, inodes', clock')
    PROVE  FileInv'
<1>1. "idle" \in Steps /\ Knows(Blank, "idle", inodes', clock')
  BY Zenon DEF Steps, Knows
<1>2. pc' = [pc EXCEPT ![r] = "idle"] /\ w' = [w EXCEPT ![r] = Blank]
  BY Zenon DEF Ends
<1>3. QED
  BY <1>1, <1>2, RequestStep, Zenon

LEMMA GoesStep ==
    ASSUME FileInv, NEW r \in Requests, NEW at \in Steps \ {"idle"}, NEW l, Goes(r, at, l),
           FilesOK(inodes', name', record', clock'), Grows(inodes, clock, inodes', clock'),
           Good(l, at, inodes', clock')
    PROVE  FileInv'
<1>1. Knows(l, at, inodes', clock')
  BY Zenon DEF Knows
<1>2. pc' = [pc EXCEPT ![r] = at] /\ w' = [w EXCEPT ![r] = l]
  BY Zenon DEF Goes
<1>3. QED
  BY <1>1, <1>2, RequestStep, Zenon

\* What a request may know of the attributes it has asked for.
Told(l, a, ino, now) ==
    /\ l \in Local /\ l.op \in Asked
    /\ l.source # None => Honest(l.attrs, ino, now) /\ l.source \in DOMAIN ino
    /\ a # None => Honest(a, ino, now)
    /\ l.op.kind = "get" /\ a # None =>
           /\ l.meta \in Nat \X Nat /\ l.meta[1] \in DOMAIN ino /\ l.meta[2] <= now
           /\ l.handle = l.meta[1] /\ a.stamp = l.meta
    /\ l.op.kind = "copy" /\ l.source = None /\ a # None => l.handle \in DOMAIN ino

LEMMA FoundStep ==
    ASSUME FileInv, NEW r \in Requests, NEW l, NEW a, Found(r, l, a),
           Told(l, a, inodes', clock'),
           FilesOK(inodes', name', record', clock'), Grows(inodes, clock, inodes', clock')
    PROVE  FileInv'
<1> USE DEF Steps, Looked
<1>0. l \in Local /\ l.op \in Asked /\ DOMAIN inodes' \subseteq Nat
  BY DEF Told, FilesOK, Timely
<1>1. CASE Ends(r)
  BY <1>1, EndsStep, Zenon
<1>2. CASE FoundToRead(r, l, a) /\ ~Ends(r)
  <2>1. l.op.kind = "get" /\ a # None /\ Goes(r, "read", [l EXCEPT !.attrs = a])
    BY <1>2, Zenon DEF FoundToRead, Matches
  <2>2. Good([l EXCEPT !.attrs = a], "read", inodes', clock')
    BY <1>0, <2>1, Zenon DEF Good, Told, Local, Honest
  <2>3. QED
    BY <2>1, <2>2, GoesStep, Zenon
<1>3. CASE FoundSource(r, l, a) /\ ~Ends(r)
  <2>1. /\ l.op.kind = "copy" /\ l.source = None /\ a # None
        /\ Goes(r, "stat", [l EXCEPT !.attrs = a, !.source = l.handle])
    BY <1>3, Zenon DEF FoundSource, Matches
  <2>2. l.handle \in Nat /\ l.handle # None
    BY <1>0, <2>1, NoneAssumption, Zenon DEF Told
  <2>3. Good([l EXCEPT !.attrs = a, !.source = l.handle], "stat", inodes', clock')
    BY <1>0, <2>1, <2>2 DEF Good, Told, Local, Honest
  <2>4. QED
    BY <2>1, <2>3, GoesStep, Zenon
<1>4. CASE FoundToWrite(r, l, a) /\ ~Ends(r)
  <2>1. /\ l.op.kind = "put" \/ (l.op.kind = "copy" /\ l.source # None)
        /\ Goes(r, "mkdir", [l EXCEPT !.tries = StageRetries])
    BY <1>4, Zenon DEF FoundToWrite
  <2>2. Good([l EXCEPT !.tries = StageRetries], "mkdir", inodes', clock')
    BY <1>0, <2>1, GuessAssumption, Zenon DEF Good, Told, Local
  <2>3. QED
    BY <2>1, <2>2, GoesStep, Zenon
<1>5. CASE FoundToDelete(r, l, a) /\ ~Ends(r)
  <2>1. l.op.kind = "delete" /\ Goes(r, "unlink", l)
    BY <1>5, Zenon DEF FoundToDelete
  <2>2. Good(l, "unlink", inodes', clock')
    BY <1>0, <2>1, Zenon DEF Good, Told
  <2>3. QED
    BY <2>1, <2>2, GoesStep, Zenon
<1>6. QED
  BY <1>1, <1>2, <1>3, <1>4, <1>5, Zenon DEF Found

----------------------------------------------------------------------------
LEMMA AtIsAKey ==
    ASSUME NEW r, w[r].op \in Asked
    PROVE  At(r) \in Keys /\ w[r].op.key \in Keys
BY AskedAssumption, Zenon DEF At

LEMMA FilesStay ==
    ASSUME FileInv, inodes' = inodes, name' = name, record' = record, clock' = clock
    PROVE  FilesOK(inodes', name', record', clock') /\ Grows(inodes, clock, inodes', clock')
<1>1. FilesOK(inodes, name, record, clock) /\ Grows(inodes, clock, inodes, clock)
  BY SameFilesGrow, Zenon DEF FileInv, FilesOK
<1>2. QED
  BY <1>1, Zenon

LEMMA GoodHere ==
    ASSUME FileInv, NEW r \in Requests, pc[r] # "idle"
    PROVE  Good(w[r], pc[r], inodes, clock)
BY Zenon DEF FileInv, Knows

LEMMA StampsAreTimely ==
    ASSUME FileInv, NEW k \in Keys, name[k] # None
    PROVE  /\ name[k] \in DOMAIN inodes /\ name[k] \in Nat
           /\ Stamp(name[k]) \in Nat \X Nat
           /\ Stamp(name[k])[1] = name[k] /\ Stamp(name[k])[2] <= clock
<1>1. name[k] \in DOMAIN inodes /\ Timely(inodes, clock)
  BY Zenon DEF FileInv, FilesOK
<1>2. inodes[name[k]] \in Inode /\ name[k] \in Nat
  BY <1>1, Indexed, Zenon DEF Timely
<1>3. QED
  BY <1>1, <1>2, Zenon DEF Stamp, Timely, Inode

\* The steps that take locks move a request and no file.
LEMMA LockSteps ==
    ASSUME FileInv, NEW r \in Requests, Lock(r) \/ LockPair(r)
    PROVE  FileInv'
<1>1. inodes' = inodes /\ name' = name /\ record' = record /\ clock' = clock /\ w' = w
  BY Zenon DEF Lock, LockPair, files
<1>2. FilesOK(inodes', name', record', clock') /\ Grows(inodes, clock, inodes', clock')
  BY <1>1, FilesStay, Zenon
<1>3. pc[r] \in {"lock", "pair"} /\ Good(w[r], pc[r], inodes, clock)
  BY GoodHere, Zenon DEF Lock, LockPair
<1>4. w' = [w EXCEPT ![r] = w[r]]
  BY <1>1, Zenon DEF FileInv
<1>5. PICK at \in {"pair", Start(w[r].op)} : pc' = [pc EXCEPT ![r] = at]
  BY ZenonT(30) DEF Lock, LockPair
<1>6. at \in Steps \ {"idle"} /\ Good(w[r], at, inodes', clock')
  BY <1>1, <1>3, <1>5, Zenon DEF Start, Steps, Looked, Good
<1>7. Knows(w[r], at, inodes', clock')
  BY <1>6, Zenon DEF Knows
<1>8. QED
  BY <1>2, <1>4, <1>5, <1>6, <1>7, RequestStep, Zenon

LEMMA AskStep ==
    ASSUME FileInv, NEW r \in Requests, NEW o \in Asked, Ask(r, o)
    PROVE  FileInv'
<1>1. inodes' = inodes /\ name' = name /\ record' = record /\ clock' = clock
  BY Zenon DEF Ask, files
<1>2. FilesOK(inodes', name', record', clock') /\ Grows(inodes, clock, inodes', clock')
  BY <1>1, FilesStay, Zenon
<1>3. w' = [w EXCEPT ![r] = [Blank EXCEPT !.op = o]]
  BY Zenon DEF Ask
<1>4. PICK at \in {"lock", Start(o)} :
          pc' = [pc EXCEPT ![r] = at] /\ (at = "stat" => o.kind \notin {"get", "copy"})
  BY Zenon DEF Ask, Start
<1>5. at \in Steps \ {"idle"} /\ Good([Blank EXCEPT !.op = o], at, inodes', clock')
  BY <1>4, Zenon DEF Start, Steps, Looked, Good, Blank, Local
<1>6. Knows([Blank EXCEPT !.op = o], at, inodes', clock')
  BY <1>5, Zenon DEF Knows
<1>7. QED
  BY <1>2, <1>3, <1>4, <1>5, <1>6, RequestStep, Zenon

\* Resolving an object, as far as the files stay as they are.
LEMMA StatStep ==
    ASSUME FileInv, NEW r \in Requests, Stat(r)
    PROVE  FileInv'
<1>1. inodes' = inodes /\ name' = name /\ record' = record /\ clock' = clock /\ pc[r] = "stat"
  BY Zenon DEF Stat, files
<1>2. FilesOK(inodes', name', record', clock') /\ Grows(inodes, clock, inodes', clock')
  BY <1>1, FilesStay, Zenon
<1>3. Good(w[r], "stat", inodes, clock)
  BY <1>1, GoodHere, Zenon
<1>4. At(r) \in Keys
  BY <1>3, AtIsAKey, Zenon DEF Good
<1>5. CASE Found(r, w[r], None)
  <2>1. Told(w[r], None, inodes', clock')
    BY <1>1, <1>3, Zenon DEF Told, Good
  <2>2. QED
    BY <1>2, <1>5, <2>1, FoundStep, Zenon
<1>6. CASE name[At(r)] # None /\ Goes(r, "fresh", [w[r] EXCEPT !.meta = Stamp(name[At(r)])])
  <2>1. Good([w[r] EXCEPT !.meta = Stamp(name[At(r)])], "fresh", inodes', clock')
    BY <1>1, <1>3, <1>4, <1>6, StampsAreTimely, Zenon DEF Good, Local
  <2>2. QED
    BY <1>2, <1>6, <2>1, GoesStep, Zenon DEF Steps, Looked
<1>7. QED
  BY <1>5, <1>6, Zenon DEF Stat

LEMMA OpenStep ==
    ASSUME FileInv, NEW r \in Requests, Open(r)
    PROVE  FileInv'
<1>1. inodes' = inodes /\ name' = name /\ record' = record /\ clock' = clock /\ pc[r] = "open"
  BY Zenon DEF Open, files
<1>2. FilesOK(inodes', name', record', clock') /\ Grows(inodes, clock, inodes', clock')
  BY <1>1, FilesStay, Zenon
<1>3. Good(w[r], "open", inodes, clock)
  BY <1>1, GoodHere, Zenon
<1>4. At(r) \in Keys
  BY <1>3, AtIsAKey, Zenon DEF Good
<1>5. CASE Found(r, w[r], None)
  <2>1. Told(w[r], None, inodes', clock')
    BY <1>1, <1>3, Zenon DEF Told, Good
  <2>2. QED
    BY <1>2, <1>5, <2>1, FoundStep, Zenon
<1> DEFINE l == [w[r] EXCEPT !.handle = name[At(r)], !.meta = Stamp(name[At(r)])]
<1>6. CASE name[At(r)] # None /\ Goes(r, "load", l)
  <2>1. Good(l, "load", inodes', clock')
    BY <1>1, <1>3, <1>4, <1>6, StampsAreTimely, Zenon DEF Good, Local
  <2>2. QED
    BY <1>2, <1>6, <2>1, GoesStep, Zenon DEF Steps, Looked
<1>7. QED
  BY <1>5, <1>6, Zenon DEF Open

\* A record is believed only if it has the stamp of the file that was opened.
LEMMA LoadSteps ==
    ASSUME FileInv, NEW r \in Requests, LoadFresh(r) \/ Load(r)
    PROVE  FileInv'
<1>1. /\ inodes' = inodes /\ name' = name /\ record' = record /\ clock' = clock
      /\ pc[r] \in {"fresh", "load"}
  BY Zenon DEF LoadFresh, Load, files
<1>2. FilesOK(inodes', name', record', clock') /\ Grows(inodes, clock, inodes', clock')
  BY <1>1, FilesStay, Zenon
<1>3. Good(w[r], pc[r], inodes, clock)
  BY <1>1, GoodHere, Zenon
<1>4. At(r) \in Keys
  BY <1>3, AtIsAKey, Zenon DEF Good
<1> DEFINE a == record[At(r)]
<1>5. a \in Attr \cup {None} /\ (a # None => Honest(a, inodes, clock))
  BY <1>4, Zenon DEF FileInv, FilesOK
<1>6. CASE Fresh(a, w[r].meta) /\ Found(r, w[r], a)
  <2>1. Told(w[r], a, inodes', clock')
    BY <1>1, <1>3, <1>5, <1>6, Zenon DEF Told, Good, Fresh
  <2>2. QED
    BY <1>2, <1>6, <2>1, FoundStep, Zenon
<1>7. CASE pc[r] = "fresh" /\ Goes(r, "open", w[r])
  <2>1. Good(w[r], "open", inodes', clock')
    BY <1>1, <1>3, <1>7, Zenon DEF Good
  <2>2. QED
    BY <1>2, <1>7, <2>1, GoesStep, ZenonT(30) DEF Steps, Looked
<1>8. CASE pc[r] = "load" /\ Goes(r, "hash", [w[r] EXCEPT !.seen = a])
  <2>1. Good([w[r] EXCEPT !.seen = a], "hash", inodes', clock')
    BY <1>1, <1>3, <1>5, <1>8, Zenon DEF Good, Local
  <2>2. QED
    BY <1>2, <1>8, <2>1, GoesStep, Zenon DEF Steps, Looked
<1>9. QED
  BY <1>6, <1>7, <1>8, Zenon DEF LoadFresh, Load

----------------------------------------------------------------------------
\* What the steps that change files have to show: a record that is new is honest.
LEMMA FilesStep ==
    ASSUME FileInv, Timely(inodes', clock'), Grows(inodes, clock, inodes', clock'),
           name' \in [Keys -> DOMAIN inodes' \cup {None}],
           record' \in [Keys -> Attr \cup {None}],
           \A k \in Keys : record'[k] \in {record[k], None}
                           \/ Honest(record'[k], inodes', clock')
    PROVE  FilesOK(inodes', name', record', clock')
<1>1. \A k \in Keys : record[k] # None => Honest(record[k], inodes', clock')
  BY HonestStays, Zenon DEF FileInv, FilesOK
<1>2. \A k \in Keys : record'[k] # None => Honest(record'[k], inodes', clock')
  BY <1>1, Zenon
<1>3. QED
  BY <1>2, Zenon DEF FilesOK

LEMMA MadeGrows ==
    ASSUME FileInv, NEW b \in Bodies, Made(b)
    PROVE  /\ Timely(inodes', clock') /\ Grows(inodes, clock, inodes', clock')
           /\ Len(inodes) + 1 \in Nat
           /\ DOMAIN inodes' = DOMAIN inodes \cup {Len(inodes) + 1}
           /\ inodes'[Len(inodes) + 1] = [body |-> b, mtime |-> clock + 1, type |-> None]
<1> DEFINE n == [body |-> b, mtime |-> clock + 1, type |-> None]
<1>1. Timely(inodes, clock)
  BY Zenon DEF FileInv, FilesOK
<1>2. clock \in Nat /\ clock' = clock + 1 /\ n \in Inode /\ inodes \in Seq(Inode)
  BY <1>1 DEF Made, Timely, Inode
<1>3. /\ inodes' = Append(inodes, n) /\ inodes' \in Seq(Inode)
      /\ Len(inodes) \in Nat /\ DOMAIN inodes = 1 .. Len(inodes)
      /\ Len(inodes') = Len(inodes) + 1 /\ DOMAIN inodes' = 1 .. Len(inodes')
      /\ \A i \in DOMAIN inodes : inodes'[i] = inodes[i]
      /\ inodes'[Len(inodes) + 1] = n
  <2>1. inodes' = Append(inodes, n)
    BY Zenon DEF Made
  <2>2. Len(inodes) \in Nat /\ DOMAIN inodes = 1 .. Len(inodes)
    BY <1>2
  <2> HIDE DEF n
  <2>3. /\ Append(inodes, n) \in Seq(Inode) /\ Len(Append(inodes, n)) = Len(inodes) + 1
        /\ \A i \in 1 .. Len(inodes) : Append(inodes, n)[i] = inodes[i]
        /\ Append(inodes, n)[Len(inodes) + 1] = n
    BY <1>2
  <2>4. DOMAIN inodes' = 1 .. Len(inodes')
    BY <2>1, <2>3
  <2>5. QED
    BY <2>1, <2>2, <2>3, <2>4, Zenon
<1>4. DOMAIN inodes' = DOMAIN inodes \cup {Len(inodes) + 1}
  BY <1>3
<1>5. \A i \in DOMAIN inodes : inodes[i].mtime \in Nat /\ inodes[i].mtime <= clock
  <2>1. \A i \in DOMAIN inodes : inodes[i] \in Inode
    BY <1>2, Indexed, Zenon
  <2>2. QED
    BY <1>1, <2>1, Zenon DEF Timely, Inode
<1>6. Timely(inodes', clock')
  <2>1. ASSUME NEW i \in DOMAIN inodes' PROVE inodes'[i].mtime <= clock'
    <3>1. CASE i \in DOMAIN inodes
      BY <1>2, <1>3, <1>5, <3>1
    <3>2. CASE i = Len(inodes) + 1
      BY <1>2, <1>3, <3>2
    <3>3. QED
      BY <1>4, <3>1, <3>2, Zenon
  <2>2. QED
    BY <1>2, <1>3, <2>1 DEF Timely
<1>7. Grows(inodes, clock, inodes', clock')
  BY <1>2, <1>3, <1>4 DEF Grows
<1>8. QED
  BY <1>3, <1>4, <1>6, <1>7

\* The hash is of the bytes as they are now, under the stamp that was read before:
\* if the file was written in between, the stamp is not its own any more.
LEMMA HashStep ==
    ASSUME FileInv, NEW r \in Requests, Hash(r)
    PROVE  FileInv'
<1>1. inodes' = inodes /\ name' = name /\ record' = record /\ clock' = clock /\ pc[r] = "hash"
  BY Zenon DEF Hash, files
<1>2. FilesOK(inodes', name', record', clock') /\ Grows(inodes, clock, inodes', clock')
  BY <1>1, FilesStay, Zenon
<1>3. Good(w[r], "hash", inodes, clock)
  BY <1>1, GoodHere, Zenon
<1>4. At(r) \in Keys
  BY <1>3, AtIsAKey, Zenon DEF Good
<1> DEFINE old == w[r].seen
           a == [etag  |-> inodes[w[r].handle].body,
                 type  |-> IF old # None /\ old.type # None THEN old.type ELSE Guess[At(r)],
                 stamp |-> w[r].meta]
<1>5. Goes(r, "repair", [w[r] EXCEPT !.seen = a])
  BY Zenon DEF Hash
<1>6. /\ w[r].meta \in Nat \X Nat /\ w[r].meta[1] \in DOMAIN inodes /\ w[r].meta[2] <= clock
      /\ w[r].handle = w[r].meta[1] /\ w[r] \in Local
  BY <1>3, Zenon DEF Good
<1>7. inodes[w[r].handle].body \in Bodies
  <2>1. inodes \in Seq(Inode) /\ w[r].handle \in DOMAIN inodes
    BY <1>6, Zenon DEF FileInv, FilesOK, Timely
  <2>2. inodes[w[r].handle] \in Inode
    BY <2>1, Indexed, Zenon
  <2>3. QED
    BY <2>2, Zenon DEF Inode
<1>8. a.type \in Types \cup {None}
  BY <1>4, <1>6, GuessAssumption, SMTT(30) DEF Local, Attr
<1>9. Honest(a, inodes, clock)
  BY <1>6, <1>7, <1>8, Zenon DEF Honest, Attr
<1>10. Good([w[r] EXCEPT !.seen = a], "repair", inodes', clock')
  <2> HIDE DEF a
  <2>1. a \in Attr /\ a.stamp = w[r].meta
    BY <1>9, Zenon DEF Honest, a
  <2>2. QED
    BY <1>1, <1>3, <1>9, <2>1, SMTT(30) DEF Good, Local
<1>11. QED
  BY <1>2, <1>5, <1>10, GoesStep, Zenon DEF Steps, Looked

LEMMA RepairStep ==
    ASSUME FileInv, NEW r \in Requests, Repair(r)
    PROVE  FileInv'
<1>1. inodes' = inodes /\ name' = name /\ clock' = clock /\ pc[r] = "repair"
  BY Zenon DEF Repair
<1>2. Good(w[r], "repair", inodes, clock)
  BY <1>1, GoodHere, Zenon
<1>3. At(r) \in Keys /\ Honest(w[r].seen, inodes, clock) /\ w[r].seen \in Attr
  BY <1>2, AtIsAKey, Zenon DEF Good, Honest
<1>4. Timely(inodes', clock') /\ Grows(inodes, clock, inodes', clock')
  BY <1>1, SameFilesGrow, Zenon DEF FileInv, FilesOK
<1>5. FilesOK(inodes', name', record', clock')
  <2>1. name' \in [Keys -> DOMAIN inodes' \cup {None}] /\ record \in [Keys -> Attr \cup {None}]
    BY <1>1, Zenon DEF FileInv, FilesOK
  <2>2. record' = record \/ record' = [record EXCEPT ![At(r)] = w[r].seen]
    BY Zenon DEF Repair
  <2>3. record' \in [Keys -> Attr \cup {None}]
    BY <1>3, <2>1, <2>2, Zenon
  <2>4. \A k \in Keys : record'[k] \in {record[k], None} \/ Honest(record'[k], inodes', clock')
    BY <1>1, <1>3, <2>1, <2>2, Zenon
  <2>5. QED
    BY <1>4, <2>1, <2>3, <2>4, FilesStep, Zenon
<1>6. Told(w[r], w[r].seen, inodes', clock')
  <2>1. w[r].op.kind = "copy" => w[r].handle \in DOMAIN inodes
    BY <1>2, Zenon DEF Good
  <2>2. QED
    BY <1>1, <1>2, <1>3, <2>1, Zenon DEF Told, Good
<1>7. Found(r, w[r], w[r].seen)
  BY Zenon DEF Repair
<1>8. QED
  BY <1>4, <1>5, <1>6, <1>7, FoundStep, Zenon

----------------------------------------------------------------------------
LEMMA ReadAndPruneSteps ==
    ASSUME FileInv, NEW r \in Requests, Read(r) \/ Prune(r)
    PROVE  FileInv'
<1>1. inodes' = inodes /\ name' = name /\ record' = record /\ clock' = clock /\ Ends(r)
  BY Zenon DEF Read, Prune, files
<1>2. QED
  BY <1>1, FilesStay, EndsStep, Zenon

LEMMA MkdirStep ==
    ASSUME FileInv, NEW r \in Requests, Mkdir(r)
    PROVE  FileInv'
<1>1. /\ inodes' = inodes /\ name' = name /\ record' = record /\ clock' = clock
      /\ pc[r] = "mkdir" /\ Goes(r, "temp", w[r])
  BY Zenon DEF Mkdir
<1>2. Good(w[r], "mkdir", inodes, clock)
  BY <1>1, GoodHere, Zenon
<1>3. Good(w[r], "temp", inodes', clock')
  BY <1>1, <1>2, Zenon DEF Good
<1>4. QED
  BY <1>1, <1>3, FilesStay, GoesStep, Zenon DEF Steps, Looked

\* The body that is staged, and the record made for it.
LEMMA StageStep ==
    ASSUME FileInv, NEW r \in Requests, pc[r] = "temp", Stage(r), name' = name, record' = record
    PROVE  FileInv'
<1> DEFINE ino == Len(inodes) + 1
           o == w[r].op
           body == IF o.kind = "put" THEN o.body ELSE inodes[w[r].source].body
           type == IF o.kind = "put" \/ o.type # None THEN o.type ELSE w[r].attrs.type
           a == [etag |-> body, type |-> type, stamp |-> <<ino, clock + 1>>]
           l == [w[r] EXCEPT !.staged = ino, !.seen = a]
<1>1. Made(body) /\ Goes(r, "rename", l)
  BY Zenon DEF Stage
<1>2. Good(w[r], "temp", inodes, clock)
  BY GoodHere, SMTT(30)
<1>3. /\ w[r] \in Local /\ o \in Asked
      /\ o.kind = "put" \/ (o.kind = "copy" /\ w[r].source # None)
      /\ w[r].source # None =>
             Honest(w[r].attrs, inodes, clock) /\ w[r].source \in DOMAIN inodes
  BY <1>2, Zenon DEF Good
<1>4. inodes \in Seq(Inode) /\ clock \in Nat
  BY Zenon DEF FileInv, FilesOK, Timely
<1>5. body \in Bodies
  <2>1. CASE o.kind = "put"
    BY <1>3, <2>1, AskedAssumption, Zenon
  <2>2. CASE o.kind # "put"
    <3>1. inodes[w[r].source] \in Inode
      BY <1>3, <1>4, <2>2, Indexed, Zenon
    <3>2. QED
      BY <2>2, <3>1, Zenon DEF Inode
  <2>3. QED
    BY <2>1, <2>2, Zenon
<1>6. type \in Types \cup {None}
  <2>1. CASE o.kind = "put"
    BY <1>3, <2>1, AskedAssumption, Zenon
  <2>2. CASE o.kind # "put"
    <3>1. w[r].attrs.type \in Types \cup {None}
      BY <1>3, <2>2, Zenon DEF Honest, Attr
    <3>2. QED
      BY <1>3, <2>2, <3>1, AskedAssumption, Zenon
  <2>3. QED
    BY <2>1, <2>2, Zenon
<1> HIDE DEF body, type
<1>7. /\ Timely(inodes', clock') /\ Grows(inodes, clock, inodes', clock') /\ ino \in Nat
      /\ DOMAIN inodes' = DOMAIN inodes \cup {ino}
      /\ inodes'[ino] = [body |-> body, mtime |-> clock + 1, type |-> None]
  BY <1>1, <1>5, MadeGrows, Zenon
<1>8. clock' = clock + 1
  BY <1>1, Zenon DEF Made
<1> HIDE DEF ino
<1>9. Honest(a, inodes', clock')
  <2>1. a \in Attr
    BY <1>4, <1>5, <1>6, <1>7 DEF Attr
  <2>2. a.etag = body /\ a.stamp[1] = ino /\ a.stamp[2] = clock + 1
    BY Zenon
  <2> HIDE DEF a
  <2>3. ino \in DOMAIN inodes' /\ inodes'[ino].body = body
    BY <1>7
  <2>4. a.stamp[2] <= clock'
    BY <1>4, <1>8, <2>2
  <2>5. QED
    BY <2>1, <2>2, <2>3, <2>4, Zenon DEF Honest
<1>10. FilesOK(inodes', name', record', clock')
  <2>1. name' \in [Keys -> DOMAIN inodes' \cup {None}] /\ record' \in [Keys -> Attr \cup {None}]
    BY <1>7, Zenon DEF FileInv, FilesOK
  <2>2. QED
    BY <1>7, <2>1, FilesStep, Zenon
<1>11. Good(l, "rename", inodes', clock')
  <2>1. w[r].source # None => Honest(w[r].attrs, inodes', clock') /\ w[r].source \in DOMAIN inodes'
    BY <1>3, <1>7, HonestStays, Zenon DEF FileInv, FilesOK
  <2>2. a \in Attr
    BY <1>9, Zenon DEF Honest
  <2> HIDE DEF a
  <2>3. /\ l \in Local /\ l.op = o /\ l.seen = a /\ l.staged = ino /\ l.source = w[r].source
        /\ l.attrs = w[r].attrs
    BY <1>3, <1>7, <2>2, Zenon DEF Local
  <2> HIDE DEF l
  <2>4. QED
    BY <1>3, <1>7, <1>9, <2>1, <2>3, Zenon DEF Good
<1>12. QED
  BY <1>1, <1>7, <1>10, <1>11, GoesStep, Zenon DEF Steps, Looked

LEMMA TempStep ==
    ASSUME FileInv, NEW r \in Requests, Temp(r)
    PROVE  FileInv'
<1>1. pc[r] = "temp" /\ name' = name /\ record' = record
  BY Zenon DEF Temp
<1>2. CASE Stage(r)
  BY <1>1, <1>2, StageStep, Zenon
<1>3. CASE RanOut(r)
  <2>1. inodes' = inodes /\ clock' = clock /\ Ends(r)
    BY <1>3, Zenon DEF RanOut
  <2>2. QED
    BY <1>1, <2>1, FilesStay, EndsStep, Zenon
<1> DEFINE l == [w[r] EXCEPT !.tries = @ - 1]
<1>4. CASE w[r].tries > 0 /\ Goes(r, "mkdir", l) /\ UNCHANGED <<inodes, clock>>
  <2>1. Good(w[r], "temp", inodes, clock)
    BY <1>1, GoodHere, Zenon
  <2>2. Good(l, "mkdir", inodes', clock')
    BY <1>4, <2>1 DEF Good, Local
  <2>3. QED
    BY <1>1, <1>4, <2>2, FilesStay, GoesStep, Zenon DEF Steps, Looked
<1>5. QED
  BY <1>2, <1>3, <1>4, Zenon DEF Temp

LEMMA RenameStep ==
    ASSUME FileInv, NEW r \in Requests, Rename(r)
    PROVE  FileInv'
<1>1. /\ inodes' = inodes /\ record' = record /\ clock' = clock
      /\ name' = [name EXCEPT ![w[r].op.key] = w[r].staged]
      /\ pc[r] = "rename" /\ Goes(r, "record", w[r])
  BY Zenon DEF Rename
<1>2. Good(w[r], "rename", inodes, clock)
  BY <1>1, GoodHere, Zenon
<1>3. Good(w[r], "record", inodes', clock')
  BY <1>1, <1>2, Zenon DEF Good
<1>4. Timely(inodes', clock') /\ Grows(inodes, clock, inodes', clock')
  BY <1>1, SameFilesGrow, SMTT(30) DEF FileInv, FilesOK
<1>5. FilesOK(inodes', name', record', clock')
  <2>1. name' \in [Keys -> DOMAIN inodes' \cup {None}] /\ record' \in [Keys -> Attr \cup {None}]
    BY <1>1, <1>2, AskedAssumption, Zenon DEF FileInv, FilesOK, Good
  <2>2. QED
    BY <1>1, <1>4, <2>1, FilesStep, Zenon
<1>6. QED
  BY <1>1, <1>3, <1>4, <1>5, GoesStep, Zenon DEF Steps, Looked

\* The record that is written was made with the file that was staged; only the
\* note of the declared type is added to that file.
LEMMA RecordStep ==
    ASSUME FileInv, NEW r \in Requests, Record(r)
    PROVE  FileInv'
<1>1. name' = name /\ clock' = clock /\ pc[r] = "record" /\ Ends(r)
  BY Zenon DEF Record
<1>2. Good(w[r], "record", inodes, clock)
  BY <1>1, GoodHere, Zenon
<1> DEFINE i == w[r].staged
           a == w[r].seen
<1>3. i \in DOMAIN inodes /\ Honest(a, inodes, clock) /\ a \in Attr /\ w[r].op.key \in Keys
  BY <1>2, AskedAssumption, Zenon DEF Good, Honest
<1>4. CASE UNCHANGED <<record, inodes>>
  BY <1>1, <1>4, FilesStay, EndsStep, Zenon
<1>5. CASE /\ record' = [record EXCEPT ![w[r].op.key] = a]
           /\ inodes' = [inodes EXCEPT ![i].type = a.type]
  <2>1. Timely(inodes, clock) /\ inodes \in Seq(Inode) /\ inodes[i] \in Inode
    BY <1>3, Indexed, Zenon DEF FileInv, FilesOK, Timely
  <2>2. [inodes[i] EXCEPT !.type = a.type] \in Inode
    BY <1>3, <2>1, Zenon DEF Inode, Attr
  <2>3. inodes' = [inodes EXCEPT ![i] = [inodes[i] EXCEPT !.type = a.type]]
    BY <1>5, Zenon
  <2>4. inodes' \in Seq(Inode) /\ DOMAIN inodes' = DOMAIN inodes
    BY <1>3, <2>1, <2>2, <2>3
  <2>5. \A j \in DOMAIN inodes :
            inodes'[j].body = inodes[j].body /\ inodes'[j].mtime = inodes[j].mtime
    BY <1>3, <2>1, <2>3, Zenon DEF Inode
  <2>6. Timely(inodes', clock') /\ Grows(inodes, clock, inodes', clock')
    BY <1>1, <2>1, <2>4, <2>5 DEF Timely, Grows
  <2>7. Honest(a, inodes', clock')
    BY <1>3, <2>1, <2>6, HonestStays, Zenon
  <2>8. name' \in [Keys -> DOMAIN inodes' \cup {None}] /\ record' \in [Keys -> Attr \cup {None}]
    BY <1>1, <1>3, <1>5, <2>4, Zenon DEF FileInv, FilesOK
  <2>9. \A k \in Keys : record'[k] \in {record[k], None} \/ Honest(record'[k], inodes', clock')
    BY <1>3, <1>5, <2>7, Zenon DEF FileInv, FilesOK
  <2>10. FilesOK(inodes', name', record', clock')
    BY <2>6, <2>8, <2>9, FilesStep, Zenon
  <2>11. QED
    BY <1>1, <2>6, <2>10, EndsStep, Zenon
<1>6. QED
  BY <1>4, <1>5, Zenon DEF Record

LEMMA DeleteSteps ==
    ASSUME FileInv, NEW r \in Requests, Unlink(r) \/ Unrecord(r)
    PROVE  FileInv'
<1>1. inodes' = inodes /\ clock' = clock /\ pc[r] \in {"unlink", "unrecord"}
  BY ZenonT(30) DEF Unlink, Unrecord
<1>2. Good(w[r], pc[r], inodes, clock)
  BY <1>1, GoodHere, Zenon
<1>3. Good(w[r], "unrecord", inodes', clock') /\ Good(w[r], "prune", inodes', clock')
  BY <1>1, <1>2, Zenon DEF Good
<1>4. Timely(inodes', clock') /\ Grows(inodes, clock, inodes', clock')
  BY <1>1, SameFilesGrow, Zenon DEF FileInv, FilesOK
<1>5. FilesOK(inodes', name', record', clock')
  <2>1. /\ name' = name \/ name' = [name EXCEPT ![w[r].op.key] = None]
        /\ record' = record \/ record' = [record EXCEPT ![w[r].op.key] = None]
    BY Zenon DEF Unlink, Unrecord
  <2>2. name' \in [Keys -> DOMAIN inodes' \cup {None}] /\ record' \in [Keys -> Attr \cup {None}]
    BY <1>1, <2>1, Zenon DEF FileInv, FilesOK
  <2>3. \A k \in Keys : record'[k] \in {record[k], None}
    BY <2>1, Zenon DEF FileInv, FilesOK
  <2>4. QED
    BY <1>4, <2>2, <2>3, FilesStep, Zenon
<1>6. Ends(r) \/ Goes(r, "unrecord", w[r]) \/ Goes(r, "prune", w[r])
  BY Zenon DEF Unlink, Unrecord
<1>7. QED
  BY <1>3, <1>4, <1>5, <1>6, EndsStep, GoesStep, Zenon DEF Steps, Looked

----------------------------------------------------------------------------
\* The steps of others leave the requests where they are.
LEMMA OthersStep ==
    ASSUME FileInv, FilesOK(inodes', name', record', clock'),
           Grows(inodes, clock, inodes', clock'), pc' = pc, w' = w
    PROVE  FileInv'
<1>1. ASSUME NEW x \in Requests PROVE Knows(w'[x], pc'[x], inodes', clock')
  <2>1. Knows(w[x], pc[x], inodes, clock) /\ Timely(inodes, clock) /\ Timely(inodes', clock')
    BY Zenon DEF FileInv, FilesOK
  <2>2. QED
    BY <2>1, KnowsStays, Zenon
<1>2. QED
  BY <1>1, Zenon DEF FileInv

LEMMA CancelStep ==
    ASSUME FileInv, NEW r \in Requests, Cancel(r)
    PROVE  FileInv'
<1>1. inodes' = inodes /\ name' = name /\ record' = record /\ clock' = clock
  BY Zenon DEF Cancel, files
<1>2. Ends(r) \/ UNCHANGED <<pc, w>>
  BY Zenon DEF Cancel
<1>3. QED
  BY <1>1, <1>2, FilesStay, EndsStep, OthersStep, Zenon

LEMMA CrashStep ==
    ASSUME FileInv, Crash
    PROVE  FileInv'
<1>1. /\ inodes' = inodes /\ name' = name /\ record' = record /\ clock' = clock
      /\ pc' = [r \in Requests |-> "idle"] /\ w' = [r \in Requests |-> Blank]
  BY Zenon DEF Crash, files
<1>2. FilesOK(inodes', name', record', clock')
  BY <1>1, FilesStay, SMTT(30)
<1>3. pc' \in [Requests -> Steps] /\ w' \in [Requests -> Local]
  BY <1>1, Zenon DEF Steps, Blank, Local
<1>4. QED
  BY <1>1, <1>2, <1>3, Zenon DEF FileInv, Knows

\* An editor makes a file at a time of its own, or writes one at a later time.
LEMMA EditByRenameStep ==
    ASSUME FileInv, NEW k \in Keys, NEW b \in Bodies, EditByRename(k, b)
    PROVE  FileInv'
<1>1. /\ Made(b) /\ name' = [name EXCEPT ![k] = Len(inodes) + 1]
      /\ record' = record /\ pc' = pc /\ w' = w
  BY Zenon DEF EditByRename, Edited
<1>2. /\ Timely(inodes', clock') /\ Grows(inodes, clock, inodes', clock')
      /\ DOMAIN inodes' = DOMAIN inodes \cup {Len(inodes) + 1}
  BY <1>1, MadeGrows, Zenon
<1>3. name' \in [Keys -> DOMAIN inodes' \cup {None}] /\ record' \in [Keys -> Attr \cup {None}]
  BY <1>1, <1>2, Zenon DEF FileInv, FilesOK
<1>4. FilesOK(inodes', name', record', clock')
  BY <1>1, <1>2, <1>3, FilesStep, Zenon
<1>5. QED
  BY <1>1, <1>2, <1>4, OthersStep, Zenon

LEMMA Rewritten ==
    ASSUME NEW f \in Inode, NEW b \in Bodies, NEW t \in Nat
    PROVE  LET n == [f EXCEPT !.body = b, !.mtime = t] IN n \in Inode /\ n.mtime = t
BY Zenon DEF Inode

LEMMA EditInPlaceStep ==
    ASSUME FileInv, NEW k \in Keys, NEW b \in Bodies, EditInPlace(k, b)
    PROVE  FileInv'
<1> DEFINE i == name[k]
           n == [inodes[i] EXCEPT !.body = b, !.mtime = clock + 1]
<1>1. /\ name' = name /\ record' = record /\ pc' = pc /\ w' = w /\ clock' = clock + 1
      /\ i # None
      /\ inodes' = [inodes EXCEPT ![i].body = b, ![i].mtime = clock + 1]
  BY Zenon DEF EditInPlace, Edited
<1>2. /\ Timely(inodes, clock) /\ inodes \in Seq(Inode) /\ clock \in Nat
      /\ i \in DOMAIN inodes
  BY <1>1, Zenon DEF FileInv, FilesOK, Timely
<1>3. \A j \in DOMAIN inodes : inodes[j] \in Inode
  BY <1>2, Indexed, Zenon
<1>4. n \in Inode /\ n.mtime = clock + 1
  <2>1. inodes[i] \in Inode
    BY <1>2, <1>3, Zenon
  <2>2. clock + 1 \in Nat
    BY <1>2
  <2>3. QED
    BY <2>1, <2>2, Rewritten, Zenon
<1>5. inodes' = [inodes EXCEPT ![i] = n]
  BY <1>1, <1>2, <1>3, Zenon DEF Inode
<1>6. inodes' \in Seq(Inode) /\ DOMAIN inodes' = DOMAIN inodes
  BY <1>2, <1>4, <1>5
<1>7. \A j \in DOMAIN inodes : inodes'[j] = IF j = i THEN n ELSE inodes[j]
  BY <1>2, <1>5, Zenon
<1> HIDE DEF n
<1>8. \A j \in DOMAIN inodes : inodes[j].mtime \in Nat /\ inodes[j].mtime <= clock
  BY <1>2, <1>3, Zenon DEF Timely, Inode
<1>9. Timely(inodes', clock')
  <2>1. \A j \in DOMAIN inodes' : inodes'[j].mtime <= clock'
    BY <1>1, <1>2, <1>4, <1>6, <1>7, <1>8
  <2>2. QED
    BY <1>1, <1>2, <1>6, <2>1 DEF Timely
<1>10. Grows(inodes, clock, inodes', clock')
  BY <1>1, <1>2, <1>4, <1>6, <1>7 DEF Grows
<1>11. name' \in [Keys -> DOMAIN inodes' \cup {None}] /\ record' \in [Keys -> Attr \cup {None}]
  BY <1>1, <1>6, Zenon DEF FileInv, FilesOK
<1>12. FilesOK(inodes', name', record', clock')
  BY <1>1, <1>9, <1>10, <1>11, FilesStep, Zenon
<1>13. QED
  BY <1>1, <1>10, <1>12, OthersStep, Zenon

LEMMA EditRemovesStep ==
    ASSUME FileInv, EditRemovesDir \/ \E k \in Keys : EditRemoves(k)
    PROVE  FileInv'
<1>1. /\ inodes' = inodes /\ clock' = clock /\ record' = record /\ pc' = pc /\ w' = w
      /\ name' = name \/ \E k \in Keys : name' = [name EXCEPT ![k] = None]
  BY Zenon DEF EditRemovesDir, EditRemoves, Edited
<1>2. Timely(inodes', clock') /\ Grows(inodes, clock, inodes', clock')
  BY <1>1, SameFilesGrow, Zenon DEF FileInv, FilesOK
<1>3. name' \in [Keys -> DOMAIN inodes' \cup {None}] /\ record' \in [Keys -> Attr \cup {None}]
  BY <1>1, Zenon DEF FileInv, FilesOK
<1>4. FilesOK(inodes', name', record', clock')
  BY <1>1, <1>2, <1>3, FilesStep, Zenon
<1>5. QED
  BY <1>1, <1>2, <1>4, OthersStep, Zenon

LEMMA FilesAtFirst ==
    ASSUME Init
    PROVE  FileInv
<1> DEFINE ino(k) == CHOOSE i \in DOMAIN Present : Present[i].key = k
           held == {Present[i].key : i \in DOMAIN Present}
           Obj == [key : Keys, body : Bodies, type : Types \cup {None}]
<1>1. /\ Len(Present) \in Nat /\ DOMAIN Present = 1 .. Len(Present)
      /\ \A i \in DOMAIN Present : i \in Nat /\ Present[i] \in Obj
  <2>1. Present \in Seq(Obj)
    BY PresentAssumption, Zenon
  <2> HIDE DEF Obj
  <2>2. Len(Present) \in Nat /\ DOMAIN Present = 1 .. Len(Present)
    BY <2>1
  <2>3. \A i \in DOMAIN Present : i \in Nat /\ Present[i] \in Obj
    BY <2>1, Indexed, Zenon
  <2>4. QED
    BY <2>2, <2>3, Zenon
<1>2. \A k \in held : ino(k) \in DOMAIN Present
  <2>1. ASSUME NEW k \in held PROVE ino(k) \in DOMAIN Present
    <3>1. PICK i \in DOMAIN Present : Present[i].key = k
      BY <2>1, Zenon
    <3>2. QED
      BY <3>1, Zenon
  <2>2. QED
    BY <2>1, Zenon
<1>3. /\ inodes = [i \in DOMAIN Present |->
             [body |-> Present[i].body, mtime |-> i, type |-> Present[i].type]]
      /\ name = [k \in Keys |-> IF k \in held THEN ino(k) ELSE None]
      /\ record = [k \in Keys |->
             IF k \in held THEN [etag |-> Present[ino(k)].body, type |-> Present[ino(k)].type,
                                 stamp |-> <<ino(k), ino(k)>>] ELSE None]
      /\ clock = Len(Present)
  BY Zenon DEF Init
<1> HIDE DEF ino, held
<1>4. Timely(inodes, clock) /\ DOMAIN inodes = DOMAIN Present
  <2>1. \A i \in DOMAIN Present : inodes[i] \in Inode /\ inodes[i].mtime = i
    BY <1>1, <1>3, Zenon DEF Inode
  <2>2. DOMAIN inodes = 1 .. Len(Present) /\ inodes = [i \in 1 .. Len(Present) |-> inodes[i]]
    BY <1>1, <1>3, Zenon
  <2>3. inodes \in Seq(Inode)
    BY <1>1, <2>1, <2>2
  <2>4. QED
    BY <1>1, <1>3, <2>1, <2>2, <2>3, SMTT(30) DEF Timely
<1>5. name \in [Keys -> DOMAIN inodes \cup {None}]
  BY <1>2, <1>3, <1>4, Zenon
<1>6. ASSUME NEW k \in Keys, k \in held PROVE Honest(record[k], inodes, clock)
  <2> DEFINE i == ino(k)
  <2>1. i \in DOMAIN Present /\ i \in Nat /\ Present[i] \in Obj /\ i <= Len(Present)
    BY <1>1, <1>2, <1>6, SMTT(30)
  <2>2. record[k] = [etag |-> Present[i].body, type |-> Present[i].type, stamp |-> <<i, i>>]
    BY <1>3, <1>6, ZenonT(30)
  <2>3. inodes[i] = [body |-> Present[i].body, mtime |-> i, type |-> Present[i].type]
    BY <1>3, <2>1, Zenon
  <2> HIDE DEF i
  <2>4. QED
    BY <1>3, <1>4, <2>1, <2>2, <2>3, SMTT(30) DEF Honest, Attr
<1>7. FilesOK(inodes, name, record, clock)
  <2>1. \A k \in Keys : k \notin held => record[k] = None
    BY <1>3, SMTT(30)
  <2>2. record \in [Keys -> Attr \cup {None}]
    BY <1>3, <1>6, <2>1, SMTT(30) DEF Honest
  <2>3. QED
    BY <1>4, <1>5, <1>6, <2>1, <2>2, Zenon DEF FilesOK
<1>8. pc = [r \in Requests |-> "idle"] /\ w = [r \in Requests |-> Blank]
  BY Zenon DEF Init
<1>9. pc \in [Requests -> Steps] /\ w \in [Requests -> Local]
  BY <1>8, Zenon DEF Steps, Blank, Local
<1>10. QED
  BY <1>7, <1>8, <1>9, Zenon DEF FileInv, Knows

LEMMA FileInvStep ==
    ASSUME FileInv, [Next]_vars
    PROVE  FileInv'
<1>1. ASSUME NEW r \in Requests, Step(r) PROVE FileInv'
  BY <1>1, LockSteps, StatStep, LoadSteps, OpenStep, HashStep, RepairStep, ReadAndPruneSteps,
     MkdirStep, TempStep, RenameStep, RecordStep, DeleteSteps, Zenon DEF Step
<1>2. CASE UNCHANGED vars
  <2>1. pc' = pc /\ w' = w /\ inodes' = inodes /\ name' = name /\ record' = record /\ clock' = clock
    BY <1>2, Zenon DEF vars, files
  <2>2. QED
    BY <2>1, FilesStay, OthersStep, Zenon
<1>3. QED
  BY <1>1, <1>2, CancelStep, AskStep, EditRemovesStep, EditByRenameStep, EditInPlaceStep,
     CrashStep, Zenon DEF Next

(***************************************************************************)
(* What the records and the requests know of the files holds throughout,   *)
(* whatever runs beside them: FileInv, the invariant the next two theorems *)
(* are drawn from.                                                         *)
(***************************************************************************)
THEOREM FilesAreKnown == Spec => []FileInv
<1>1. Init => FileInv
  BY FilesAtFirst, Zenon
<1>2. FileInv /\ [Next]_vars => FileInv'
  BY FileInvStep, Zenon
<1>3. QED
  BY <1>1, <1>2, PTL DEF Spec

(***************************************************************************)
(* A record that is_fresh_for a file has the ETag of its bytes, for every  *)
(* set of keys and requests and every race of edits, repairs and writes.   *)
(***************************************************************************)
THEOREM FreshRecordsAreTrue == Spec => []FreshIsTrue
<1>1. FileInv => FreshIsTrue
  <2> SUFFICES ASSUME FileInv, NEW k \in Keys, NEW i \in DOMAIN inodes,
                      Fresh(record[k], Stamp(i))
               PROVE  record[k].etag = inodes[i].body
    BY SMTT(30) DEF FreshIsTrue
  <2>1. Honest(record[k], inodes, clock) /\ record[k].stamp = <<i, inodes[i].mtime>>
    BY Zenon DEF FileInv, FilesOK, Fresh, Stamp
  <2>2. QED
    BY <2>1 DEF Honest
<1>2. QED
  BY <1>1, FilesAreKnown, PTL

(***************************************************************************)
(* The bytes get_object serves and copy_object copies are those the ETag   *)
(* names, unless that file was written in place since it was opened.       *)
(***************************************************************************)
THEOREM ServedBytesHaveTheirEtag == Spec => []EtagNamesBytes
<1>1. FileInv => EtagNamesBytes
  <2> SUFFICES ASSUME FileInv, NEW r \in Requests
               PROVE  /\ pc[r] = "read" /\ w[r].meta = Stamp(w[r].handle) =>
                             w[r].attrs.etag = inodes[w[r].handle].body
                      /\ w[r].source # None /\ w[r].attrs.stamp = Stamp(w[r].source) =>
                             w[r].attrs.etag = inodes[w[r].source].body
    BY Zenon DEF EtagNamesBytes
  <2>1. Knows(w[r], pc[r], inodes, clock)
    BY Zenon DEF FileInv
  <2>2. CASE pc[r] = "idle"
    BY <2>1, <2>2, SMTT(30) DEF Knows, Blank
  <2>3. CASE pc[r] # "idle"
    <3>1. Good(w[r], pc[r], inodes, clock)
      BY <2>1, <2>3, Zenon DEF Knows
    <3>2. CASE pc[r] = "read" /\ w[r].meta = Stamp(w[r].handle)
      <4>1. Honest(w[r].attrs, inodes, clock) /\ w[r].attrs.stamp = Stamp(w[r].handle)
        BY <3>1, <3>2, Zenon DEF Good
      <4>2. w[r].attrs.etag = inodes[w[r].handle].body
        BY <4>1 DEF Honest, Stamp
      <4>3. CASE w[r].source # None /\ w[r].attrs.stamp = Stamp(w[r].source)
        <5>1. w[r].attrs.etag = inodes[w[r].source].body
          BY <4>1, <4>3 DEF Honest, Stamp
        <5>2. QED
          BY <4>2, <5>1, Zenon
      <4>4. QED
        BY <4>2, <4>3, SMTT(30)
    <3>3. CASE w[r].source # None /\ w[r].attrs.stamp = Stamp(w[r].source)
      <4>1. Honest(w[r].attrs, inodes, clock)
        BY <3>1, <3>3, Zenon DEF Good
      <4>2. w[r].attrs.etag = inodes[w[r].source].body
        BY <3>3, <4>1 DEF Honest, Stamp
      <4>3. QED
        BY <3>2, <4>2, Zenon
    <3>4. QED
      BY <3>2, <3>3, Zenon
  <2>4. QED
    BY <2>2, <2>3, Zenon
<1>2. QED
  BY <1>1, FilesAreKnown, PTL

----------------------------------------------------------------------------
(***************************************************************************)
(* The key locks.  A request that works, and was not dropped, is first in  *)
(* the line of every stripe it locks; one that waits is in that line.      *)
(***************************************************************************)
Stripes == {Stripe[k] : k \in Keys}

Heads(line, r) == line # <<>> /\ line[1] = r

Waits(line, r) == \E i \in DOMAIN line : line[i] = r

Idling == {"idle", "lock", "pair"}

Holds(q, o, at, r, dropped) ==
    /\ at = "lock" => Locks(o) # <<>> /\ Waits(q[Locks(o)[1]], r)
    /\ at = "pair" => Len(Locks(o)) = 2 /\ Heads(q[Locks(o)[1]], r) /\ Waits(q[Locks(o)[2]], r)
    /\ at \notin Idling /\ r \notin dropped => \A i \in DOMAIN Locks(o) : Heads(q[Locks(o)[i]], r)

\* A request keeps its places in the lines.
KeepsPlaces(q, q2, r) ==
    \A s \in Stripes : /\ Heads(q[s], r) => Heads(q2[s], r)
                       /\ Waits(q[s], r) => Waits(q2[s], r)

LockInv ==
    /\ queue \in [Stripes -> Seq(Requests)]
    /\ \A r \in Requests : Holds(queue, w[r].op, pc[r], r, detached)

\* No other request has changed the key since a writer looked at it.
Writing == Looked \cup {"lock", "pair", "record", "unrecord"}

SerialInv ==
    /\ since \in [Requests -> SUBSET {"server", "detached"}]
    /\ \A r \in Requests :
           pc[r] \in Writing /\ w[r].op.kind \notin {"get", "head"}
               => "server" \notin since[r]

WriteInv == FileInv /\ LockInv /\ SerialInv

LEMMA LocksOfARequest ==
    ASSUME NEW o \in Asked
    PROVE  /\ Locks(o) = <<>> \/ Len(Locks(o)) = 1 \/ Len(Locks(o)) = 2
           /\ DOMAIN Locks(o) = 1 .. Len(Locks(o)) /\ Len(Locks(o)) \in 0 .. 2
           /\ \A i \in DOMAIN Locks(o) : Locks(o)[i] \in Stripes
           /\ o.kind \notin {"get", "head"} => \E i \in DOMAIN Locks(o) : Locks(o)[i] = Stripe[o.key]
<1>1. o.key \in Keys /\ (o.kind = "copy" => o.src \in Keys)
  BY AskedAssumption, Zenon
<1>2. Stripe[o.key] \in Stripes /\ (o.kind = "copy" => Stripe[o.src] \in Stripes)
  BY <1>1, Zenon DEF Stripes
<1>3. CASE Locks(o) = <<>>
  <2>1. o.kind \in {"get", "head"}
    BY <1>3, Zenon DEF Locks
  <2>2. Len(<<>>) = 0 /\ DOMAIN <<>> = 1 .. 0
    OBVIOUS
  <2>3. QED
    BY <1>3, <2>1, <2>2
<1>4. CASE Locks(o) = <<Stripe[o.key]>>
  BY <1>2, <1>4
<1>5. CASE o.kind = "copy" /\ Locks(o) = <<Stripe[o.src], Stripe[o.key]>>
  BY <1>2, <1>5
<1>6. CASE o.kind = "copy" /\ Locks(o) = <<Stripe[o.key], Stripe[o.src]>>
  BY <1>2, <1>6
<1>7. QED
  BY <1>3, <1>4, <1>5, <1>6, Zenon DEF Locks

LEMMA Joined ==
    ASSUME NEW S, NEW a \in Seq(S), NEW b \in Seq(S)
    PROVE  /\ a \o b \in Seq(S) /\ Len(a \o b) = Len(a) + Len(b)
           /\ \A j \in 1 .. Len(a) + Len(b) :
                  (a \o b)[j] = IF j <= Len(a) THEN a[j] ELSE b[j - Len(a)]
OBVIOUS

\* A line without one request: the others keep their places.
LEMMA WithoutKeeps ==
    ASSUME NEW line \in Seq(Requests), NEW x, NEW r, r # x
    PROVE  /\ Without(line, x) \in Seq(Requests)
           /\ Heads(line, r) => Heads(Without(line, x), r)
           /\ Waits(line, r) => Waits(Without(line, x), r)
<1>1. CASE ~\E i \in DOMAIN line : line[i] = x
  BY <1>1, Zenon DEF Without
<1>2. CASE \E i \in DOMAIN line : line[i] = x
  <2> DEFINE i == CHOOSE j \in DOMAIN line : line[j] = x
             n == Len(line)
             a == SubSeq(line, 1, i - 1)
             b == SubSeq(line, i + 1, n)
  <2>1. i \in DOMAIN line /\ line[i] = x
    BY <1>2, Zenon
  <2>2. n \in Nat /\ DOMAIN line = 1 .. n /\ \A j \in 1 .. n : line[j] \in Requests
    OBVIOUS
  <2> HIDE DEF i, n
  <2>3. i \in 1 .. n
    BY <2>1, <2>2, Zenon
  <2>4. /\ a \in Seq(Requests) /\ Len(a) = i - 1
        /\ \A j \in 1 .. (i - 1) : a[j] = line[j]
    BY <2>2, <2>3
  <2>5. /\ b \in Seq(Requests) /\ Len(b) = n - i
        /\ \A j \in 1 .. (n - i) : b[j] = line[i + j]
    <3>1. \A j \in (i + 1) .. n : line[j] \in Requests
      BY <2>2, <2>3
    <3>2. /\ b \in Seq(Requests) /\ Len(b) = IF i + 1 <= n THEN n - (i + 1) + 1 ELSE 0
          /\ \A j \in 1 .. n - (i + 1) + 1 : b[j] = line[(i + 1) + j - 1]
      BY <2>2, <2>3, <3>1
    <3> HIDE DEF b
    <3>3. i \in Nat /\ n \in Nat /\ i <= n
      BY <2>2, <2>3
    <3>4. Len(b) = n - i /\ 1 .. n - (i + 1) + 1 = 1 .. (n - i)
      BY <3>2, <3>3
    <3>5. \A j \in 1 .. (n - i) : (i + 1) + j - 1 = i + j
      BY <3>3
    <3>6. QED
      BY <3>2, <3>4, <3>5, Zenon
  <2>6. Without(line, x) = a \o b
    BY <1>2, Zenon DEF Without, i, n
  <2> HIDE DEF a, b
  <2>7. /\ a \o b \in Seq(Requests) /\ Len(a \o b) = n - 1
        /\ \A j \in 1 .. (n - 1) : (a \o b)[j] = IF j < i THEN line[j] ELSE line[j + 1]
    <3>1. /\ a \o b \in Seq(Requests) /\ Len(a \o b) = Len(a) + Len(b)
          /\ \A j \in 1 .. Len(a) + Len(b) :
                 (a \o b)[j] = IF j <= Len(a) THEN a[j] ELSE b[j - Len(a)]
      BY <2>4, <2>5, Joined, Zenon
    <3>2. QED
      BY <2>2, <2>3, <2>4, <2>5, <3>1
  <2> DEFINE c == a \o b
  <2>8. c \in Seq(Requests) /\ Len(c) = n - 1 /\ DOMAIN c = 1 .. (n - 1)
        /\ \A j \in 1 .. (n - 1) : c[j] = IF j < i THEN line[j] ELSE line[j + 1]
    BY <2>2, <2>3, <2>7
  <2> HIDE DEF c
  <2>9. ASSUME NEW j \in 1 .. n, line[j] = r
        PROVE  \E m \in DOMAIN c : c[m] = r /\ (j = 1 => m = 1)
    <3>1. j # i
      BY <2>1, <2>9, Zenon
    <3>2. CASE j < i
      <4>1. j \in 1 .. (n - 1) /\ c[j] = r
        BY <2>2, <2>3, <2>8, <2>9, <3>2
      <4>2. QED
        BY <2>8, <4>1, Zenon
    <3>3. CASE j > i
      <4>1. j - 1 \in 1 .. (n - 1) /\ c[j - 1] = line[(j - 1) + 1] /\ (j - 1) + 1 = j /\ j # 1
        BY <2>2, <2>3, <2>8, <3>3
      <4>2. QED
        BY <2>8, <2>9, <4>1, Zenon
    <3>4. QED
      BY <2>3, <3>1, <3>2, <3>3
  <2>10. Heads(line, r) => Heads(c, r)
    <3> SUFFICES ASSUME Heads(line, r) PROVE Heads(c, r)
      BY Zenon
    <3>1. n # 0 /\ line[1] = r
      BY <2>2, <2>3 DEF Heads
    <3>2. PICK m \in DOMAIN c : c[m] = r /\ m = 1
      BY <2>2, <2>9, <3>1
    <3>3. QED
      BY <2>8, <3>2 DEF Heads
  <2>11. Waits(line, r) => Waits(c, r)
    BY <2>2, <2>9, Zenon DEF Waits
  <2>12. QED
    BY <2>6, <2>8, <2>10, <2>11, Zenon DEF c
<1>3. QED
  BY <1>1, <1>2, Zenon

LEMMA AppendKeeps ==
    ASSUME NEW line \in Seq(Requests), NEW x \in Requests, NEW r
    PROVE  /\ Append(line, x) \in Seq(Requests)
           /\ Heads(line, r) => Heads(Append(line, x), r)
           /\ Waits(line, r) => Waits(Append(line, x), r)
           /\ Waits(Append(line, x), x)
<1> DEFINE c == Append(line, x)
           n == Len(line)
<1>1. n \in Nat /\ DOMAIN line = 1 .. n
  OBVIOUS
<1>2. /\ c \in Seq(Requests) /\ c # <<>> /\ Len(c) = n + 1
      /\ \A i \in 1 .. n : c[i] = line[i]
      /\ c[n + 1] = x
  OBVIOUS
<1>3. DOMAIN c = 1 .. (n + 1)
  BY <1>2
<1> HIDE DEF c
<1>4. Heads(line, r) => Heads(c, r)
  <2> SUFFICES ASSUME Heads(line, r) PROVE Heads(c, r)
    BY Zenon
  <2>1. n # 0
    BY DEF Heads
  <2>2. c[1] = line[1]
    BY <1>1, <1>2, <2>1
  <2>3. QED
    BY <1>2, <2>2, Zenon DEF Heads
<1> HIDE DEF n
<1>5. Waits(line, r) => Waits(c, r)
  BY <1>1, <1>2, <1>3 DEF Waits
<1>6. Waits(c, x)
  BY <1>1, <1>2, <1>3 DEF Waits
<1>7. QED
  BY <1>2, <1>4, <1>5, <1>6, Zenon DEF c

\* A request that keeps its places in all lines keeps what it holds.
LEMMA HoldsStays ==
    ASSUME NEW q, NEW q2, NEW o \in Asked, NEW at, NEW r, NEW dropped, NEW dropped2,
           r \in dropped => r \in dropped2, Holds(q, o, at, r, dropped),
           KeepsPlaces(q, q2, r)
    PROVE  Holds(q2, o, at, r, dropped2)
<1>1. /\ DOMAIN Locks(o) = 1 .. Len(Locks(o)) /\ Len(Locks(o)) \in 0 .. 2
      /\ \A i \in DOMAIN Locks(o) : Locks(o)[i] \in Stripes
      /\ Locks(o) # <<>> => Len(Locks(o)) \in 1 .. 2
  <2>1. /\ Locks(o) = <<>> \/ Len(Locks(o)) = 1 \/ Len(Locks(o)) = 2
        /\ DOMAIN Locks(o) = 1 .. Len(Locks(o)) /\ Len(Locks(o)) \in 0 .. 2
        /\ \A i \in DOMAIN Locks(o) : Locks(o)[i] \in Stripes
    BY LocksOfARequest, ZenonT(30)
  <2>2. QED
    BY <2>1
<1>2. at = "lock" => Locks(o) # <<>> /\ Waits(q2[Locks(o)[1]], r)
  <2>1. SUFFICES ASSUME at = "lock" PROVE Locks(o) # <<>> /\ Waits(q2[Locks(o)[1]], r)
    BY Zenon
  <2>2. Locks(o) # <<>> /\ Waits(q[Locks(o)[1]], r)
    BY <2>1, Zenon DEF Holds
  <2>3. Locks(o)[1] \in Stripes
    BY <1>1, <2>2
  <2>4. QED
    BY <2>2, <2>3, Zenon DEF KeepsPlaces
<1>3. at = "pair" => /\ Len(Locks(o)) = 2 /\ Heads(q2[Locks(o)[1]], r)
                     /\ Waits(q2[Locks(o)[2]], r)
  <2>1. SUFFICES ASSUME at = "pair"
                 PROVE  /\ Len(Locks(o)) = 2 /\ Heads(q2[Locks(o)[1]], r)
                        /\ Waits(q2[Locks(o)[2]], r)
    BY Zenon
  <2>2. Len(Locks(o)) = 2 /\ Heads(q[Locks(o)[1]], r) /\ Waits(q[Locks(o)[2]], r)
    BY <2>1, Zenon DEF Holds
  <2>3. Locks(o)[1] \in Stripes /\ Locks(o)[2] \in Stripes
    BY <1>1, <2>2, SMTT(30)
  <2>4. QED
    BY <2>2, <2>3, Zenon DEF KeepsPlaces
<1>4. at \notin Idling /\ r \notin dropped2 => \A i \in DOMAIN Locks(o) : Heads(q2[Locks(o)[i]], r)
  BY <1>1, Zenon DEF Holds, KeepsPlaces
<1>5. QED
  BY <1>2, <1>3, <1>4, Zenon DEF Holds

LEMMA OpIsAsked ==
    ASSUME FileInv, NEW r \in Requests, pc[r] # "idle"
    PROVE  w[r].op \in Asked
BY GoodHere, Zenon DEF Good

\* The steps in which one request moves, by the places all others keep.
LEMMA LockInvStep ==
    ASSUME FileInv, LockInv, NEW r \in Requests, queue' \in [Stripes -> Seq(Requests)],
           \A x \in Requests \ {r} :
               /\ pc'[x] = pc[x] /\ w'[x] = w[x] /\ (x \in detached => x \in detached')
               /\ KeepsPlaces(queue, queue', x),
           Holds(queue', w'[r].op, pc'[r], r, detached')
    PROVE  LockInv'
<1>1. ASSUME NEW x \in Requests PROVE Holds(queue', w'[x].op, pc'[x], x, detached')
  <2>1. CASE x = r
    BY <2>1, Zenon
  <2>2. CASE x # r /\ pc[x] = "idle"
    BY <2>2, ZenonT(30) DEF Holds, Idling
  <2>3. CASE x # r /\ pc[x] # "idle"
    <3>1. w[x].op \in Asked /\ Holds(queue, w[x].op, pc[x], x, detached)
      BY <2>3, OpIsAsked, Zenon DEF LockInv
    <3>2. Holds(queue', w[x].op, pc[x], x, detached')
      BY <2>3, <3>1, HoldsStays, Zenon
    <3>3. QED
      BY <2>3, <3>2, Zenon
  <2>4. QED
    BY <2>1, <2>2, <2>3, ZenonT(30)
<1>2. QED
  BY <1>1, Zenon DEF LockInv

LEMMA UnlockedKeeps ==
    ASSUME LockInv, NEW r \in Requests, queue' = Unlocked(r)
    PROVE  /\ queue' \in [Stripes -> Seq(Requests)]
           /\ \A x \in Requests \ {r} : KeepsPlaces(queue, queue', x)
<1>1. DOMAIN queue = Stripes /\ \A s \in Stripes : queue[s] \in Seq(Requests)
  BY Zenon DEF LockInv
<1>2. \A s \in Stripes : queue'[s] = Without(queue[s], r)
  BY <1>1, SMTT(30) DEF Unlocked
<1>3. \A s \in Stripes : queue'[s] \in Seq(Requests)
  BY <1>1, <1>2, WithoutKeeps, Zenon
<1>4. queue' \in [Stripes -> Seq(Requests)]
  BY <1>1, <1>3, Zenon DEF Unlocked
<1>5. QED
  BY <1>1, <1>2, <1>4, WithoutKeeps, Zenon DEF KeepsPlaces

\* The work of a request, step by step: it ends, or goes on with what it asked for.
Work(r) ==
    \/ Stat(r) \/ LoadFresh(r) \/ Open(r) \/ Load(r) \/ Hash(r) \/ Repair(r) \/ Read(r)
    \/ Mkdir(r) \/ Temp(r) \/ Rename(r) \/ Record(r)
    \/ Unlink(r) \/ Unrecord(r) \/ Prune(r)

LEMMA FoundGoes ==
    ASSUME NEW r \in Requests, NEW l \in Local, NEW a, Found(r, l, a)
    PROVE  Ends(r) \/ \E at \in Steps \ Idling : \E m : Goes(r, at, m) /\ m.op = l.op
<1>1. PICK at \in Steps \ Idling,
           m \in {l, [l EXCEPT !.attrs = a], [l EXCEPT !.attrs = a, !.source = l.handle],
                 [l EXCEPT !.tries = StageRetries]} : Ends(r) \/ Goes(r, at, m)
  <2>1. {"read", "stat", "mkdir", "unlink"} \subseteq Steps \ Idling
    BY Zenon DEF Steps, Looked, Idling
  <2>2. QED
    BY Zenon, <2>1 DEF Found, FoundToRead, FoundSource, FoundToWrite, FoundToDelete
<1>2. m.op = l.op
  BY Zenon DEF Local
<1>3. QED
  BY <1>1, <1>2, Zenon

LEMMA WorkGoes ==
    ASSUME FileInv, NEW r \in Requests, Work(r)
    PROVE  /\ pc[r] \notin Idling
           /\ Ends(r) \/ \E at \in Steps \ Idling : \E m : Goes(r, at, m) /\ m.op = w[r].op
<1>1. w[r] \in Local
  BY Zenon DEF FileInv
<1>2. pc[r] \notin Idling
  BY Zenon DEF Work, Stat, LoadFresh, Open, Load, Hash, Repair, Read, Mkdir, Temp, Rename, Record,
         Unlink, Unrecord, Prune, Idling
<1>3. \/ Ends(r)
      \/ \E a : Found(r, w[r], a)
      \/ \E at \in Steps \ Idling : Goes(r, at, w[r])
      \/ \E at \in Steps \ Idling : \E v : Goes(r, at, [w[r] EXCEPT !.meta = v])
      \/ \E at \in Steps \ Idling : \E v : Goes(r, at, [w[r] EXCEPT !.seen = v])
      \/ \E at \in Steps \ Idling : \E v : Goes(r, at, [w[r] EXCEPT !.tries = v])
      \/ \E at \in Steps \ Idling : \E u, v : Goes(r, at, [w[r] EXCEPT !.handle = u, !.meta = v])
      \/ \E at \in Steps \ Idling : \E u, v : Goes(r, at, [w[r] EXCEPT !.staged = u, !.seen = v])
  <2>1. {"fresh", "open", "load", "hash", "repair", "temp", "rename", "mkdir", "record",
         "unrecord", "prune"} \subseteq Steps \ Idling
    BY Zenon DEF Steps, Looked, Idling
  <2>2. CASE Stat(r) \/ LoadFresh(r) \/ Open(r) \/ Load(r)
    BY Zenon, <2>1, <2>2 DEF Stat, LoadFresh, Open, Load
  <2>3. CASE Hash(r) \/ Repair(r) \/ Read(r) \/ Mkdir(r)
    BY Zenon, <2>1, <2>3 DEF Hash, Repair, Read, Mkdir
  <2>4. CASE Temp(r)
    BY Zenon, <2>1, <2>4 DEF Temp, Stage, RanOut
  <2>5. CASE Rename(r) \/ Record(r) \/ Unlink(r) \/ Unrecord(r) \/ Prune(r)
    BY Zenon, <2>1, <2>5 DEF Rename, Record, Unlink, Unrecord, Prune
  <2>6. QED
    BY <2>2, <2>3, <2>4, <2>5, Zenon DEF Work
<1>4. \A u, v : /\ [w[r] EXCEPT !.meta = v].op = w[r].op
                /\ [w[r] EXCEPT !.seen = v].op = w[r].op
                /\ [w[r] EXCEPT !.tries = v].op = w[r].op
                /\ [w[r] EXCEPT !.handle = u, !.meta = v].op = w[r].op
                /\ [w[r] EXCEPT !.staged = u, !.seen = v].op = w[r].op
  BY <1>1, SMTT(30) DEF Local
<1>5. CASE \E a : Found(r, w[r], a)
  BY <1>1, <1>2, <1>5, FoundGoes, Zenon
<1>6. CASE \E at \in Steps \ Idling : \E v : Goes(r, at, [w[r] EXCEPT !.meta = v])
  BY Zenon, <1>2, <1>4, <1>6
<1>7. CASE \E at \in Steps \ Idling : \E v : Goes(r, at, [w[r] EXCEPT !.seen = v])
  BY Zenon, <1>2, <1>4, <1>7
<1>8. CASE \E at \in Steps \ Idling : \E v : Goes(r, at, [w[r] EXCEPT !.tries = v])
  BY Zenon, <1>2, <1>4, <1>8
<1>9. CASE \E at \in Steps \ Idling : \E u, v : Goes(r, at, [w[r] EXCEPT !.handle = u, !.meta = v])
  <2>0. PICK at \in Steps \ Idling : \E u, v : Goes(r, at, [w[r] EXCEPT !.handle = u, !.meta = v])
    BY Zenon, <1>9
  <2>1. PICK u, v : Goes(r, at, [w[r] EXCEPT !.handle = u, !.meta = v])
    BY Zenon, <2>0
  <2>2. [w[r] EXCEPT !.handle = u, !.meta = v].op = w[r].op
    BY <1>1, Zenon DEF Local
  <2> DEFINE m == [w[r] EXCEPT !.handle = u, !.meta = v]
  <2>3. Goes(r, at, m) /\ m.op = w[r].op
    BY <2>1, <2>2, Zenon
  <2> HIDE DEF m
  <2>4. QED
    BY Zenon, <1>2, <2>3
<1>10. CASE \E at \in Steps \ Idling : \E u, v : Goes(r, at, [w[r] EXCEPT !.staged = u, !.seen = v])
  <2>0. PICK at \in Steps \ Idling : \E u, v : Goes(r, at, [w[r] EXCEPT !.staged = u, !.seen = v])
    BY Zenon, <1>10
  <2>1. PICK u, v : Goes(r, at, [w[r] EXCEPT !.staged = u, !.seen = v])
    BY Zenon, <2>0
  <2>2. [w[r] EXCEPT !.staged = u, !.seen = v].op = w[r].op
    BY <1>1, Zenon DEF Local
  <2> DEFINE m == [w[r] EXCEPT !.staged = u, !.seen = v]
  <2>3. Goes(r, at, m) /\ m.op = w[r].op
    BY <2>1, <2>2, Zenon
  <2> HIDE DEF m
  <2>4. QED
    BY Zenon, <1>2, <2>3
<1>11. CASE \E at \in Steps \ Idling : Goes(r, at, w[r])
  BY Zenon, <1>2, <1>11
<1>12. QED
  BY Zenon, <1>2, <1>3, <1>5, <1>6, <1>7, <1>8, <1>9, <1>10, <1>11

LEMMA OneMoves ==
    ASSUME FileInv, NEW r \in Requests, NEW at, NEW l,
           pc' = [pc EXCEPT ![r] = at], w' = [w EXCEPT ![r] = l]
    PROVE  /\ pc'[r] = at /\ w'[r] = l
           /\ \A x \in Requests \ {r} : pc'[x] = pc[x] /\ w'[x] = w[x]
BY Zenon DEF FileInv

LEMMA SamePlaces == ASSUME NEW q, NEW r PROVE KeepsPlaces(q, q, r)
BY Zenon DEF KeepsPlaces

LEMMA WorkKeepsLocks ==
    ASSUME FileInv, LockInv, NEW r \in Requests, Work(r)
    PROVE  LockInv'
<1>1. CASE Ends(r)
  <2>1. /\ pc'[r] = "idle"
        /\ \A x \in Requests \ {r} : pc'[x] = pc[x] /\ w'[x] = w[x]
    BY <1>1, OneMoves, Zenon DEF Ends
  <2>2. queue' = Unlocked(r) /\ detached' = detached \ {r}
    BY <1>1, Zenon DEF Ends
  <2>3. Holds(queue', w'[r].op, pc'[r], r, detached')
    BY <2>1, Zenon DEF Holds, Idling
  <2>4. QED
    BY <2>1, <2>2, <2>3, UnlockedKeeps, LockInvStep, Zenon
<1>2. ASSUME NEW at \in Steps \ Idling, NEW m, Goes(r, at, m), m.op = w[r].op PROVE LockInv'
  <2>1. /\ pc'[r] = at /\ w'[r] = m
        /\ \A x \in Requests \ {r} : pc'[x] = pc[x] /\ w'[x] = w[x]
    BY <1>2, OneMoves, Zenon DEF Goes
  <2>2. queue' = queue /\ detached' = detached
    BY <1>2, Zenon DEF Goes
  <2>3. Holds(queue, w[r].op, pc[r], r, detached) /\ pc[r] \notin Idling
    BY WorkGoes, Zenon DEF LockInv
  <2>4. Holds(queue', w'[r].op, pc'[r], r, detached')
    BY <1>2, <2>1, <2>2, <2>3, Zenon DEF Holds, Idling
  <2>5. queue' \in [Stripes -> Seq(Requests)]
    BY <2>2, Zenon DEF LockInv
  <2>6. \A x \in Requests : KeepsPlaces(queue, queue', x)
    BY <2>2, SamePlaces, Zenon
  <2>7. QED
    BY <2>1, <2>2, <2>4, <2>5, <2>6, LockInvStep, Zenon
<1>3. QED
  BY <1>1, <1>2, WorkGoes, Zenon

\* A request joins the line of one more stripe.
LEMMA JoinsLine ==
    ASSUME LockInv, NEW r \in Requests, NEW s \in Stripes,
           queue' = [queue EXCEPT ![s] = Append(@, r)]
    PROVE  /\ queue' \in [Stripes -> Seq(Requests)]
           /\ \A x \in Requests : KeepsPlaces(queue, queue', x)
           /\ Waits(queue'[s], r)
<1>1. queue \in [Stripes -> Seq(Requests)]
  BY Zenon DEF LockInv
<1>2. \A t \in Stripes : queue'[t] = IF t = s THEN Append(queue[t], r) ELSE queue[t]
  BY <1>1, Zenon
<1>3. \A t \in Stripes : queue'[t] \in Seq(Requests)
  BY <1>1, <1>2, AppendKeeps, Zenon
<1>4. queue' \in [Stripes -> Seq(Requests)]
  BY <1>1, <1>3, Zenon
<1>5. Waits(queue'[s], r)
  BY <1>1, <1>2, AppendKeeps, Zenon
<1>6. \A x \in Requests : KeepsPlaces(queue, queue', x)
  BY <1>1, <1>2, AppendKeeps, Zenon DEF KeepsPlaces
<1>7. QED
  BY <1>4, <1>5, <1>6, Zenon

LEMMA FirstInLine ==
    ASSUME NEW line, NEW r, Waits(line, r), line[1] = r
    PROVE  Heads(line, r)
BY DEF Waits, Heads

LEMMA AskKeepsLocks ==
    ASSUME FileInv, LockInv, NEW r \in Requests, NEW o \in Asked, Ask(r, o)
    PROVE  LockInv'
<1> DEFINE l == [Blank EXCEPT !.op = o]
<1>0. w' = [w EXCEPT ![r] = l]
  BY Zenon DEF Ask
<1>1. detached' = detached /\ l.op = o
  BY Zenon DEF Ask, Blank
<1> HIDE DEF l
<1>2. CASE Locks(o) = <<>> /\ pc' = [pc EXCEPT ![r] = Start(o)] /\ queue' = queue
  <2> DEFINE at == Start(o)
  <2>0. pc' = [pc EXCEPT ![r] = at] /\ at \notin Idling
    BY <1>2, Zenon DEF Start, Idling
  <2> HIDE DEF at
  <2>1. /\ pc'[r] = at /\ w'[r] = l
        /\ \A x \in Requests \ {r} : pc'[x] = pc[x] /\ w'[x] = w[x]
    BY <1>0, <2>0, OneMoves, Zenon
  <2>2. w'[r].op = o
    BY <1>1, <2>1, Zenon
  <2>3. Holds(queue', w'[r].op, pc'[r], r, detached')
    <3>1. Holds(queue', o, at, r, detached')
      BY <1>2, <2>0 DEF Holds, Idling
    <3>2. QED
      BY <2>1, <2>2, <3>1, Zenon
  <2>4. queue' \in [Stripes -> Seq(Requests)] /\ \A x \in Requests : KeepsPlaces(queue, queue', x)
    BY <1>2, SamePlaces, Zenon DEF LockInv
  <2>5. QED
    BY <1>1, <2>1, <2>3, <2>4, LockInvStep, Zenon
<1>3. CASE /\ Locks(o) # <<>> /\ queue' = [queue EXCEPT ![Locks(o)[1]] = Append(@, r)]
           /\ pc' = [pc EXCEPT ![r] = "lock"]
  <2>0. /\ pc'[r] = "lock" /\ w'[r] = l
        /\ \A x \in Requests \ {r} : pc'[x] = pc[x] /\ w'[x] = w[x]
    BY <1>0, <1>3, OneMoves, Zenon
  <2>1. w'[r].op = o /\ pc'[r] = "lock"
    BY <1>1, <2>0, Zenon
  <2>2. Locks(o)[1] \in Stripes
    BY <1>3, LocksOfARequest
  <2>3. /\ queue' \in [Stripes -> Seq(Requests)]
        /\ \A x \in Requests : KeepsPlaces(queue, queue', x)
        /\ Waits(queue'[Locks(o)[1]], r)
    BY <1>3, <2>2, JoinsLine, Zenon
  <2>4. Holds(queue', w'[r].op, pc'[r], r, detached')
    BY <1>3, <2>1, <2>3, Zenon DEF Holds, Idling
  <2>5. QED
    BY <1>1, <2>0, <2>3, <2>4, LockInvStep, Zenon
<1>4. QED
  BY <1>2, <1>3, Zenon DEF Ask

LEMMA LockKeepsLocks ==
    ASSUME FileInv, LockInv, NEW r \in Requests, Lock(r) \/ LockPair(r)
    PROVE  LockInv'
<1> DEFINE o == w[r].op
           ls == Locks(o)
           at == Start(o)
<1>1. o \in Asked /\ Holds(queue, o, pc[r], r, detached) /\ at \notin {"idle", "lock", "pair"}
  BY OpIsAsked, Zenon DEF Lock, LockPair, LockInv, Start
<1>2. w' = w /\ detached' = detached
  BY ZenonT(30) DEF Lock, LockPair
<1>3. /\ DOMAIN ls = 1 .. Len(ls) /\ Len(ls) \in 0 .. 2 /\ \A i \in DOMAIN ls : ls[i] \in Stripes
      /\ pc[r] = "lock" => Waits(queue[ls[1]], r)
      /\ pc[r] = "pair" => Len(ls) = 2 /\ Heads(queue[ls[1]], r) /\ Waits(queue[ls[2]], r)
  <2>1. DOMAIN ls = 1 .. Len(ls) /\ Len(ls) \in 0 .. 2 /\ \A i \in DOMAIN ls : ls[i] \in Stripes
    BY <1>1, LocksOfARequest, Zenon
  <2>2. QED
    BY <1>1, <2>1, Zenon DEF Holds
<1>4. ASSUME queue' = queue, pc' = [pc EXCEPT ![r] = at],
             \A i \in DOMAIN ls : Heads(queue[ls[i]], r)
      PROVE  LockInv'
  <2>1. pc'[r] = at /\ \A x \in Requests \ {r} : pc'[x] = pc[x] /\ w'[x] = w[x]
    BY <1>2, <1>4, Zenon DEF FileInv
  <2>2. Holds(queue', w'[r].op, pc'[r], r, detached')
    <3> HIDE DEF at
    <3>1. QED
      BY <1>1, <1>2, <1>4, <2>1, Zenon DEF Holds, Idling
  <2>3. queue' \in [Stripes -> Seq(Requests)] /\ \A x \in Requests : KeepsPlaces(queue, queue', x)
    BY <1>4, SamePlaces, Zenon DEF LockInv
  <2>4. QED
    BY <1>2, <2>1, <2>2, <2>3, LockInvStep, Zenon
<1>5. CASE pc[r] = "lock" /\ queue[ls[1]][1] = r /\ Len(ls) = 1
           /\ pc' = [pc EXCEPT ![r] = at] /\ queue' = queue
  <2>0. Waits(queue[ls[1]], r) /\ queue[ls[1]][1] = r
    BY <1>3, <1>5, Zenon
  <2>1. Heads(queue[ls[1]], r)
    BY <2>0, FirstInLine, Zenon
  <2>2. \A i \in DOMAIN ls : i = 1
    BY <1>3, <1>5
  <2>3. QED
    BY <1>4, <1>5, <2>1, <2>2, Zenon
<1>6. CASE pc[r] = "lock" /\ queue[ls[1]][1] = r /\ Len(ls) = 2
           /\ queue' = [queue EXCEPT ![ls[2]] = Append(@, r)] /\ pc' = [pc EXCEPT ![r] = "pair"]
  <2>0. Waits(queue[ls[1]], r) /\ queue[ls[1]][1] = r
    BY <1>3, <1>6, Zenon
  <2>1. Heads(queue[ls[1]], r)
    BY <2>0, FirstInLine, Zenon
  <2>2. ls[1] \in Stripes /\ ls[2] \in Stripes
    BY <1>3, <1>6
  <2>3. /\ queue' \in [Stripes -> Seq(Requests)]
        /\ \A x \in Requests : KeepsPlaces(queue, queue', x)
        /\ Waits(queue'[ls[2]], r)
    BY <1>6, <2>2, JoinsLine, Zenon
  <2>4. Heads(queue'[ls[1]], r)
    BY <2>1, <2>2, <2>3, Zenon DEF KeepsPlaces
  <2>5. pc'[r] = "pair" /\ \A x \in Requests \ {r} : pc'[x] = pc[x] /\ w'[x] = w[x]
    BY <1>2, <1>6, Zenon DEF FileInv
  <2>6. Holds(queue', w'[r].op, pc'[r], r, detached')
    BY <1>2, <1>6, <2>3, <2>4, <2>5, Zenon DEF Holds, Idling
  <2>7. QED
    BY <1>2, <2>3, <2>5, <2>6, LockInvStep, Zenon
<1>7. CASE pc[r] = "pair" /\ queue[ls[2]][1] = r /\ pc' = [pc EXCEPT ![r] = at] /\ queue' = queue
  <2>1. Heads(queue[ls[1]], r) /\ Heads(queue[ls[2]], r) /\ Len(ls) = 2
    <3>1. /\ Len(ls) = 2 /\ Heads(queue[ls[1]], r)
          /\ Waits(queue[ls[2]], r) /\ queue[ls[2]][1] = r
      BY <1>3, <1>7, Zenon
    <3>2. QED
      BY <3>1, FirstInLine, Zenon
  <2>2. \A i \in DOMAIN ls : i = 1 \/ i = 2
    BY <1>3, <2>1
  <2>3. QED
    BY <1>4, <1>7, <2>1, <2>2, Zenon
<1>8. QED
  BY <1>5, <1>6, <1>7, Zenon DEF Lock, LockPair

LEMMA CancelKeepsLocks ==
    ASSUME FileInv, LockInv, NEW r \in Requests, Cancel(r)
    PROVE  LockInv'
<1>1. queue' = Unlocked(r)
  BY Zenon DEF Cancel, Ends
<1>2. /\ \A x \in Requests \ {r} :
             pc'[x] = pc[x] /\ w'[x] = w[x] /\ (x \in detached => x \in detached')
      /\ pc'[r] = "idle" \/ (pc'[r] \notin Idling /\ r \in detached')
  <2>1. CASE Ends(r)
    BY <2>1, OneMoves, Zenon DEF Ends
  <2>2. CASE Working(r) /\ detached' = detached \cup {r} /\ UNCHANGED <<pc, w>>
    BY <2>2, Zenon DEF Working, Idling
  <2>3. QED
    BY <2>1, <2>2, Zenon DEF Cancel
<1>3. Holds(queue', w'[r].op, pc'[r], r, detached')
  BY <1>2, Zenon DEF Holds, Idling
<1>4. QED
  BY <1>1, <1>2, <1>3, UnlockedKeeps, LockInvStep, Zenon

LEMMA CrashKeepsLocks ==
    ASSUME LockInv, Crash
    PROVE  LockInv'
<1>1. queue' = [s \in Stripes |-> <<>>] /\ pc' = [r \in Requests |-> "idle"]
  BY Zenon DEF Crash, LockInv
<1>2. queue' \in [Stripes -> Seq(Requests)]
  BY <1>1
<1>3. QED
  BY <1>1, <1>2, Zenon DEF LockInv, Holds, Idling

----------------------------------------------------------------------------
\* Two writers of one key do not both hold its stripe.
LEMMA OneWriter ==
    ASSUME FileInv, LockInv, NEW x \in Requests, NEW r \in Requests,
           pc[x] \notin Idling, pc[r] \notin Idling, x \notin detached, r \notin detached,
           w[x].op.kind \notin {"get", "head"}, w[r].op.kind \notin {"get", "head"},
           w[x].op.key = w[r].op.key
    PROVE  x = r
<1>1. /\ w[x].op \in Asked /\ Holds(queue, w[x].op, pc[x], x, detached)
      /\ w[r].op \in Asked /\ Holds(queue, w[r].op, pc[r], r, detached)
  BY OpIsAsked, Zenon DEF LockInv, Idling
<1>2. PICK i \in DOMAIN Locks(w[x].op) : Locks(w[x].op)[i] = Stripe[w[x].op.key]
  BY <1>1, LocksOfARequest, Zenon
<1>3. PICK j \in DOMAIN Locks(w[r].op) : Locks(w[r].op)[j] = Stripe[w[r].op.key]
  BY <1>1, LocksOfARequest, Zenon
<1>4. Heads(queue[Stripe[w[x].op.key]], x) /\ Heads(queue[Stripe[w[r].op.key]], r)
  BY <1>1, <1>2, <1>3, Zenon DEF Holds
<1>5. QED
  BY <1>4, Zenon DEF Heads

\* What the steps of a request do to the notes of who changed its key.
LEMMA WorkSince ==
    ASSUME FileInv, NEW r \in Requests, Work(r)
    PROVE  \/ since' = [since EXCEPT ![r] = {}]
           \/ since' = since /\ (pc[r] \in Looked \/ pc'[r] \in {"idle", "prune"})
           \/ Changed(r, w[r].op.key) /\ pc[r] \in {"rename", "unlink"}
<1>1. CASE Stat(r) \/ Open(r)
  BY <1>1, Zenon DEF Stat, Open
<1>2. CASE LoadFresh(r) \/ Load(r) \/ Hash(r) \/ Repair(r) \/ Mkdir(r) \/ Temp(r)
  BY <1>2, Zenon DEF LoadFresh, Load, Hash, Repair, Mkdir, Temp, Looked
<1>3. CASE Read(r) \/ Record(r) \/ Prune(r)
  <2>1. since' = since /\ Ends(r)
    BY <1>3, Zenon DEF Read, Record, Prune
  <2>2. pc'[r] = "idle"
    BY <2>1, Zenon DEF Ends, FileInv
  <2>3. QED
    BY <2>1, <2>2, Zenon
<1>4. CASE Unrecord(r)
  BY <1>4, Zenon DEF Unrecord, Goes, FileInv
<1>5. CASE Rename(r) \/ Unlink(r)
  BY <1>5, Zenon DEF Rename, Unlink, Looked
<1>6. QED
  BY <1>1, <1>2, <1>3, <1>4, <1>5, Zenon DEF Work

LEMMA WorkIsSerial ==
    ASSUME FileInv, LockInv, SerialInv, NEW r \in Requests, Work(r)
    PROVE  SerialInv'
<1> DEFINE Writes(x) == pc[x] \in Writing
                        /\ w[x].op.kind \notin {"get", "head"}
           Now(x) == pc'[x] \in Writing
                     /\ w'[x].op.kind \notin {"get", "head"}
<1>1. since \in [Requests -> SUBSET {"server", "detached"}]
      /\ \A x \in Requests : Writes(x) => "server" \notin since[x]
  BY Zenon DEF SerialInv
<1>2. /\ pc[r] \notin Idling
      /\ \A x \in Requests \ {r} : pc'[x] = pc[x] /\ w'[x] = w[x]
      /\ pc'[r] = "idle" \/ w'[r].op = w[r].op
  <2>1. CASE Ends(r)
    BY <2>1, OneMoves, WorkGoes, Zenon DEF Ends
  <2>2. ASSUME NEW at \in Steps \ Idling, NEW m, Goes(r, at, m), m.op = w[r].op
        PROVE  /\ \A x \in Requests \ {r} : pc'[x] = pc[x] /\ w'[x] = w[x]
               /\ w'[r].op = w[r].op
    BY <2>2, OneMoves, Zenon DEF Goes
  <2>3. QED
    BY <2>1, <2>2, WorkGoes, Zenon
<1>3. \A x \in Requests \ {r} : Now(x) => Writes(x)
  BY <1>2, Zenon
<1>4. "idle" \notin Writing /\ "prune" \notin Writing
  BY Zenon DEF Looked, Writing
<1>5. CASE since' = [since EXCEPT ![r] = {}]
  <2>1. \A x \in Requests : since'[x] = IF x = r THEN {} ELSE since[x]
    BY <1>1, <1>5, Zenon
  <2>2. \A x \in Requests : Now(x) => "server" \notin since'[x]
    BY <1>1, <1>3, <2>1, Zenon
  <2>3. QED
    BY <1>1, <1>5, <2>2, Zenon DEF SerialInv
<1>6. CASE since' = since /\ (pc[r] \in Looked \/ pc'[r] \in {"idle", "prune"})
  <2>1. Now(r) => Writes(r)
    BY <1>2, <1>4, <1>6, Zenon DEF Writing
  <2>2. \A x \in Requests : Now(x) => "server" \notin since'[x]
    BY <1>1, <1>3, <1>6, <2>1, Zenon
  <2>3. QED
    BY <1>1, <1>6, <2>2, Zenon DEF SerialInv
<1>7. CASE Changed(r, w[r].op.key) /\ pc[r] \in {"rename", "unlink"}
  <2>1. Good(w[r], pc[r], inodes, clock)
    BY <1>7, GoodHere, Zenon
  <2>2. w[r].op.kind \notin {"get", "head"}
    BY <1>7, <2>1, Zenon DEF Good
  <2> DEFINE who(x) == IF detached \cap {r, x} # {} THEN "detached" ELSE "server"
             hit(x) == x # r /\ pc[x] \in Looked /\ w[x].op.key = w[r].op.key
  <2>3. since' = [x \in Requests |-> IF hit(x) THEN since[x] \cup {who(x)} ELSE since[x]]
    BY <1>7, Zenon DEF Changed
  <2>4. since' \in [Requests -> SUBSET {"server", "detached"}]
    BY <1>1, <2>3, Zenon
  <2>5. ASSUME NEW x \in Requests, Writes(x), hit(x) PROVE "server" \notin since'[x]
    <3>1. pc[x] \notin Idling
      BY <2>5, Zenon DEF Looked, Idling
    <3>2. detached \cap {r, x} # {}
      <4>1. SUFFICES ASSUME detached \cap {r, x} = {} PROVE FALSE
        BY Zenon
      <4>2. r \notin detached /\ x \notin detached
        BY <4>1, Zenon
      <4>3. x = r
        BY <1>2, <2>2, <2>5, <3>1, <4>2, OneWriter, Zenon
      <4>4. QED
        BY <2>5, <4>3, Zenon
    <3>3. since'[x] = since[x] \cup {"detached"}
      BY <2>3, <2>5, <3>2, Zenon
    <3>4. QED
      BY <1>1, <2>5, <3>3, Zenon
  <2>6. \A x \in Requests : ~hit(x) => since'[x] = since[x]
    BY <2>3, Zenon
  <2>7. Now(r) => Writes(r)
    BY <1>2, <1>4, <1>7, Zenon DEF Looked, Writing
  <2> HIDE DEF hit
  <2>8. \A x \in Requests : Now(x) => "server" \notin since'[x]
    BY <1>1, <1>3, <2>5, <2>6, <2>7, Zenon
  <2>9. QED
    BY <2>4, <2>8, Zenon DEF SerialInv
<1>8. QED
  BY <1>5, <1>6, <1>7, WorkSince, Zenon

LEMMA AskIsSerial ==
    ASSUME FileInv, SerialInv, NEW r \in Requests, NEW o \in Asked, Ask(r, o)
    PROVE  SerialInv'
<1>1. since' = [since EXCEPT ![r] = {}] /\ since \in [Requests -> SUBSET {"server", "detached"}]
  BY Zenon DEF Ask, SerialInv
<1>2. \A x \in Requests \ {r} : pc'[x] = pc[x] /\ w'[x] = w[x] /\ since'[x] = since[x]
  BY <1>1, Zenon DEF Ask, FileInv
<1>3. since'[r] = {}
  BY <1>1, Zenon
<1>4. QED
  BY <1>1, <1>2, <1>3, Zenon DEF SerialInv

LEMMA LockIsSerial ==
    ASSUME FileInv, SerialInv, NEW r \in Requests, Lock(r) \/ LockPair(r)
    PROVE  SerialInv'
<1>1. w' = w /\ since' = since /\ pc[r] \in {"lock", "pair"}
  BY Zenon DEF Lock, LockPair
<1>2. \A x \in Requests \ {r} : pc'[x] = pc[x]
  BY Zenon DEF Lock, LockPair, FileInv
<1>3. \A x \in Requests : pc'[x] \in Writing => pc[x] \in Writing
  BY <1>1, <1>2, Zenon DEF Writing
<1>4. QED
  BY <1>1, <1>3, Zenon DEF SerialInv

\* A step that leaves the notes alone and brings nobody to work.
LEMMA StopsAreSerial ==
    ASSUME SerialInv, since' = since,
           \A x \in Requests : pc'[x] = "idle" \/ (pc'[x] = pc[x] /\ w'[x] = w[x])
    PROVE  SerialInv'
<1>1. "idle" \notin Writing
  BY Zenon DEF Writing, Looked
<1>2. QED
  BY <1>1, Zenon DEF SerialInv

serving == <<queue, pc, w, detached, since>>

LEMMA OthersKeepLocks ==
    ASSUME LockInv, SerialInv, UNCHANGED serving
    PROVE  LockInv' /\ SerialInv'
<1>1. queue' = queue /\ pc' = pc /\ w' = w /\ detached' = detached /\ since' = since
  BY Zenon DEF serving
<1>2. QED
  BY <1>1, Zenon DEF LockInv, SerialInv

LEMMA WriteInvStep ==
    ASSUME WriteInv, [Next]_vars
    PROVE  WriteInv'
<1>1. FileInv /\ LockInv /\ SerialInv
  BY Zenon DEF WriteInv
<1>2. FileInv'
  BY <1>1, FileInvStep, Zenon
<1> SUFFICES LockInv' /\ SerialInv'
  BY <1>2, Zenon DEF WriteInv
<1>3. ASSUME NEW r \in Requests, Step(r) PROVE LockInv' /\ SerialInv'
  <2>1. Work(r) \/ Lock(r) \/ LockPair(r)
    BY <1>3, Zenon DEF Step, Work
  <2>2. QED
    BY <1>1, <2>1, WorkKeepsLocks, WorkIsSerial, LockKeepsLocks, LockIsSerial, Zenon
<1>4. ASSUME NEW r \in Requests, Cancel(r) PROVE LockInv' /\ SerialInv'
  <2>1. since' = since /\ \A x \in Requests : pc'[x] = "idle" \/ (pc'[x] = pc[x] /\ w'[x] = w[x])
    <3>1. CASE Ends(r)
      BY <1>1, <1>4, <3>1, OneMoves, Zenon DEF Cancel, Ends
    <3>2. CASE UNCHANGED <<pc, w>>
      BY <1>4, <3>2, Zenon DEF Cancel
    <3>3. QED
      BY <1>4, <3>1, <3>2, Zenon DEF Cancel
  <2>2. QED
    BY <1>1, <1>4, <2>1, CancelKeepsLocks, StopsAreSerial, Zenon
<1>5. ASSUME NEW r \in Requests, NEW o \in Asked, Ask(r, o) PROVE LockInv' /\ SerialInv'
  BY <1>1, <1>5, AskKeepsLocks, AskIsSerial, Zenon
<1>6. CASE Crash
  <2>1. since' = since /\ \A x \in Requests : pc'[x] = "idle" \/ (pc'[x] = pc[x] /\ w'[x] = w[x])
    BY <1>6, Zenon DEF Crash
  <2>2. SerialInv'
    BY <1>1, <2>1, StopsAreSerial, Zenon
  <2>3. QED
    BY <1>1, <1>6, <2>2, CrashKeepsLocks, Zenon
<1>7. CASE UNCHANGED serving
  BY <1>1, <1>7, OthersKeepLocks, Zenon
<1>8. ASSUME NEW k \in Keys, NEW b \in Bodies, EditRemoves(k) \/ EditByRename(k, b) \/ EditInPlace(k, b)
      PROVE  UNCHANGED serving
  BY <1>8, Zenon DEF EditRemoves, EditByRename, EditInPlace, Edited, serving
<1>9. ASSUME NEW k \in Keys, EditRemoves(k) PROVE UNCHANGED serving
  BY <1>9, Zenon DEF EditRemoves, Edited, serving
<1>10. EditRemovesDir \/ UNCHANGED vars => UNCHANGED serving
  BY Zenon DEF EditRemovesDir, Edited, vars, serving
<1>11. QED
  BY <1>3, <1>4, <1>5, <1>6, <1>7, <1>8, <1>9, <1>10, Zenon DEF Next

(***************************************************************************)
(* KeyLocks makes conditional writes atomic among the server's own         *)
(* requests: for every number of requests, stripes and keys, a put, copy   *)
(* or delete lands on the object whose preconditions it checked, unless    *)
(* the request was dropped while its blocking work ran.                    *)
(***************************************************************************)
THEOREM LockedWritesAreSerial == Spec => []WritesAreSerial
<1>1. Init => WriteInv
  <2> SUFFICES ASSUME Init PROVE WriteInv
    BY Zenon
  <2>1. FileInv
    BY FilesAtFirst, Zenon
  <2>2. /\ queue = [s \in Stripes |-> <<>>] /\ pc = [r \in Requests |-> "idle"]
        /\ since = [r \in Requests |-> {}]
    BY Zenon DEF Init, Stripes
  <2>3. LockInv
    BY <2>2 DEF LockInv, Holds, Idling
  <2>4. SerialInv
    BY <2>2, Zenon DEF SerialInv
  <2>5. QED
    BY <2>1, <2>3, <2>4, Zenon DEF WriteInv
<1>2. WriteInv /\ [Next]_vars => WriteInv'
  BY WriteInvStep, Zenon
<1>3. WriteInv => WritesAreSerial
  <2> SUFFICES ASSUME WriteInv, NEW r \in Requests, pc[r] \in {"record", "unrecord"}
               PROVE  "server" \notin since[r]
    BY Zenon DEF WritesAreSerial
  <2>1. Good(w[r], pc[r], inodes, clock)
    BY GoodHere, Zenon DEF WriteInv
  <2>2. w[r].op.kind \notin {"get", "head"}
    BY <2>1, Zenon DEF Good
  <2>3. QED
    BY <2>2, Zenon DEF WriteInv, SerialInv, Writing
<1>4. QED
  BY <1>1, <1>2, <1>3, PTL DEF Spec

=============================================================================
