---- MODULE S3Storage ----
(***************************************************************************)
(* The S3 adapter (storage-s3 storage.rs): what each operation sends, and  *)
(* what it makes of the answer, up to the status of the HTTP API.  The     *)
(* object store is external: it takes a request whole, or not at all, and  *)
(* its answer may be lost, in which case the SDK sends the request again.  *)
(***************************************************************************)
EXTENDS Naturals, FiniteSets, TLAPS

CONSTANTS Clients, Keys, Etags, MaxFaults, None,
          AnyEtag         \* If-Match: *

\* None is neither an answer's code nor a Boolean.
ASSUME NoneAssumption == None \notin {"NoSuchBucket", "NoSuchKey", "NotFound"} /\ None \notin BOOLEAN

VARIABLES
    bucket,         \* whether the knowledge base's bucket is there
    store,          \* the etag under each key, or None
    op,             \* each client's operation, see Idle
    faults

vars == <<bucket, store, op, faults>>

\* im: an If-Match etag, AnyEtag or None; inm: If-None-Match: *.  raced, found,
\* did and resent are history: whether another write came between the HEAD
\* and the write, what the write found, that it was made, and sent twice.
Request(kind, key, src, im, inm, etag) ==
    [pc |-> "idle", kind |-> kind, key |-> key, src |-> src, im |-> im, inm |-> inm, etag |-> etag, existed |-> None,
     raced |-> FALSE, found |-> None, did |-> FALSE, resent |-> FALSE, result |-> None]
Idle == Request(None, None, None, None, FALSE, None)

Init ==
    /\ bucket = TRUE /\ store \in [Keys -> Etags \cup {None}]
    /\ op = [c \in Clients |-> Idle] /\ faults = 0

(***************************************************************************)
(* What S3 answers (external).  A HEAD has no body, so its 404 says not    *)
(* what is missing.                                                        *)
(***************************************************************************)
Success == [status |-> 200, code |-> None]
Missing(kind) == IF kind = "head" THEN [status |-> 404, code |-> "NotFound"]
                 ELSE [status |-> 404, code |-> IF bucket THEN "NoSuchKey" ELSE "NoSuchBucket"]
Status(s) == [status |-> s, code |-> "other"]
Unreachable == [status |-> 0, code |-> None]

Matches(im, etag) == im = None \/ (etag # None /\ im \in {AnyEtag, etag})

Answer(o) ==
    LET there == store[o.key] IN
    CASE ~bucket -> IF o.kind = "ensure_bucket" THEN Success ELSE Missing(IF o.kind = "probe" THEN "head" ELSE o.kind)
      [] bucket /\ o.kind = "ensure_bucket" -> [status |-> 409, code |-> "BucketAlreadyOwnedByYou"]
      [] bucket /\ o.kind \in {"probe", "list"} -> Success
      [] bucket /\ o.kind \in {"head", "get", "read_manifest"} ->
            IF there = None THEN Missing(o.kind)
            ELSE IF ~Matches(o.im, there) THEN Status(412)
            ELSE IF o.inm THEN Status(304) ELSE Success
      [] bucket /\ o.kind \in {"put", "write_manifest"} ->
            IF ~Matches(o.im, there) \/ (o.inm /\ there # None) THEN Status(412) ELSE Success
      [] bucket /\ o.kind = "copy" ->
            IF store[o.src] = None THEN Missing("copy")
            ELSE IF ~Matches(o.im, store[o.src]) \/ (o.inm /\ there # None) THEN Status(412) ELSE Success
      [] bucket /\ o.kind = "delete" -> IF there # None /\ ~Matches(o.im, there) THEN Status(412) ELSE Success

Written(o) == CASE o.kind \in {"put", "write_manifest"} -> o.etag [] o.kind = "copy" -> store[o.src] [] o.kind = "delete" -> None

(***************************************************************************)
(* The adapter's reading of an answer.                                     *)
(***************************************************************************)
IsNoSuchBucket(a) == a.code = "NoSuchBucket"
IsNotFound(a) == a.code \in {"NoSuchKey", "NotFound"}

MapGetError(a) ==
    CASE a.status = 304 -> "NotModified" [] a.status = 412 -> "PreconditionFailed"
      [] IsNoSuchBucket(a) -> "BucketNotFound" [] IsNotFound(a) -> "NotFound" [] OTHER -> "Other"
MapHeadError(a) == MapGetError(a)
MapPutError(a) ==
    CASE a.status = 412 -> "PreconditionFailed" [] IsNoSuchBucket(a) -> "BucketNotFound" [] OTHER -> "Other"
MapDeleteError(a) == IF IsNotFound(a) THEN "Ok" ELSE MapPutError(a)
MapCopyError(a) == IF IsNotFound(a) THEN "NotFound" ELSE MapPutError(a)
MapListError(a) == IF IsNoSuchBucket(a) THEN "BucketNotFound" ELSE "BackendUnavailable"
MapProbeError(a) == IF IsNoSuchBucket(a) \/ IsNotFound(a) THEN "BucketNotFound" ELSE "BackendUnavailable"
MapCreateBucketError(a) ==
    IF a.code \in {"BucketAlreadyOwnedByYou", "BucketAlreadyExists"} THEN "Ok" ELSE "BackendUnavailable"

\* The manifest is an object like any other, whose failures are all the
\* backend's.
MapReadManifestError(a) ==
    CASE IsNoSuchBucket(a) -> "BucketNotFound" [] IsNotFound(a) -> "NotFound" [] OTHER -> "BackendUnavailable"
MapWriteManifestError(a) == MapListError(a)

\* What each operation returns.
Else(a, error) == IF a.status = 200 THEN "Ok" ELSE error
HeadObject(a) == Else(a, MapHeadError(a))
GetObject(a) == Else(a, MapGetError(a))
PutObject(a) == Else(a, MapPutError(a))
CopyObject(a) == Else(a, MapCopyError(a))
DeleteObject(a) == Else(a, MapDeleteError(a))
ListObjects(a) == Else(a, MapListError(a))

Outcome(kind, a) ==
    CASE kind = "get" -> GetObject(a) [] kind = "head" -> HeadObject(a)
      [] kind = "put" -> PutObject(a) [] kind = "delete" -> DeleteObject(a)
      [] kind = "copy" -> CopyObject(a) [] kind = "list" -> ListObjects(a)
      [] kind = "read_manifest" -> Else(a, MapReadManifestError(a))
      [] kind = "write_manifest" -> Else(a, MapWriteManifestError(a))
      [] kind = "probe" -> Else(a, MapProbeError(a))
      [] kind = "ensure_bucket" -> Else(a, MapCreateBucketError(a))

\* The HTTP API's status of a storage error.
StorageStatus(result) ==
    CASE result = "Ok" -> 200 [] result \in {"NotFound", "BucketNotFound"} -> 404
      [] result = "NotModified" -> 304 [] result = "PreconditionFailed" -> 412
      [] result = "BackendUnavailable" -> 503 [] result = "Other" -> 500

(***************************************************************************)
(* The operations.  put and copy ask with a HEAD what they replace, unless *)
(* a precondition settles it.                                              *)
(***************************************************************************)
KeyExistsBySourceMatch(o) == IF o.inm THEN FALSE ELSE IF o.im # None THEN TRUE ELSE None

KeyExistsBeforeWrite(o) == IF o.inm THEN FALSE ELSE IF o.kind = "put" /\ o.im # None THEN TRUE ELSE None

Begin(c, o) ==
    /\ op[c].pc = "idle"
    /\ LET existed == IF o.kind \in {"put", "copy"} THEN KeyExistsBeforeWrite(o) ELSE TRUE
       IN  op' = [op EXCEPT ![c] = [o EXCEPT !.existed = existed,
                                             !.pc = IF existed = None THEN "head" ELSE "send"]]
    /\ UNCHANGED <<bucket, store, faults>>

\* how: the HEAD is answered, or it never arrives.
HeadBeforeWrite(c, how) ==
    /\ op[c].pc = "head"
    /\ how # "answered" => faults < MaxFaults
    /\ LET answer == IF how = "answered" THEN Answer([op[c] EXCEPT !.kind = "head", !.im = None]) ELSE Unreachable
           existed == IF answer.status = 200 THEN TRUE ELSE MapHeadError(answer) # "NotFound"
       IN  op' = [op EXCEPT ![c] = [@ EXCEPT !.pc = "send", !.raced = how # "answered", !.existed = existed]]
    /\ faults' = IF how = "answered" THEN faults ELSE faults + 1
    /\ UNCHANGED <<bucket, store>>

\* Once S3 has taken a write, everyone between their HEAD and their write on
\* its key has been overtaken.
Overtaken(c, o, writes) ==
    [d \in Clients |-> IF d # c /\ writes /\ op[d].pc = "send" /\ op[d].key = o.key
                       THEN [op[d] EXCEPT !.raced = TRUE] ELSE op[d]]

\* how: the request is answered; it never arrives; it is taken and the answer
\* lost for good; it is taken, the answer lost and the request sent again.
Send(c, how) ==
    /\ op[c].pc = "send"
    /\ how # "answered" => faults < MaxFaults
    /\ LET o == op[c]
           answer == Answer(o)
           writes == o.kind \in {"put", "copy", "delete", "write_manifest"} /\ answer.status = 200 /\ how # "unsent"
           taken == IF writes THEN [o EXCEPT !.did = TRUE, !.found = store[o.key]] ELSE o
           result == Outcome(o.kind, IF how = "answered" THEN answer ELSE Unreachable)
       IN  /\ store' = IF writes THEN [store EXCEPT ![o.key] = Written(o)] ELSE store
           /\ bucket' = (bucket \/ (o.kind = "ensure_bucket" /\ how # "unsent"))
           /\ op' = [Overtaken(c, o, writes) EXCEPT
                        ![c] = IF how = "resent" THEN [taken EXCEPT !.resent = TRUE]
                               ELSE [taken EXCEPT !.pc = "done", !.result = result]]
    /\ faults' = IF how = "answered" THEN faults ELSE faults + 1

\* The bucket is removed behind the server's back.
BucketRemoved ==
    /\ bucket /\ faults < MaxFaults /\ faults' = faults + 1
    /\ bucket' = FALSE /\ store' = [k \in Keys |-> None]
    /\ op' = [c \in Clients |-> IF op[c].pc = "send" THEN [op[c] EXCEPT !.raced = TRUE] ELSE op[c]]

Call(c) ==
    \/ \E kind \in {"list", "probe", "ensure_bucket"} : Begin(c, Request(kind, None, None, None, FALSE, None))
    \/ \E kind \in {"read_manifest", "write_manifest"}, k \in Keys, e \in Etags :
          Begin(c, Request(kind, k, None, None, FALSE, e))
    \/ \E kind \in {"get", "head", "delete"}, k \in Keys, im \in Etags \cup {None, AnyEtag}, inm \in BOOLEAN :
          Begin(c, Request(kind, k, None, im, inm, None))
    \/ \E k \in Keys, im \in Etags \cup {None, AnyEtag}, inm \in BOOLEAN, e \in Etags :
          Begin(c, Request("put", k, None, im, inm, e))
    \/ \E k \in Keys, src \in Keys, im \in Etags \cup {None}, inm \in BOOLEAN :
          k # src /\ Begin(c, Request("copy", k, src, im, inm, None))

Next ==
    \/ \E c \in Clients :
        \/ Call(c)
        \/ \E how \in {"answered", "unsent"} : HeadBeforeWrite(c, how)
        \/ \E how \in {"answered", "unsent", "lost", "resent"} : Send(c, how)
    \/ BucketRemoved

Spec == Init /\ [][Next]_vars

(***************************************************************************)
(* What a write reports is what it did.  Ok: it was made, and "created" is *)
(* what it found, unless another writer came between the HEAD and the      *)
(* write or the HEAD failed.  A refusal, 404 or 412: nothing was written,  *)
(* unless the SDK had sent the request before.  Only an error that says    *)
(* nothing may hide a write.                                               *)
(***************************************************************************)
WritesSayWhatTheyDid == \A c \in Clients : LET o == op[c] IN
    o.pc = "done" /\ o.kind \in {"put", "copy", "delete", "write_manifest"} =>
        /\ o.result = "Ok" => o.did
        /\ o.result = "Ok" /\ o.kind \in {"put", "copy"} /\ ~o.raced /\ ~o.resent => (o.existed <=> o.found # None)
        /\ o.result \in {"NotFound", "BucketNotFound", "PreconditionFailed", "NotModified"} /\ ~o.resent => ~o.did

(***************************************************************************)
(* docs/API.md: 503 backend_unavailable is "Storage backend unreachable or *)
(* returned an error".                                                     *)
(***************************************************************************)
UnreachableIs503 == \A c \in Clients :
    op[c].pc = "done" => StorageStatus(op[c].result) # 500

-----------------------------------------------------------------------------
(* WritesSayWhatTheyDid, for any number of clients, keys, etags and faults.  *)

WriteKinds == {"put", "copy", "delete", "write_manifest"}
Kinds == WriteKinds \cup {"get", "head", "list", "probe", "ensure_bucket", "read_manifest"}
Results == {"Ok", "NotFound", "BucketNotFound", "NotModified", "PreconditionFailed", "BackendUnavailable", "Other"}

Ops == [pc : {"idle", "head", "send", "done"}, kind : Kinds \cup {None}, key : Keys \cup {None},
        src : Keys \cup {None}, im : Etags \cup {None, AnyEtag}, inm : BOOLEAN, etag : Etags \cup {None},
        existed : BOOLEAN \cup {None}, raced : BOOLEAN, found : Etags \cup {None}, did : BOOLEAN,
        resent : BOOLEAN, result : Results \cup {None}]

TypeOK ==
    /\ bucket \in BOOLEAN
    /\ store \in [Keys -> Etags \cup {None}]
    /\ op \in [Clients -> Ops]

\* A request as its handler makes it.
Asked(o) ==
    /\ o.kind \in Kinds
    /\ o.kind \in WriteKinds => o.key \in Keys
    /\ o.kind \in {"put", "write_manifest"} => o.etag \in Etags
    /\ o.kind = "copy" => o.src \in Keys

\* What a put or a copy about to be sent knows of the key it replaces: the
\* precondition it sends settles it, or the HEAD's answer still holds.
Knows(o, objects) ==
    \/ o.inm /\ o.existed = FALSE
    \/ o.kind = "put" /\ o.im # None /\ o.existed = TRUE
    \/ o.existed \in BOOLEAN /\ (o.existed <=> objects[o.key] # None)

Sound(o, objects) ==
    /\ o.pc # "idle" => Asked(o)
    /\ o.pc = "head" => o.kind \in {"put", "copy"} /\ ~o.inm /\ ~o.did /\ ~o.raced /\ ~o.resent
    /\ o.pc = "send" /\ ~o.resent => ~o.did
    /\ o.pc = "send" /\ o.kind \in {"put", "copy"} /\ ~o.raced /\ ~o.resent => Knows(o, objects)

S3Inv ==
    /\ TypeOK
    /\ ~bucket => \A k \in Keys : store[k] = None
    /\ \A c \in Clients : Sound(op[c], store)
    /\ WritesSayWhatTheyDid

\* An answer that never came says nothing: the adapter reports an error, and
\* none that refuses the write.
LEMMA LostSaysNothing ==
    ASSUME NEW kind \in WriteKinds
    PROVE  Outcome(kind, Unreachable) \in {"Other", "BackendUnavailable"}
<1>1. Unreachable.status = 0 /\ Unreachable.code = None
    BY NoneAssumption DEF Unreachable
<1>2. ~IsNoSuchBucket(Unreachable) /\ ~IsNotFound(Unreachable)
    BY <1>1, NoneAssumption DEF IsNoSuchBucket, IsNotFound
<1> QED
    BY <1>1, <1>2 DEF WriteKinds, Outcome, PutObject, CopyObject, DeleteObject, Else, MapPutError, MapCopyError,
       MapDeleteError, MapWriteManifestError, MapListError

\* Every operation returns one of the results the storage trait names.
LEMMA OutcomeIsResult ==
    ASSUME NEW kind \in Kinds, NEW a
    PROVE  Outcome(kind, a) \in Results
  BY DEF Kinds, WriteKinds, Results, Outcome, GetObject, HeadObject, PutObject, CopyObject, DeleteObject, ListObjects,
     Else, MapGetError, MapHeadError, MapPutError, MapCopyError, MapDeleteError, MapListError, MapReadManifestError,
     MapWriteManifestError, MapProbeError, MapCreateBucketError

\* S3 takes a write exactly when its preconditions hold of what is there, and a
\* write it answers is Ok exactly when it took it.
LEMMA TakenWrites ==
    ASSUME TypeOK, NEW o \in Ops, Asked(o), o.kind \in WriteKinds, Answer(o).status = 200
    PROVE  /\ bucket
           /\ o.kind \in {"put", "copy"} /\ o.inm => store[o.key] = None
           /\ o.kind = "put" /\ o.im # None => store[o.key] # None
           /\ Written(o) \in Etags \cup {None}
<1>1. bucket
    BY DEF Answer, WriteKinds, Missing
<1>2. CASE o.kind \in {"put", "write_manifest"}
  <2>1. Matches(o.im, store[o.key]) /\ ~(o.inm /\ store[o.key] # None)
      BY <1>1, <1>2 DEF Answer, Status
  <2> QED
      BY <1>1, <1>2, <2>1 DEF Matches, Written, Asked
<1>3. CASE o.kind = "copy"
  <2>1. ~(o.inm /\ store[o.key] # None)
      BY <1>1, <1>3 DEF Answer, Status, Missing
  <2> QED
      BY <1>1, <1>3, <2>1 DEF Written, Asked, TypeOK
<1>4. CASE o.kind = "delete"
    BY <1>1, <1>4 DEF Written
<1> QED
    BY <1>2, <1>3, <1>4 DEF WriteKinds

\* delete_object reads a 404 as Ok, but S3 answers a delete of a missing key 200: Ok
\* is never a refusal.
LEMMA OkIsTaken ==
    ASSUME TypeOK, NEW o \in Ops, o.kind \in WriteKinds
    PROVE  (Outcome(o.kind, Answer(o)) = "Ok") <=> (Answer(o).status = 200)
<1>1. CASE Answer(o).status = 200
    BY <1>1 DEF WriteKinds, Outcome, PutObject, CopyObject, DeleteObject, Else
<1>2. CASE Answer(o).status # 200
  <2>1. CASE o.kind = "delete"
    <3>1. Answer(o).code \in {"NoSuchBucket", "other"}
        BY <1>2, <2>1 DEF Answer, Missing, Status, Success, TypeOK
    <3> QED
        BY <1>2, <2>1, <3>1 DEF Outcome, DeleteObject, Else, MapDeleteError, MapPutError, IsNotFound
  <2>2. CASE o.kind # "delete"
      BY <1>2, <2>2 DEF WriteKinds, Outcome, PutObject, CopyObject, Else, MapPutError, MapCopyError,
         MapWriteManifestError, MapListError
  <2> QED
      BY <2>1, <2>2
<1> QED
    BY <1>1, <1>2

\* A call that has not begun: what it asks for, and nothing done for it yet.
Fresh(o) ==
    /\ o \in Ops /\ Asked(o) /\ o.pc = "idle" /\ o.existed = None
    /\ ~o.did /\ ~o.raced /\ ~o.resent

\* What a handler asks for is a request no step has been taken for.
LEMMA RequestIsFresh ==
    ASSUME NEW kind \in Kinds, NEW key \in Keys \cup {None}, NEW src \in Keys \cup {None},
           NEW im \in Etags \cup {None, AnyEtag}, NEW inm \in BOOLEAN, NEW etag \in Etags \cup {None},
           kind \in WriteKinds => key \in Keys, kind \in {"put", "write_manifest"} => etag \in Etags,
           kind = "copy" => src \in Keys
    PROVE  Fresh(Request(kind, key, src, im, inm, etag))
  BY DEF Fresh, Request, Ops, Asked, Results

\* Every call begins with such a request.
LEMMA CallsAreFresh ==
    ASSUME NEW c \in Clients, Call(c)
    PROVE  \E o : Fresh(o) /\ Begin(c, o)
  BY RequestIsFresh DEF Call, Kinds, WriteKinds

\* It holds when no call has been made.
LEMMA S3Init ==
    ASSUME Init
    PROVE  S3Inv
<1>1. Idle \in Ops
    BY DEF Idle, Request, Ops, Kinds, Results
<1> QED
    BY <1>1 DEF Init, S3Inv, TypeOK, Sound, WritesSayWhatTheyDid, Idle, Request

\* What holds of a client and of the store it works on.
Right(o) ==
    o.pc = "done" /\ o.kind \in WriteKinds =>
        /\ o.result = "Ok" => o.did
        /\ o.result = "Ok" /\ o.kind \in {"put", "copy"} /\ ~o.raced /\ ~o.resent => (o.existed <=> o.found # None)
        /\ o.result \in {"NotFound", "BucketNotFound", "PreconditionFailed", "NotModified"} /\ ~o.resent => ~o.did

\* A call that begins knows what its precondition settles, and asks for the rest.
LEMMA BeginStep ==
    ASSUME S3Inv, NEW c \in Clients, NEW r, Fresh(r), Begin(c, r)
    PROVE  op' \in [Clients -> Ops] /\ \A d \in Clients : Sound(op'[d], store') /\ Right(op'[d])
<1> DEFINE e == IF r.kind \in {"put", "copy"} THEN KeyExistsBeforeWrite(r) ELSE TRUE
           p == IF e = None THEN "head" ELSE "send"
           n == [r EXCEPT !.existed = e, !.pc = p]
<1>1. /\ r \in Ops /\ Asked(r) /\ r.pc = "idle" /\ ~r.did /\ ~r.raced /\ ~r.resent
    BY DEF Fresh
<1>2. op' = [op EXCEPT ![c] = n] /\ store' = store
    BY DEF Begin
<1>3. e \in BOOLEAN \cup {None} /\ p \in {"head", "send"}
    BY <1>1 DEF KeyExistsBeforeWrite
<1>4. p = "head" => r.kind \in {"put", "copy"} /\ ~r.inm
  <2>1. TRUE # None /\ FALSE # None
      BY NoneAssumption
  <2> QED
      BY <2>1 DEF KeyExistsBeforeWrite
<1>5. p = "send" /\ r.kind \in {"put", "copy"}
          => (r.inm /\ e = FALSE) \/ (r.kind = "put" /\ r.im # None /\ e = TRUE)
    BY <1>1 DEF KeyExistsBeforeWrite
<1> HIDE DEF e, p
<1>6. n \in Ops /\ Asked(n) /\ ~n.did /\ ~n.raced /\ ~n.resent /\ n.existed = e /\ n.inm = r.inm /\ n.im = r.im
      /\ n.kind = r.kind /\ n.pc = p
  <2>1. n \in Ops
      BY <1>1, <1>3, ZenonT(30) DEF Ops
  <2>2. n.existed = e /\ n.pc = p
      BY <1>1 DEF Ops
  <2>3. n.did = r.did /\ n.raced = r.raced /\ n.resent = r.resent /\ n.inm = r.inm /\ n.im = r.im
        /\ n.kind = r.kind /\ n.key = r.key /\ n.etag = r.etag /\ n.src = r.src
      BY <1>1 DEF Ops
  <2> QED
      BY <1>1, <2>1, <2>2, <2>3 DEF Asked
<1> HIDE DEF n
<1>7. Sound(n, store') /\ Right(n)
    BY <1>3, <1>4, <1>5, <1>6 DEF Sound, Right, Knows, Asked
<1>8. \A d \in Clients : Sound(op[d], store) /\ Right(op[d]) /\ op[d] \in Ops
    BY DEF S3Inv, TypeOK, Right, WritesSayWhatTheyDid, WriteKinds
<1>9. \A d \in Clients : op'[d] = IF d = c THEN n ELSE op[d]
    BY <1>2 DEF S3Inv, TypeOK
<1>10. \A d \in Clients : Sound(op'[d], store')
    BY <1>2, <1>7, <1>8, <1>9 DEF Sound, Knows, Asked
<1>11. \A d \in Clients : Right(op'[d])
    BY <1>7, <1>8, <1>9 DEF Right
<1> QED
    BY <1>2, <1>6, <1>10, <1>11 DEF S3Inv, TypeOK

\* The HEAD before a write says whether the key is there, unless it failed.
LEMMA HeadStep ==
    ASSUME S3Inv, NEW c \in Clients, NEW how, HeadBeforeWrite(c, how)
    PROVE  op' \in [Clients -> Ops] /\ \A d \in Clients : Sound(op'[d], store') /\ Right(op'[d])
<1> DEFINE o == op[c]
           answer == IF how = "answered" THEN Answer([o EXCEPT !.kind = "head", !.im = None]) ELSE Unreachable
           ex == IF answer.status = 200 THEN TRUE ELSE MapHeadError(answer) # "NotFound"
           down == how # "answered"
           n == [o EXCEPT !.pc = "send", !.raced = down, !.existed = ex]
<1>1. op' = [op EXCEPT ![c] = n] /\ store' = store
    BY DEF HeadBeforeWrite
<1>2. o \in Ops /\ o.pc = "head" /\ Asked(o) /\ o.kind \in {"put", "copy"} /\ ~o.inm /\ ~o.did /\ ~o.resent
    BY DEF S3Inv, TypeOK, Sound, HeadBeforeWrite
<1>3. ex \in BOOLEAN /\ down \in BOOLEAN
    OBVIOUS
<1>4. ~down => (ex <=> store[o.key] # None)
  <2> DEFINE q == [o EXCEPT !.kind = "head", !.im = None]
  <2>1. q.kind = "head" /\ q.im = None /\ q.inm = FALSE /\ q.key = o.key
      BY <1>2 DEF Ops
  <2>2. bucket \in BOOLEAN /\ (~bucket => store[o.key] = None)
      BY <1>2 DEF S3Inv, TypeOK, Asked, WriteKinds
  <2> HIDE DEF q
  <2>3. store[o.key] = None => Answer(q) = [status |-> 404, code |-> "NotFound"]
      BY <2>1, <2>2 DEF Answer, Missing
  <2>4. store[o.key] # None => Answer(q).status = 200
      BY <2>1, <2>2 DEF Answer, Missing, Matches, Success
  <2>5. MapHeadError([status |-> 404, code |-> "NotFound"]) = "NotFound"
      BY DEF MapHeadError, MapGetError, IsNoSuchBucket, IsNotFound
  <2>6. CASE store[o.key] = None
      BY <2>3, <2>5, <2>6 DEF q
  <2>7. CASE store[o.key] # None
      BY <2>4, <2>7 DEF q
  <2> QED
      BY <2>6, <2>7
<1> HIDE DEF ex, down
<1>5. n \in Ops
    BY <1>2, <1>3, ZenonT(30) DEF Ops
<1>6. n.pc = "send" /\ n.raced = down /\ n.existed = ex /\ n.kind = o.kind /\ n.key = o.key /\ n.src = o.src
      /\ n.etag = o.etag /\ n.did = o.did /\ n.resent = o.resent /\ n.inm = o.inm
    BY <1>2 DEF Ops
<1> HIDE DEF n
<1>7. Sound(n, store') /\ Right(n)
    BY <1>1, <1>2, <1>3, <1>4, <1>6 DEF Sound, Right, Knows, Asked
<1>8. \A d \in Clients : Sound(op[d], store) /\ Right(op[d]) /\ op[d] \in Ops
    BY DEF S3Inv, TypeOK, Right, WritesSayWhatTheyDid, WriteKinds
<1>9. \A d \in Clients : op'[d] = IF d = c THEN n ELSE op[d]
    BY <1>1 DEF S3Inv, TypeOK
<1>10. \A d \in Clients : Sound(op'[d], store')
    BY <1>1, <1>7, <1>8, <1>9 DEF Sound, Knows, Asked
<1>11. \A d \in Clients : Right(op'[d])
    BY <1>7, <1>8, <1>9 DEF Right
<1> QED
    BY <1>1, <1>5, <1>10, <1>11 DEF S3Inv, TypeOK

\* The record of a write that S3 took.
LEMMA TakenIsOp ==
    ASSUME NEW o \in Ops, NEW x \in Etags \cup {None}
    PROVE  [o EXCEPT !.did = TRUE, !.found = x] \in Ops
  BY ZenonT(60) DEF Ops

\* A request sent: the writer learns what S3 answered, and whoever was about to
\* write the same key is overtaken.
LEMMA SendStep ==
    ASSUME S3Inv, NEW c \in Clients, NEW how, Send(c, how)
    PROVE  /\ bucket' \in BOOLEAN
           /\ store' \in [Keys -> Etags \cup {None}]
           /\ ~bucket' => \A k \in Keys : store'[k] = None
           /\ op' \in [Clients -> Ops]
           /\ \A d \in Clients : Sound(op'[d], store') /\ Right(op'[d])
<1> DEFINE o == op[c]
           answer == Answer(o)
           writes == o.kind \in WriteKinds /\ answer.status = 200 /\ how # "unsent"
           taken == IF writes THEN [o EXCEPT !.did = TRUE, !.found = store[o.key]] ELSE o
           result == Outcome(o.kind, IF how = "answered" THEN answer ELSE Unreachable)
           n == IF how = "resent" THEN [taken EXCEPT !.resent = TRUE] ELSE [taken EXCEPT !.pc = "done", !.result = result]
<1>1. /\ store' = IF writes THEN [store EXCEPT ![o.key] = Written(o)] ELSE store
      /\ bucket' = (bucket \/ (o.kind = "ensure_bucket" /\ how # "unsent"))
      /\ op' = [Overtaken(c, o, writes) EXCEPT ![c] = n]
    BY DEF Send, WriteKinds
<1>2. /\ TypeOK /\ o \in Ops /\ o.pc = "send" /\ Asked(o) /\ Sound(o, store)
      /\ \A d \in Clients : Sound(op[d], store) /\ Right(op[d]) /\ op[d] \in Ops
    BY DEF S3Inv, TypeOK, Sound, Send, Right, WritesSayWhatTheyDid, WriteKinds
<1>3. writes => /\ bucket /\ o.key \in Keys /\ Written(o) \in Etags \cup {None}
                /\ o.kind \in {"put", "copy"} /\ o.inm => store[o.key] = None
                /\ o.kind = "put" /\ o.im # None => store[o.key] # None
    BY <1>2, TakenWrites DEF Asked
<1>4. result \in Results
    BY <1>2, OutcomeIsResult DEF Asked
<1>5. o.kind \in WriteKinds /\ result = "Ok" => writes /\ how = "answered"
    BY <1>2, OkIsTaken, LostSaysNothing
<1>6. o.kind \in WriteKinds /\ writes /\ how = "answered" => result = "Ok"
    BY <1>2, OkIsTaken
<1>7. o.kind \in WriteKinds /\ how # "answered" => result \in {"Other", "BackendUnavailable"}
    BY LostSaysNothing
<1> HIDE DEF result, writes, answer
<1>8. writes \in BOOLEAN
    BY DEF writes
<1>9. taken \in Ops /\ taken.did = (o.did \/ writes) /\ (writes => taken.found = store[o.key])
      /\ taken.kind = o.kind /\ taken.key = o.key /\ taken.src = o.src /\ taken.im = o.im /\ taken.inm = o.inm
      /\ taken.etag = o.etag /\ taken.existed = o.existed /\ taken.raced = o.raced /\ taken.resent = o.resent
      /\ taken.pc = "send"
  <2>1. CASE writes
    <3>1. store[o.key] \in Etags \cup {None}
        BY <1>2, <1>3, <2>1 DEF TypeOK
    <3>2. taken = [o EXCEPT !.did = TRUE, !.found = store[o.key]]
        BY <2>1
    <3>3. taken \in Ops
        BY <1>2, <3>1, <3>2, TakenIsOp
    <3> QED
        BY <1>2, <2>1, <3>2, <3>3 DEF Ops
  <2>2. CASE ~writes
      BY <1>2, <2>2 DEF Ops
  <2> QED
      BY <2>1, <2>2
<1> HIDE DEF taken
<1>10. n \in Ops /\ Sound(n, store') /\ Right(n)
  <2>1. CASE how = "resent"
    <3>1. n = [taken EXCEPT !.resent = TRUE]
        BY <2>1
    <3>2. n \in Ops
        BY <1>9, <3>1 DEF Ops
    <3>3. n.resent = TRUE /\ n.pc = "send" /\ n.kind = o.kind /\ n.key = o.key /\ n.src = o.src /\ n.etag = o.etag
        BY <1>9, <3>1 DEF Ops
    <3> QED
        BY <1>2, <3>2, <3>3 DEF Sound, Right, Asked
  <2>2. CASE how # "resent"
    <3>1. n = [taken EXCEPT !.pc = "done", !.result = result]
        BY <2>2
    <3>2. n \in Ops
        BY <1>4, <1>9, <3>1, ZenonT(30) DEF Ops
    <3>3. n.pc = "done" /\ n.result = result /\ n.kind = o.kind /\ n.key = o.key /\ n.src = o.src /\ n.etag = o.etag
          /\ n.did = (o.did \/ writes) /\ (writes => n.found = store[o.key]) /\ n.existed = o.existed
          /\ n.raced = o.raced /\ n.resent = o.resent
        BY <1>9, <3>1 DEF Ops
    <3>4. Sound(n, store')
        BY <1>2, <3>3 DEF Sound, Asked
    <3> HIDE DEF n
    <3>5. n.kind \in WriteKinds /\ n.result = "Ok" => n.did
        BY <1>5, <3>3
    <3>6. n.kind \in {"put", "copy"} /\ n.result = "Ok" /\ ~n.raced /\ ~n.resent => (n.existed <=> n.found # None)
      <4>1. SUFFICES ASSUME o.kind \in {"put", "copy"}, result = "Ok", ~o.raced, ~o.resent
                     PROVE  o.existed <=> store[o.key] # None
          BY <1>5, <3>3 DEF WriteKinds
      <4>2. Knows(o, store) /\ writes
          BY <1>2, <1>5, <4>1 DEF Sound, WriteKinds
      <4> QED
          BY <1>3, <4>1, <4>2 DEF Knows
    <3>7. n.kind \in WriteKinds /\ ~n.resent
              /\ n.result \in {"NotFound", "BucketNotFound", "PreconditionFailed", "NotModified"} => ~n.did
      <4>1. SUFFICES ASSUME o.kind \in WriteKinds, ~o.resent,
                            result \in {"NotFound", "BucketNotFound", "PreconditionFailed", "NotModified"}
                     PROVE  ~o.did /\ ~writes
          BY <3>3
      <4> QED
          BY <1>2, <1>6, <1>7, <4>1 DEF Sound
    <3> QED
        BY <3>2, <3>4, <3>5, <3>6, <3>7 DEF Right
  <2> QED
      BY <2>1, <2>2
<1> HIDE DEF n
<1>11. store' \in [Keys -> Etags \cup {None}] /\ bucket' \in BOOLEAN
       /\ (~bucket' => \A k \in Keys : store'[k] = None)
    BY <1>1, <1>2, <1>3 DEF S3Inv, TypeOK
<1>12. ASSUME NEW d \in Clients, d # c
       PROVE  op'[d] \in Ops /\ Sound(op'[d], store') /\ Right(op'[d])
  <2>1. op'[d] = Overtaken(c, o, writes)[d]
      BY <1>1, <1>12 DEF Overtaken
  <2>2. CASE writes /\ op[d].pc = "send" /\ op[d].key = o.key
    <3>1. op'[d] = [op[d] EXCEPT !.raced = TRUE]
        BY <1>12, <2>1, <2>2 DEF Overtaken
    <3>2. op'[d] \in Ops
        BY <1>2, <3>1 DEF Ops
    <3>3. op'[d].raced = TRUE /\ op'[d].pc = "send" /\ op'[d].did = op[d].did /\ op'[d].resent = op[d].resent
          /\ op'[d].kind = op[d].kind /\ op'[d].key = op[d].key /\ op'[d].src = op[d].src /\ op'[d].etag = op[d].etag
        BY <1>2, <2>2, <3>1 DEF Ops
    <3> QED
        BY <1>2, <2>2, <3>2, <3>3 DEF Sound, Right, Asked
  <2>3. CASE ~(writes /\ op[d].pc = "send" /\ op[d].key = o.key)
    <3>1. op'[d] = op[d]
        BY <1>12, <2>1, <2>3 DEF Overtaken
    <3>2. op[d].pc = "send" /\ op[d].key \in Keys => store'[op[d].key] = store[op[d].key]
        BY <1>1, <1>2, <2>3 DEF TypeOK
    <3> QED
        BY <1>2, <3>1, <3>2, SMTT(30) DEF Sound, Knows, Asked, WriteKinds
  <2> QED
      BY <2>2, <2>3
<1>13. op'[c] = n /\ DOMAIN op' = Clients /\ op' = [d \in Clients |-> op'[d]]
    BY <1>1 DEF Overtaken
<1> QED
    BY <1>10, <1>11, <1>12, <1>13

\* The bucket goes: what a HEAD said before no longer counts.
LEMMA RemovalStep ==
    ASSUME S3Inv, BucketRemoved
    PROVE  /\ op' \in [Clients -> Ops]
           /\ \A d \in Clients : Sound(op'[d], store') /\ Right(op'[d])
<1>1. \A d \in Clients : Sound(op[d], store) /\ Right(op[d]) /\ op[d] \in Ops
    BY DEF S3Inv, TypeOK, Right, WritesSayWhatTheyDid, WriteKinds
<1>2. op' = [d \in Clients |-> IF op[d].pc = "send" THEN [op[d] EXCEPT !.raced = TRUE] ELSE op[d]]
    BY DEF BucketRemoved
<1>3. ASSUME NEW d \in Clients
      PROVE  op'[d] \in Ops /\ Sound(op'[d], store') /\ Right(op'[d])
  <2>1. CASE op[d].pc = "send"
    <3>1. op'[d] = [op[d] EXCEPT !.raced = TRUE]
        BY <1>2, <2>1
    <3>2. op'[d] \in Ops
        BY <1>1, <3>1 DEF Ops
    <3>3. op'[d].raced = TRUE /\ op'[d].pc = "send" /\ op'[d].did = op[d].did /\ op'[d].resent = op[d].resent
          /\ op'[d].kind = op[d].kind /\ op'[d].key = op[d].key /\ op'[d].src = op[d].src /\ op'[d].etag = op[d].etag
        BY <1>1, <2>1, <3>1 DEF Ops
    <3> QED
        BY <1>1, <2>1, <3>2, <3>3 DEF Sound, Right, Asked
  <2>2. CASE op[d].pc # "send"
    <3>1. op'[d] = op[d]
        BY <1>2, <2>2
    <3> QED
        BY <1>1, <2>2, <3>1, SMTT(30) DEF Sound, Asked
  <2> QED
      BY <2>1, <2>2
<1> QED
    BY <1>2, <1>3

\* The invariant is inductive.
LEMMA S3Step ==
    ASSUME S3Inv, [Next]_vars
    PROVE  S3Inv'
<1> DEFINE All == \A d \in Clients : Sound(op'[d], store') /\ Right(op'[d])
<1>1. ASSUME bucket' \in BOOLEAN, store' \in [Keys -> Etags \cup {None}], op' \in [Clients -> Ops], All,
             ~bucket' => \A k \in Keys : store'[k] = None
      PROVE  S3Inv'
    BY <1>1 DEF S3Inv, TypeOK, Right, WritesSayWhatTheyDid, WriteKinds
<1>2. ASSUME NEW c \in Clients, Call(c)
      PROVE  S3Inv'
  <2>1. op' \in [Clients -> Ops] /\ All
      BY <1>2, CallsAreFresh, BeginStep
  <2>2. UNCHANGED <<bucket, store>>
      BY <1>2 DEF Call, Begin
  <2> QED
      BY <1>1, <2>1, <2>2 DEF S3Inv, TypeOK
<1>3. ASSUME NEW c \in Clients, NEW how, HeadBeforeWrite(c, how)
      PROVE  S3Inv'
  <2>1. op' \in [Clients -> Ops] /\ All
      BY <1>3, HeadStep
  <2>2. UNCHANGED <<bucket, store>>
      BY <1>3 DEF HeadBeforeWrite
  <2> QED
      BY <1>1, <2>1, <2>2 DEF S3Inv, TypeOK
<1>4. ASSUME NEW c \in Clients, NEW how, Send(c, how)
      PROVE  S3Inv'
    BY <1>1, <1>4, SendStep
<1>5. CASE BucketRemoved
  <2>1. op' \in [Clients -> Ops] /\ All
      BY <1>5, RemovalStep
  <2>2. bucket' = FALSE /\ store' = [k \in Keys |-> None]
      BY <1>5 DEF BucketRemoved
  <2> QED
      BY <1>1, <2>1, <2>2
<1>6. CASE UNCHANGED vars
    BY <1>6 DEF vars, S3Inv, TypeOK, WritesSayWhatTheyDid
<1> QED
    BY <1>2, <1>3, <1>4, <1>5, <1>6 DEF Next

(***************************************************************************)
(* What every S3 write reports is what it did (put_object, copy_object,    *)
(* delete_object and write_manifest of storage.rs), whatever the other     *)
(* clients write, whatever answers are lost and requests sent twice, and   *)
(* with the bucket removed at any time.                                    *)
(***************************************************************************)
THEOREM S3WritesSayWhatTheyDid == Spec => []WritesSayWhatTheyDid
<1>1. S3Inv => WritesSayWhatTheyDid
    BY DEF S3Inv
<1> QED
    BY <1>1, S3Init, S3Step, PTL DEF Spec
====
