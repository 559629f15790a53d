---- MODULE MCBackends ----
(***************************************************************************)
(* How the server meets its backends: readiness, provisioning, the S3      *)
(* adapter, a search, the vector store and the health record of the index. *)
(* They share no state and are checked on instances of their own in one    *)
(* run: `subject` says whose behaviour this is, and the others rest.       *)
(***************************************************************************)
EXTENDS S3Storage, Sequences, TLC

CONSTANTS storage, search, small, large, Subjects

VARIABLES
    subject,
    health, since, loop, check, changes, stopped,
    enforces, made, scratch, manifest, collection, indexed, proc, starts, orphans, littered,
    corpus, request, grant, step, attempts, window, page,
    points, scan, touched, writes,
    record, alive, queue, working, unstamped, gauge, now, sent

MCBucket(m, x, e, versioned) == [answers |-> <<m, x, e>>, versioned |-> versioned]
Prov == INSTANCE Provision WITH
    Slots <- {storage, search}, Interval <- 2, Latency <- 1, MaxChanges <- 2,
    KbList <- <<"kb1", "kb2">>, Embeddings <- {small, large}, MaxStarts <- 2,
    Buckets <- {MCBucket("Stored", "Refused", "Refused", TRUE), MCBucket("Stored", "Stored", "Unsupported", TRUE),
                MCBucket("Refused", "Refused", "Refused", FALSE)}

\* Searches: chunks of three objects, one of which (3) cannot be read.
Hit(key, start, under, native, dense, sparse) ==
    [key |-> key, start |-> start, prefix |-> under, native |-> native, rank |-> <<dense, sparse>>]
Layouts == {<< <<1, 1>>, <<1, 2>>, <<2, 1>>, <<3, 1>> >>, << <<2, 1>>, <<1, 2>>, <<1, 1>>, <<2, 2>> >>}
Rankings == {<< <<1, 2, 3, 4>>, <<2, 1, 4, 3>> >>, << <<4, 2, 1, 3>>, <<3, 0, 1, 2>> >>,
             << <<0, 1, 2, 0>>, <<0, 0, 0, 0>> >>}
MCCorpora == {{Hit(l[i][1], l[i][2], IF l[i][1] = 3 THEN "b" ELSE "a", i \in n, r[1][i], r[2][i]) : i \in 1 .. m} :
                 l \in Layouts, r \in Rankings, n \in {{1, 3}, {2, 3, 4}}, m \in {3, 4}}
MCRequests == [query : {"fits"}, limit : {None, 1, 3}, native : BOOLEAN, prefix : {None, "a"}]
              \cup [query : {"fits", "blank"}, limit : {0, 1}, native : {FALSE}, prefix : {None}]

\* Replies of an embedder that was sent two texts, in any order, short, long or wrong.
Replies == UNION {[1 .. n -> [index : 0 .. 2, fits : BOOLEAN, vector : {small, large}]] : n \in 1 .. 3}

\* Collections: the chunks of two objects, their etags agreeing or not.
First == <<1>>
Second == <<2>>
Plain == [essence |-> "md", raw |-> "md"]
Charset == [essence |-> "md", raw |-> "mdc"]
Point(key, etag, chunk, width) ==
    [key |-> key, etag |-> etag, chunk |-> chunk, width |-> width,
     mime |-> IF chunk = 1 THEN Charset ELSE Plain, concept |-> IF chunk = 1 THEN "t" ELSE None,
     heading |-> IF chunk = 1 THEN <<"h", "i">> ELSE <<>>, mtime |-> chunk,
     tags |-> IF chunk = 1 THEN {"x"} ELSE {}, dense |-> 2, sparse |-> IF chunk = 1 THEN 1 ELSE 0]
MCStarts ==
    UNION {[S -> {Point(k, e, c, 1) : k \in {First, Second}, e \in {"e", None}, c \in {0, 1}}
                 \cup {Point(None, None, None, 1)}] : S \in {{}, {1}, {1, 2}}}
    \cup {[i \in 1 .. 3 |-> Point(k[i], e[i], i - 1, 1)] :
            k \in [1 .. 3 -> {First, Second}], e \in {<<"e", "e", "e">>, <<"e", "f", "e">>, <<"f", "e", "e">>}}
At(id, point) == [id |-> id, point |-> point]
MCBatches == {<<At(2, Point(First, "f", 1, 1))>>, <<At(1, Point(First, "f", 0, 1)), At(3, Point(First, "f", 1, 2))>>,
              <<At(1, Point(Second, "f", 0, 1)), At(3, Point(Second, "f", 1, 1))>>}
Sought(mime, concept, heading, after, before, tags, under) ==
    [mime |-> mime, concept |-> concept, heading |-> heading, after |-> after, before |-> before,
     tags |-> tags, prefix |-> under]
Filters == {Sought(None, None, <<>>, None, None, {}, None), Sought(Plain, None, <<>>, None, None, {}, None),
            Sought(Charset, None, <<>>, None, None, {}, First), Sought(None, "t", <<"h">>, 0, 1, {}, None),
            Sought(None, None, <<"h", "j">>, 1, None, {}, Second),
            Sought(None, None, <<>>, None, 0, {"x", "y"}, None)}

\* Health: one key and one subtree, and callers who may list all, one or the other.
Caller(lists, whole) == [lists |-> lists, whole |-> whole]

Seek == INSTANCE SearchIndex WITH
    Corpora <- MCCorpora, Requests <- MCRequests, Grants <- {None, {1}, {2, 3}},
    PrefetchFloor <- 2, FilteredPrefetchFloor <- 3, OverFetch <- 2, PrefetchCap <- 3,
    DefaultLimit <- 1, MaxLimit <- 2, MaxRetries <- 2, Broken <- 3,
    Ids <- 1 .. 3, Width <- 1, ScrollPage <- 1, RrfK <- 2, Before <- LAMBDA a, b : a[1] < b[1],
    Starts <- MCStarts, Batches <- MCBatches, Selectors <- [key : {First, Second}, from : {None, 0, 1}],
    MaxWrites <- 2,
    Keys <- {"k"}, Subtrees <- {"p"}, Capacity <- 1, MaxNow <- 2, MaxSent <- 2, SummaryMax <- 1,
    Callers <- {Caller({"k", "p"}, TRUE), Caller({"k"}, FALSE), Caller({"p"}, FALSE)}

readyVars == <<health, since, loop, check, changes, stopped>>
provVars == <<enforces, made, scratch, manifest, collection, indexed, proc, starts, orphans, littered>>
searchVars == <<corpus, request, grant, step, attempts, window, page>>
vectorVars == <<points, scan, touched, writes>>
recordVars == <<record, alive, queue, working, unstamped, gauge, now, sent>>

NoProvision ==
    /\ enforces = [k \in {"kb1", "kb2"} |-> None] /\ made = {} /\ scratch = None /\ manifest = None
    /\ collection = None /\ indexed = {} /\ orphans = {} /\ proc = Prov!Down /\ starts = 0 /\ littered = FALSE
NoSearch ==
    /\ corpus = {} /\ grant = None /\ step = "done" /\ attempts = 0 /\ window = None
    /\ page = None /\ request \in IF subject = "embed" THEN Replies ELSE {None}
NoStore == bucket = TRUE /\ store = [k \in Keys |-> None] /\ op = [c \in Clients |-> Idle] /\ faults = 0

MCInit ==
    /\ subject \in Subjects
    /\ Prov!ProbeInit
    /\ Seek!HealthInit
    /\ IF subject = "provision" THEN Prov!Init ELSE NoProvision
    /\ IF subject = "s3" THEN Init ELSE NoStore
    /\ IF subject = "search" THEN Seek!Init ELSE NoSearch
    /\ IF subject = "vectors" THEN Seek!IndexInit
       ELSE points = Seek!Empty /\ scan = Seek!BeginScan /\ touched = {} /\ writes = 0

MCNext ==
    /\ UNCHANGED subject
    /\ \/ /\ subject = "ready" /\ Prov!ProbeNext
          /\ UNCHANGED <<provVars, vars, searchVars, vectorVars, recordVars>>
       \/ /\ subject = "provision" /\ Prov!Next
          /\ UNCHANGED <<readyVars, vars, searchVars, vectorVars, recordVars>>
       \/ /\ subject = "s3" /\ Next
          /\ UNCHANGED <<readyVars, provVars, searchVars, vectorVars, recordVars>>
       \/ /\ subject = "search" /\ Seek!Next
          /\ UNCHANGED <<readyVars, provVars, vars, vectorVars, recordVars>>
       \/ /\ subject = "vectors" /\ Seek!IndexNext
          /\ UNCHANGED <<readyVars, provVars, vars, searchVars, recordVars>>
       \/ /\ subject = "health" /\ Seek!HealthNext
          /\ UNCHANGED <<readyVars, provVars, vars, searchVars, vectorVars>>

MCSpec == MCInit /\ [][MCNext]_<<subject, readyVars, provVars, vars, searchVars, vectorVars, recordVars>>
MCSymmetry == Permutations(Clients) \cup Permutations(Keys)

(***************************************************************************)
(* A server serves only what is ready and provisioned: how old the answer  *)
(* of /readyz may be (run/readiness.rs), and what holds of every knowledge *)
(* base of a server that serves (provision.rs, provisioner.rs,             *)
(* run/conditional_writes.rs).                                             *)
(***************************************************************************)
ServesWhatIsReady ==
    /\ subject = "ready" => Prov!ReadyzFollows
    /\ subject = "provision" => Prov!ServedIsProvisioned

====
