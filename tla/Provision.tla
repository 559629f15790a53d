----------------------------- MODULE Provision ----------------------------
(***************************************************************************)
(* The services behind the server: what a start provisions and checks before it*)
(* serves, and the probes by which readiness follows them afterwards.      *)
(***************************************************************************)
EXTENDS Naturals, Sequences, FiniteSets

(***************************************************************************)
(* What a start does to the knowledge bases' buckets, manifests and vector *)
(* collections before it serves (server provision.rs, run/                 *)
(* conditional_writes.rs, indexer provisioner.rs, storage-s3 probe), over  *)
(* any number of starts, each with its own configuration, each of which    *)
(* may die between any two calls.                                          *)
(***************************************************************************)
CONSTANTS KbList,         \* the knowledge bases, in the order they are provisioned
    Embeddings,     \* model and dimensions a start may be configured with
    Buckets,        \* what a bucket does with preconditions, see Verdict
    MaxStarts, None

VARIABLES
    enforces,       \* each bucket's kind, fixed
    made,           \* the buckets that exist
    scratch,        \* versions of the probe object left in each bucket
    manifest,       \* None, or the manifest's slug and recorded embedding
    collection,     \* None, or the embedding a collection was made for
    indexed,        \* collections with every payload index
    proc,           \* the starting process
    starts,
    orphans,        \* history: collections no manifest spoke for at some time
    littered        \* history: a probe was not removed

vars == <<enforces, made, scratch, manifest, collection, indexed, proc, starts, orphans, littered>>
stored == <<made, scratch, manifest, collection, indexed>>
history == <<orphans, littered>>

Kbs == {KbList[i] : i \in DOMAIN KbList}
Down == [pc |-> "down", at |-> 1, conf |-> None, allow |-> FALSE, answers |-> <<>>, wrote |-> 0, read |-> None, degraded |-> FALSE]

Init ==
    /\ enforces \in [Kbs -> Buckets]
    /\ made = {} /\ scratch = [k \in Kbs |-> 0] /\ manifest = [k \in Kbs |-> None]
    /\ collection = [k \in Kbs |-> None] /\ indexed = {} /\ orphans = {}
    /\ proc = Down /\ starts = 0 /\ littered = FALSE

Kb == KbList[proc.at]

Start(conf, allow) ==
    /\ proc.pc = "down" /\ starts < MaxStarts /\ starts' = starts + 1
    /\ proc' = [Down EXCEPT !.pc = "check", !.conf = conf, !.allow = allow]
    /\ UNCHANGED <<enforces, stored, history>>

\* A crash, or a call that failed: every failure here is fatal.
Dies ==
    /\ proc.pc # "serving" \/ starts < MaxStarts
    /\ proc.pc # "down" /\ proc' = Down
    /\ orphans' = IF proc.pc \in {"index", "record"} /\ manifest[Kb].embedding = None THEN orphans \cup {Kb} ELSE orphans
    /\ littered' = (littered \/ proc.pc = "probe")
    /\ UNCHANGED <<enforces, stored, starts>>

(***************************************************************************)
(* The conditional-write check of the s3 backend: a scratch object and     *)
(* three overwrites under preconditions, then it is removed with every     *)
(* version a PUT named.                                                    *)
(***************************************************************************)
CheckBucket ==
    /\ proc.pc = "check" /\ made' = made \cup {Kb}
    /\ proc' = [proc EXCEPT !.pc = "probe", !.answers = <<>>, !.wrote = 1]
    /\ scratch' = [scratch EXCEPT ![Kb] = @ + 1]
    /\ UNCHANGED <<enforces, manifest, collection, indexed, starts, history>>

\* An unversioned bucket keeps one copy however often it is overwritten, and
\* names no version.
ConditionalPut ==
    /\ proc.pc = "probe" /\ Len(proc.answers) < 3
    /\ LET b == enforces[Kb]
           answer == b.answers[Len(proc.answers) + 1]
           stores == answer = "Stored" /\ b.versioned
       IN  /\ proc' = [proc EXCEPT !.answers = Append(@, answer), !.wrote = IF stores THEN @ + 1 ELSE @]
           /\ scratch' = [scratch EXCEPT ![Kb] = IF stores THEN @ + 1 ELSE @]
    /\ UNCHANGED <<enforces, made, manifest, collection, indexed, starts, history>>

\* probe_preconditions: what was ignored outranks what was refused.
Verdict(answers) ==
    IF "Stored" \in {answers[2], answers[3]} THEN "NotEnforced"
    ELSE IF "Unsupported" \in {answers[1], answers[2], answers[3]} THEN "Unsupported"
    ELSE IF answers[1] = "Refused" THEN "AlwaysRefused" ELSE "Enforced"

\* judge: refused unless the operator allowed it.
Judged ==
    LET enforced == Verdict(proc.answers) = "Enforced"
        last == proc.at = Len(KbList)
    IN  IF ~enforced /\ ~proc.allow THEN Down
        ELSE [proc EXCEPT !.degraded = @ \/ ~enforced, !.wrote = 0, !.answers = <<>>,
                          !.pc = IF last THEN "bucket" ELSE "check", !.at = IF last THEN 1 ELSE @ + 1]

\* remove_probe runs after the last answer, or after a call that failed; a
\* delete that fails is logged, never returned.
RemoveProbe ==
    /\ proc.pc = "probe"
    /\ proc' \in {Down} \cup {Judged : i \in 3 .. Len(proc.answers)}
    /\ \/ scratch' = [scratch EXCEPT ![Kb] = @ - proc.wrote] /\ UNCHANGED littered
       \/ littered' = TRUE /\ UNCHANGED scratch
    /\ UNCHANGED <<enforces, made, manifest, collection, indexed, starts, orphans>>

(***************************************************************************)
(* provision_kbs, one knowledge base at a time.                            *)
(***************************************************************************)
Fresh(kb) == [slug |-> kb, embedding |-> None]

EnsureBucket ==
    /\ proc.pc = "bucket" /\ made' = made \cup {Kb}
    /\ proc' = [proc EXCEPT !.pc = "manifest"]
    /\ UNCHANGED <<enforces, scratch, manifest, collection, indexed, starts, history>>

\* Absent, or another knowledge base's: written afresh.
ReadManifest ==
    /\ proc.pc = "manifest"
    /\ LET keep == manifest[Kb] # None /\ manifest[Kb].slug = Kb
           held == IF keep THEN manifest[Kb] ELSE Fresh(Kb)
       IN  /\ proc' = [proc EXCEPT !.pc = IF keep THEN "judge" ELSE "fresh", !.read = held]
    /\ UNCHANGED <<enforces, stored, starts, history>>

WriteFresh ==
    /\ proc.pc = "fresh" /\ manifest' = [manifest EXCEPT ![Kb] = proc.read]
    /\ proc' = [proc EXCEPT !.pc = "judge"]
    /\ UNCHANGED <<enforces, made, scratch, collection, indexed, starts, history>>

\* validate and cross_check_manifest.
CrossCheckManifest ==
    /\ proc.pc = "judge"
    /\ proc' = IF proc.read.embedding \in {None, proc.conf} THEN [proc EXCEPT !.pc = "create"] ELSE Down
    /\ UNCHANGED <<enforces, stored, starts, history>>

\* ensure_collection: made only if absent, its payload indexes always.
CreateCollection ==
    /\ proc.pc = "create"
    /\ collection' = [collection EXCEPT ![Kb] = IF @ = None THEN proc.conf ELSE @]
    /\ proc' = [proc EXCEPT !.pc = "index"]
    /\ UNCHANGED <<enforces, made, scratch, manifest, indexed, starts, history>>

CreatePayloadIndexesOfNew ==
    /\ proc.pc = "index" /\ indexed' = IF proc.read.embedding = None THEN indexed \cup {Kb} ELSE indexed
    /\ proc' = [proc EXCEPT !.pc = "record"]
    /\ UNCHANGED <<enforces, made, scratch, manifest, collection, starts, history>>

CreatePayloadIndexes ==
    /\ proc.pc = "index" /\ indexed' = indexed \cup {Kb}
    /\ proc' = [proc EXCEPT !.pc = "record"]
    /\ UNCHANGED <<enforces, made, scratch, manifest, collection, starts, history>>

RecordEmbedding ==
    /\ proc.pc = "record"
    /\ manifest' = IF proc.read.embedding # None THEN manifest
                   ELSE [manifest EXCEPT ![Kb] = [proc.read EXCEPT !.embedding = proc.conf]]
    /\ proc' = IF proc.at = Len(KbList) THEN [proc EXCEPT !.pc = "serving"]
               ELSE [proc EXCEPT !.pc = "bucket", !.at = @ + 1]
    /\ UNCHANGED <<enforces, made, scratch, collection, indexed, starts, history>>

\* A newer release has payload indexes the old collections lack; an operator
\* loses or moves a manifest between two starts.
Meanwhile ==
    /\ proc.pc = "down" /\ starts < MaxStarts
    /\ \/ indexed # {} /\ indexed' = {} /\ UNCHANGED <<manifest, orphans>>
       \/ \E k \in Kbs, m \in {None} \cup {manifest[j] : j \in Kbs} :
             /\ m # manifest[k] /\ manifest' = [manifest EXCEPT ![k] = m]
             /\ orphans' = IF collection[k] # None THEN orphans \cup {k} ELSE orphans
             /\ UNCHANGED indexed
    /\ UNCHANGED <<enforces, made, scratch, collection, proc, starts, littered>>

Next ==
    \/ \E conf \in Embeddings, allow \in BOOLEAN : Start(conf, allow)
    \/ Dies \/ CheckBucket \/ ConditionalPut \/ RemoveProbe
    \/ EnsureBucket \/ ReadManifest \/ WriteFresh \/ CrossCheckManifest
    \/ CreateCollection \/ CreatePayloadIndexes \/ RecordEmbedding \/ Meanwhile

Spec == Init /\ [][Next]_vars

(***************************************************************************)
(* A server that serves has, for every knowledge base, a bucket, its own   *)
(* manifest recording the configured embedding, and a collection with every*)
(* payload index; the collection was made for that embedding unless one    *)
(* was left behind without a manifest to say what for.  It serves a bucket *)
(* that does not keep preconditions only if allowed, and then says so, and *)
(* the probe that found out has left nothing behind.                       *)
(***************************************************************************)
ServedIsProvisioned == proc.pc = "serving" => \A k \in Kbs :
    /\ k \in made /\ k \in indexed
    /\ manifest[k] = [slug |-> k, embedding |-> proc.conf]
    /\ collection[k] # proc.conf => k \in orphans
    /\ enforces[k].answers # <<"Stored", "Refused", "Refused">> => proc.allow /\ proc.degraded
    /\ ~littered => scratch[k] = 0

(***************************************************************************)
(* ensure_collection: "Ensure the Qdrant collection for `kb` exists with   *)
(* the expected schema".                                                   *)
(***************************************************************************)
CollectionFits == proc.pc = "serving" => \A k \in Kbs : collection[k] = proc.conf

-----------------------------------------------------------------------------
(***************************************************************************)
(* The readiness poller (server run/readiness.rs) and what GET /readyz     *)
(* makes of its snapshot (api-http readiness.rs, router/health.rs).  Two   *)
(* loops probe two backends on a clock; the question is how old the answer *)
(* of /readyz can be.                                                      *)
(***************************************************************************)
CONSTANTS Slots,          \* the probed backends: storage and search
    Interval,       \* ticks of the poll interval
    Latency,        \* ticks a backend that answers takes at most
    MaxChanges      \* how often a backend changes its mind

VARIABLES
    health,         \* what each backend does with a probe
    since,          \* ticks it has been up, or down, without a break
    loop,           \* each probe_loop: its place, its timer and its probe
    check,          \* the published snapshot
    changes, stopped

probeVars == <<health, since, loop, check, changes, stopped>>

SlotDown(h) == h \in {"refuses", "hangs"}
IsOutage(outcome) == outcome \in {"timeout", "unreachable"}
Longest == 3 * Interval + 2 * Latency

\* waited: how long a probe the backend could answer, or has answered, has
\* been under way.
Probing == [pc |-> "probe", t |-> 0, waited |-> 0, answer |-> None]

ProbeInit ==
    /\ health = [s \in Slots |-> "up"] /\ since = [s \in Slots |-> 0]
    /\ loop = [s \in Slots |-> Probing]
    /\ check = [s \in Slots |-> "ok"]
    /\ changes = 0 /\ stopped = FALSE

Classify(h) == CASE h = "up" -> "ok" [] h = "gone" -> "not_found" [] h = "refuses" -> "unreachable"

Awaiting(s) == loop[s].pc \in {"probe", "late"}

(***************************************************************************)
(* The backends, and time.                                                 *)
(***************************************************************************)
Changes(s, h) ==
    /\ changes < MaxChanges /\ h # health[s]
    /\ health' = [health EXCEPT ![s] = h] /\ changes' = changes + 1
    /\ since' = [since EXCEPT ![s] = IF SlotDown(h) = SlotDown(health[s]) THEN @ ELSE 0]
    /\ loop' = [loop EXCEPT ![s].waited = IF h = "hangs" /\ loop[s].answer = None THEN 0 ELSE @]
    /\ UNCHANGED <<check, stopped>>

\* The backend answers; the answer is as old as its way back is long.
BackendAnswers(s) ==
    /\ Awaiting(s) /\ loop[s].answer = None /\ health[s] # "hangs"
    /\ loop' = [loop EXCEPT ![s].answer = Classify(health[s])]
    /\ UNCHANGED <<health, since, check, changes, stopped>>

Answerable(s) == Awaiting(s) /\ (health[s] # "hangs" \/ loop[s].answer # None)

\* Timers fire on time and answers arrive within Latency.
Tick ==
    /\ \A s \in Slots : /\ loop[s].pc \in {"probe", "sleep"} => loop[s].t < Interval
                        /\ Answerable(s) => loop[s].waited < Latency
    /\ loop' = [s \in Slots |-> [loop[s] EXCEPT !.t = IF loop[s].pc \in {"probe", "sleep"} THEN @ + 1 ELSE @,
                                                !.waited = IF Answerable(s) THEN @ + 1 ELSE @]]
    /\ since' = [s \in Slots |-> IF since[s] < Longest THEN since[s] + 1 ELSE since[s]]
    /\ UNCHANGED <<health, check, changes, stopped>>

(***************************************************************************)
(* probe_loop: one probe at a time; one that outlasts the interval is      *)
(* published as a timeout and awaited to its end.                          *)
(***************************************************************************)
Publish(s, outcome, next) ==
    /\ check' = [check EXCEPT ![s] = outcome]
    /\ loop' = [loop EXCEPT ![s] = next]
    /\ UNCHANGED <<health, since, changes, stopped>>

Asleep == [Probing EXCEPT !.pc = "sleep"]

ProbeReturns(s) ==
    /\ Awaiting(s) /\ loop[s].answer # None
    /\ Publish(s, loop[s].answer, Asleep)

ProbeIsLateUnpublished(s) ==
    /\ loop[s].pc = "probe" /\ loop[s].t = Interval
    /\ Publish(s, check[s], [loop[s] EXCEPT !.pc = "late", !.t = 0])

ProbeIsLate(s) ==
    /\ loop[s].pc = "probe" /\ loop[s].t = Interval
    /\ Publish(s, "timeout", [loop[s] EXCEPT !.pc = "late", !.t = 0])

Wake(s) ==
    /\ loop[s].pc = "sleep" /\ loop[s].t = Interval
    /\ Publish(s, check[s], Probing)

Shutdown ==
    /\ ~stopped /\ stopped' = TRUE
    /\ loop' = [s \in Slots |-> [Probing EXCEPT !.pc = "ended"]]
    /\ UNCHANGED <<health, since, check, changes>>

ProbeNext ==
    \/ Tick \/ Shutdown
    \/ \E s \in Slots : \/ BackendAnswers(s) \/ ProbeReturns(s) \/ ProbeIsLate(s) \/ Wake(s)
                        \/ \E h \in {"up", "refuses", "gone", "hangs"} : Changes(s, h)

ProbeSpec == ProbeInit /\ [][ProbeNext]_probeVars

(***************************************************************************)
(* GET /readyz: 503 for an outage of either backend or of the event        *)
(* backend; 200 otherwise, degraded if something probed for is gone.       *)
(***************************************************************************)
Readyz(checks, conditionalWrites, events) ==
    IF ~events \/ \E s \in Slots : IsOutage(checks[s]) THEN "unavailable"
    ELSE IF (\E s \in Slots : checks[s] # "ok") \/ conditionalWrites = "not_enforced" THEN "degraded"
    ELSE "ok"

(***************************************************************************)
(* How stale /readyz can be: an outage, refused or silent, turns it to 503 *)
(* within two intervals and the way of one answer, and a backend that is   *)
(* back turns it to 200 within one interval and the way of two, whatever   *)
(* the other backend's probe is waiting for (run/readiness.rs: "an outage  *)
(* is reported within two intervals").                                     *)
(***************************************************************************)
ReadyzFollows ==
    ~stopped => LET answer == Readyz(check, "enforced", TRUE) IN
    /\ \A s \in Slots : SlotDown(health[s]) /\ since[s] > 2 * Interval + Latency => answer = "unavailable"
    /\ (\A s \in Slots : ~SlotDown(health[s]) /\ since[s] > Interval + 2 * Latency) => answer # "unavailable"

=============================================================================
