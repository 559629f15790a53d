---- MODULE MCServer ----
(***************************************************************************)
(* Two parts of the server process that share no state, each checked on    *)
(* its own instance in one run: `subject` says whose behaviour this is, and*)
(* the other rests in one idle state.                                      *)
(***************************************************************************)
EXTENDS ServerLife

CONSTANTS r1, r2, Subjects

VARIABLE subject

Config(backend, on, events) ==
    [storage |-> backend, watch |-> on, reconcile |-> on, metrics |-> on, oidc |-> on, events |-> events]
MCConfigs == {Config("s3", TRUE, "none"), Config("s3", FALSE, "nats"), Config("fs", TRUE, "none")}
MCKbList == <<"kb1", "kb2">>

MCCalls(r) == IF r = r1 THEN {"storage", "vector", "embedder", "publisher"} ELSE {}

\* A process that has exited: ServerLife's resting state.
Rest ==
    /\ cfg \in {Config("s3", FALSE, "none")} /\ stage = "exited" /\ result = "none" /\ tasks = {} /\ stopping = FALSE
    /\ drain = "none" /\ conns = [c \in Conns |-> "none"]
    /\ stale = [kb \in Kbs |-> FALSE] /\ compared = [kb \in Kbs |-> FALSE]
    /\ passes = [slot |-> [kb \in Kbs |-> Free], stopped |-> FALSE, todo |-> <<>>, at |-> Free]
    /\ queue = 0 /\ faults = 0

MCInit ==
    /\ subject \in Subjects
    /\ IF subject = "life" THEN Init ELSE Rest
    /\ BoundsInit

MCNext ==
    /\ UNCHANGED subject
    /\ \/ subject = "life" /\ Next /\ UNCHANGED boundsVars
       \/ subject = "bounds" /\ BoundsNext /\ UNCHANGED vars

MCSpec == MCInit /\ [][MCNext]_<<subject, vars, boundsVars>> /\ Fairness /\ BoundsFairness

-----------------------------------------------------------------------------
(* The process: it is torn down in the order shutdown() (server/run.rs)     *)
(* promises, and a knowledge base is served as stale until a reconciliation *)
(* pass that ran to its end has compared it.                                *)
LifeIsOrderly == ShutdownIsOrderly /\ StaleUntilCompared

(* One request: whatever it took (its in-flight permit, its gauge) is given  *)
(* back however it ends, and 408 is said of a stalled body and of nothing   *)
(* else (http/bounds.rs).                                                   *)
RequestsGiveBack == EverythingIsGivenBack /\ StalledBodiesAre408

(* A shutdown that was asked for ends, and every request does (its body and  *)
(* its calls out are both under a time limit).                              *)
EverythingEnds == ShutdownEnds /\ RequestsAreBounded
=============================================================================
