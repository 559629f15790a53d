----------------------------- MODULE MCIndexing -----------------------------
(***************************************************************************)
(* What indexing promises in the end, in one run: the worker's scheduler    *)
(* with its refinement of KeyedWork, and the write path on a watched tree.  *)
(* They share no state; `subject` says which one moves.                     *)
(***************************************************************************)
EXTENDS IndexScheduler

CONSTANTS short, Absent, Unseen, w1

VARIABLES
    subject,
    store, points, queue, depth, alive, pc, kind, head, next, outcome, seen, said, lastSaid, balance,
    kbFailed, faults, wpc, wkey, wver, dirty, noting, owed, full, changes, edits

writeVars == <<store, points, queue, depth, alive, pc, kind, head, next, outcome, seen, said, lastSaid,
               balance, kbFailed, faults, wpc, wkey, wver, dirty, noting, owed, full, changes, edits>>

\* Two keys, one note of one chunk, room for one event: a request beside a change by
\* another program, and three such changes by themselves.
Write == INSTANCE WritePath WITH
    Bodies <- {short}, Chunks <- [b \in {short} |-> 1], Opaque <- {}, BatchSize <- 1, MaxFaults <- 0,
    Writers <- {w1}, Capacity <- 1, Watched <- TRUE, MaxChanges <- 1, MaxEdits <- 1

Watch == INSTANCE WritePath WITH
    Bodies <- {short}, Chunks <- [b \in {short} |-> 1], Opaque <- {}, BatchSize <- 1, MaxFaults <- 0,
    Writers <- {w1}, Capacity <- 1, Watched <- TRUE, MaxChanges <- 0, MaxEdits <- 3

MCInit ==
    /\ subject \in {"schedule", "write", "watch"}
    /\ Init /\ Write!Init
    /\ subject # "write" => wkey = [w \in {w1} |-> CHOOSE k \in Keys : TRUE]

MCNext ==
    /\ UNCHANGED subject
    /\ \/ subject = "schedule" /\ Next /\ UNCHANGED writeVars
       \/ subject = "write" /\ Write!Next /\ UNCHANGED vars
       \/ subject = "watch" /\ Watch!Next /\ UNCHANGED vars

MCSpec == MCInit /\ [][MCNext]_<<subject, vars, writeVars>> /\ Fairness /\ Write!Fairness

(***************************************************************************)
(* Everything that is accepted comes to its end (run.rs, commit.rs,        *)
(* worker.rs): an event that the scheduler took is handled unless the      *)
(* process is told to stop; once the changes stop, the index holds what is *)
(* stored but for what was refused, and nothing stays pending; and on a    *)
(* watched tree that only other programs change, a refresh keeps quiet     *)
(* only about a version that was announced (pipeline.rs 75).               *)
(***************************************************************************)
EverythingIsIndexed == AcceptedIsHandled /\ Write!Converges /\ Write!QuietIsAnnounced
=============================================================================
