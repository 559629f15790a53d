----------------------------- MODULE MCFsStorage -----------------------------
(***************************************************************************)
(* The filesystem backend, one of its parts per behaviour (subject): the    *)
(* objects, with two keys in two lock stripes and the requests that tell    *)
(* their races apart; the claim of the root, with two processes; and the    *)
(* watch of the tree, with the paths d, d/e and d/e/f or d/f.               *)
(***************************************************************************)
EXTENDS FsStorage, TreeWatch

CONSTANTS k1, k2, b1, b2, md, txt

MCStripe == k1 :> 1 @@ k2 :> 2

MCGuess == k1 :> md @@ k2 :> None

MCPresent == <<[key |-> k1, body |-> b1, type |-> txt]>>

Plain(kind, k) ==
    [kind |-> kind, key |-> k, src |-> None, ifMatch |-> None, createOnly |-> FALSE,
     body |-> None, type |-> None]

Gets == {Plain("get", k1), [Plain("get", k1) EXCEPT !.ifMatch = b2], Plain("head", k1)}

Puts == {[Plain("put", k1) EXCEPT !.body = b2, !.ifMatch = b1, !.type = txt],
         [Plain("put", k1) EXCEPT !.body = b1],
         [Plain("put", k2) EXCEPT !.body = b2, !.createOnly = TRUE]}

Deletes == {Plain("delete", k1), [Plain("delete", k2) EXCEPT !.ifMatch = b2]}

Copies == {[Plain("copy", k2) EXCEPT !.src = k1, !.ifMatch = b1],
           [Plain("copy", k1) EXCEPT !.src = k2, !.createOnly = TRUE, !.type = md]}

AllAsked == Gets \cup Puts \cup Deletes \cup Copies

ConditionalPuts == {[Plain("put", k1) EXCEPT !.body = b2, !.ifMatch = b1]}

MCParent == [p \in Paths |-> p - 1]

CONSTANTS Subjects

VARIABLE subject

objectVars == <<inodes, name, record, dir, temps, clock, queue, pc, w, detached, since, used>>
allVars == <<subject, objectVars, rootVars, bridgeVars>>

\* A part that is not the subject stands still, in one state of its own.
StillRoot ==
    RootInit /\ root = [kind |-> "missing", writable |-> FALSE, merges |-> "nothing",
                        lossy |-> FALSE, lockable |-> FALSE]
             /\ ~meta /\ lockFile = Absent
StillTree ==
    /\ disk = [p \in Paths |-> Gone] /\ watching = {0} /\ directories = {}
    /\ kernel = <<>> /\ pending = Nothing /\ signals = <<>> /\ bridge = Idle
    /\ refreshes = {} /\ index = [p \in Paths |-> Gone] /\ stale = FALSE /\ owed = {}
    /\ edits = 0 /\ faults = 0

MCInit ==
    /\ subject \in Subjects
    /\ Init
    /\ IF subject = "root" THEN RootInit ELSE StillRoot
    /\ IF subject = "tree" THEN WatchInit ELSE StillTree

MCNext ==
    /\ UNCHANGED subject
    /\ \/ subject = "objects" /\ Next /\ UNCHANGED <<rootVars, bridgeVars>>
       \/ subject = "root" /\ RootNext /\ UNCHANGED <<objectVars, bridgeVars>>
       \/ subject = "tree" /\ WatchNext /\ UNCHANGED <<objectVars, rootVars>>

MCSafety == MCInit /\ [][MCNext]_allVars

MCSpec ==
    /\ MCSafety
    /\ \A r \in Requests : WF_vars(Step(r))
    /\ WF_bridgeVars(System)

(***************************************************************************)
(* Every request comes to its end, no two copies waiting for each other's  *)
(* lock (locks.rs pair); and once the tree is left alone the index comes   *)
(* to agree with it, apart from what skipped passes owe (fs_watch.rs).     *)
(***************************************************************************)
EverythingSettles == RequestsEnd /\ IndexFollowsTree
=============================================================================
