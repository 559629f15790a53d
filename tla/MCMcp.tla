-------------------------------- MODULE MCMcp --------------------------------
(***************************************************************************)
(* The MCP server, one of its parts per behaviour (subject): the resource   *)
(* subscriptions, with interchangeable credentials; the owners of its       *)
(* sessions; and the move tool.  They share no state.                       *)
(***************************************************************************)
EXTENDS Subscriptions, TLC

CONSTANTS NoSuchSession, r1, r2, Subjects

VARIABLES subject, sessions, owners, lock, minted, opener, known, req, object, move, writes

People == {[subject |-> "alice", groups |-> {"x"}], [subject |-> "alice", groups |-> {}],
           [subject |-> "anonymous", groups |-> {}]}

Ses == INSTANCE McpSessions WITH
    Requests <- {r1, r2}, Principals <- People, Anonymous <- TRUE, MaxSessions <- 1, MaxIds <- 2,
    Bytes <- {"a", "b", "big"}, Budget <- 2, Size <- LAMBDA b : IF b = "big" THEN 3 ELSE 1, MaxWrites <- 2

sessionVars == <<sessions, owners, lock, minted, opener, known, req>>
moveVars == <<object, move, writes>>

MCInit ==
    /\ subject \in Subjects
    /\ Init
    /\ Ses!Init
    /\ IF subject = "move" THEN Ses!MoveInit
       ELSE object = [k \in {"from", "to"} |-> None] /\ move = Ses!Idle /\ writes = 0

MCNext ==
    /\ UNCHANGED subject
    /\ \/ subject = "subscriptions" /\ Next /\ UNCHANGED <<sessionVars, moveVars>>
       \/ subject = "sessions" /\ Ses!Next /\ UNCHANGED <<vars, moveVars>>
       \/ subject = "move" /\ Ses!MoveNext /\ UNCHANGED <<vars, sessionVars>>

MCSpec == MCInit /\ [][MCNext]_<<subject, vars, sessionVars, moveVars>>
CredSymmetry == Permutations(Creds)

=============================================================================
