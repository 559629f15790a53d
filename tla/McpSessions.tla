---------------------------- MODULE McpSessions ---------------------------
(***************************************************************************)
(* MCP over HTTP: who owns a session, and the move tool, which is a copy and a*)
(* delete made through the API.                                            *)
(***************************************************************************)
EXTENDS Integers, FiniteSets

(***************************************************************************)
(* Who a session of the MCP transport answers to.  rmcp keeps the table of *)
(* sessions and mints their ids; bind_session keeps, beside it, who opened *)
(* each one, under a lock of its own.  Requests run concurrently, each as  *)
(* the principal the auth layer resolved, and may be dropped at any step   *)
(* when their client goes away; rmcp ends idle sessions by itself.         *)
(***************************************************************************)
CONSTANTS None, NoSuchSession,  \* no value; the id substituted on a refusal
          Requests,             \* concurrent requests
          Principals,           \* records [subject, groups]
          Anonymous,            \* whether callers without a credential are let in
          MaxSessions, MaxIds

VARIABLES sessions,  \* rmcp's table: the ids it holds
          owners,    \* id -> the subject that opened it
          lock,      \* the request holding the owners' lock, or None
          minted,    \* ids rmcp has issued
          opener,    \* id -> the subject that really opened it
          known,     \* ids some client has been told
          req        \* the state of each request: the id it presented and acts on

vars == <<sessions, owners, lock, minted, opener, known, req>>

(* SessionOwner: the subject, never the groups.  The anonymous principal   *)
(* and the service token are subjects of their own.                        *)
OwnerWithGroups(principal) ==
  IF principal.groups = {} THEN principal.subject ELSE "a member"
OwnerOf(principal) == principal.subject
Ended == [pc |-> "idle", as |-> None, method |-> None, asked |-> None, id |-> None]
Holds(id) == id \in DOMAIN owners

Init ==
  /\ sessions = {} /\ owners = <<>> /\ lock = None
  /\ minted = 0 /\ opener = <<>> /\ known = {}
  /\ req = [r \in Requests |-> Ended]

At(r, pc) == req[r].pc = pc
Goto(r, pc) == req' = [req EXCEPT ![r].pc = pc]
Answer(r) == req' = [req EXCEPT ![r] = Ended]

(* authenticate_caller: nobody, unless anonymous callers are let in.       *)
Admitted(p) == p.subject # "anonymous" \/ Anonymous

(* A request arrives: with an id its client has been told, or without one. *)
Arrive(r, p, method, id) ==
  /\ At(r, "idle") /\ Admitted(p)
  /\ id \in known \cup {None}
  /\ req' = [req EXCEPT ![r] = [pc |-> IF id # None THEN "bind"
                                       ELSE IF method = "POST" THEN "count" ELSE "run",
                                as |-> p, method |-> method, asked |-> id, id |-> id]]
  /\ UNCHANGED <<sessions, owners, lock, minted, opener, known>>

(* bind_session, an id presented: admits; a refused request goes on with   *)
(* an id rmcp cannot know.                                                 *)
BindAnyRecord(r) ==
  /\ At(r, "bind") /\ lock = None
  /\ Goto(r, "run")
  /\ UNCHANGED <<sessions, owners, lock, minted, opener, known>>
Bind(r) ==
  /\ At(r, "bind") /\ lock = None
  /\ LET q == req[r]
         admits == Holds(q.id) => owners[q.id] = OwnerOf(q.as)
     IN  req' = [req EXCEPT ![r].pc = "run",
                            ![r].id = IF admits THEN q.id ELSE NoSuchSession]
  /\ UNCHANGED <<sessions, owners, lock, minted, opener, known>>

(* rmcp answers a request that carries an id, or one that cannot open a    *)
(* session: 404 or 202 for an id it does not hold, else it acts on it.     *)
RmcpHandles(r) ==
  /\ At(r, "run")
  /\ LET q == req[r] IN
     /\ sessions' = IF q.method = "DELETE" THEN sessions \ {q.id} ELSE sessions
     /\ IF q.method = "DELETE" /\ q.id \notin {None, NoSuchSession}
        THEN Goto(r, "forget") ELSE Answer(r)
  /\ UNCHANGED <<owners, lock, minted, opener, known>>

(* forget, after rmcp closed the session.                                  *)
Forget(r) ==
  /\ At(r, "forget") /\ lock = None
  /\ owners' = [i \in DOMAIN owners \ {req[r].id} |-> owners[i]]
  /\ Answer(r)
  /\ UNCHANGED <<sessions, lock, minted, opener, known>>

(* at_capacity: a read of its own, before rmcp opens the session.          *)
Count(r) ==
  /\ At(r, "count")
  /\ IF Cardinality(sessions) >= MaxSessions THEN Answer(r) ELSE Goto(r, "open")
  /\ UNCHANGED <<sessions, owners, lock, minted, opener, known>>

(* rmcp opens a session for initialize and answers anything else 422.      *)
RmcpOpens(r) ==
  /\ At(r, "open")
  /\ \/ Answer(r) /\ UNCHANGED <<sessions, minted, opener>>
     \/ /\ minted < MaxIds
        /\ minted' = minted + 1
        /\ sessions' = sessions \cup {minted'}
        /\ opener' = [i \in 1..minted' |-> IF i = minted' THEN req[r].as.subject ELSE opener[i]]
        /\ req' = [req EXCEPT ![r].pc = "record", ![r].id = minted']
  /\ UNCHANGED <<owners, lock, known>>

(* record: under the lock, drop the records of sessions rmcp no longer     *)
(* holds, then insert; only then does the client get the id.               *)
RecordSweep(r) ==
  /\ At(r, "record") /\ lock = None
  /\ lock' = r
  /\ owners' = [i \in DOMAIN owners \cap sessions |-> owners[i]]
  /\ Goto(r, "insert")
  /\ UNCHANGED <<sessions, minted, opener, known>>
RecordInsert(r) ==
  /\ At(r, "insert") /\ lock = r
  /\ lock' = None
  /\ owners' = [i \in DOMAIN owners \cup {req[r].id} |->
                  IF i = req[r].id THEN OwnerOf(req[r].as) ELSE owners[i]]
  /\ known' = known \cup {req[r].id}
  /\ Answer(r)
  /\ UNCHANGED <<sessions, minted, opener>>

(* The client goes away: the request's future is dropped where it stands,  *)
(* its lock with it.                                                       *)
Dropped(r) ==
  /\ req[r].pc # "idle"
  /\ lock' = IF lock = r THEN None ELSE lock
  /\ Answer(r)
  /\ UNCHANGED <<sessions, owners, minted, opener, known>>

(* rmcp ends a session: idle, never initialised, or its worker failed.     *)
RmcpEnds(id) ==
  /\ id \in sessions
  /\ sessions' = sessions \ {id}
  /\ UNCHANGED <<owners, lock, minted, opener, known, req>>

Next ==
  \/ \E r \in Requests :
       \/ \E p \in Principals, m \in {"POST", "GET", "DELETE"}, id \in known \cup {None} :
            Arrive(r, p, m, id)
       \/ Bind(r) \/ RmcpHandles(r) \/ Forget(r) \/ Count(r) \/ RmcpOpens(r)
       \/ RecordSweep(r) \/ RecordInsert(r) \/ Dropped(r)
  \/ \E id \in sessions : RmcpEnds(id)
Spec == Init /\ [][Next]_vars
-----------------------------------------------------------------------------
(* A session acts for the principal that opened it and for no other (D68), *)
(* and never refuses that principal, whatever its groups are by then:      *)
(* however requests, sweeps of the records, dropped requests and sessions  *)
(* that end interleave, a request that presents a session rmcp still holds *)
(* reaches it exactly when it is its opener's.                             *)
SessionsAnswerToTheirOwner ==
  \A r \in Requests :
    (At(r, "run") /\ req[r].asked \in sessions) =>
      (req[r].id = req[r].asked <=> opener[req[r].asked] = req[r].as.subject)

-----------------------------------------------------------------------------
(***************************************************************************)
(* The MCP move tool: GET the source, PUT its bytes at the destination,    *)
(* DELETE the source, three requests to the HTTP API of which any may fail *)
(* before or after it took effect, while another writer stores and removes *)
(* objects.  An ETag is a function of the bytes, so it is the bytes.       *)
(***************************************************************************)
CONSTANTS Bytes, Budget, Size(_), MaxWrites

VARIABLES object,   \* key -> bytes or None
          move,     \* the tool call
          writes    \* how often the other writer has written

moveVars == <<object, move, writes>>
Ends == {"from", "to"}

Called(key, tag) == [pc |-> "get", from |-> key, ifMatch |-> tag,
                     etag |-> None, body |-> None, removed |-> None, answer |-> None]
Idle == [Called(None, None) EXCEPT !.pc = "idle"]

MoveInit ==
  /\ object \in [Ends -> Bytes \cup {None}] /\ writes = 0 /\ move = Idle

(* from and to that name one object are refused before any request.        *)
Call(from, to, tag) ==
  /\ move.pc = "idle"
  /\ move' = IF from = to THEN [Called(from, tag) EXCEPT !.pc = "done", !.answer = "InvalidRequest"]
             ELSE Called(from, tag)
  /\ UNCHANGED <<object, writes>>

Fail(why) == move' = [move EXCEPT !.pc = "done", !.answer = why]

Get ==
  /\ move.pc = "get"
  /\ LET found == object["from"] IN
     \/ found = None /\ Fail("NotFound")
     \/ found # None /\ move.ifMatch \notin {None, found} /\ Fail("PreconditionFailed")
     \/ /\ found # None /\ move.ifMatch \in {None, found}
        /\ IF Size(found) > Budget THEN Fail("InvalidRequest")
           ELSE move' = [move EXCEPT !.pc = "put", !.etag = found, !.body = found]
     \/ Fail("Transport")
  /\ UNCHANGED <<object, writes>>

(* A refusal changes nothing; a 503 comes after the bytes are stored, and  *)
(* an answer may be lost either way.                                       *)
Put ==
  /\ move.pc = "put"
  /\ \/ object' = [object EXCEPT !["to"] = move.body] /\ move' = [move EXCEPT !.pc = "delete"]
     \/ /\ object' = [object EXCEPT !["to"] = move.body]
        /\ \E why \in {"BackendUnavailable", "Transport"} : Fail(why)
     \/ UNCHANGED object /\ \E why \in {"refused", "Transport"} : Fail(why)
  /\ UNCHANGED writes

(* The delete is conditional on the version that was copied.  A refusal   *)
(* is reported as a partial move; so is a 503, which comes after the       *)
(* object is gone; and the answer may be lost either way.                  *)
Deleted == /\ object' = [object EXCEPT !["from"] = None]
           /\ \E answer \in {"moved", "Partial", "Transport"} :
                move' = [move EXCEPT !.pc = "done", !.answer = answer, !.removed = object["from"]]
Delete ==
  /\ move.pc = "delete"
  /\ \/ object["from"] = move.etag /\ Deleted
     \/ \E why \in {"Partial", "Transport"} : Fail(why) /\ UNCHANGED object
  /\ UNCHANGED writes

(* Another writer.                                                         *)
Other(key, bytes) ==
  /\ writes < MaxWrites
  /\ object' = [object EXCEPT ![key] = bytes]
  /\ writes' = writes + 1
  /\ UNCHANGED move

MoveNext ==
  \/ \E from, to \in Ends, tag \in Bytes \cup {None} : Call(from, to, tag)
  \/ Get \/ Put \/ Delete
  \/ \E key \in Ends, bytes \in Bytes \cup {None} : Other(key, bytes)
MoveSpec == MoveInit /\ [][MoveNext]_moveVars
-----------------------------------------------------------------------------
(* A move never destroys bytes it did not copy: what its delete takes away *)
(* is the version it stored at the destination, whatever another writer    *)
(* did since it read it; and one that answers "moved" took it away.        *)
MoveTakesOnlyItsCopy ==
  /\ move.removed \in {None, move.body}
  /\ move.answer = "moved" => move.removed # None

=============================================================================
