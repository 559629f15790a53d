------------------------------ MODULE MCWebDav ------------------------------
(***************************************************************************)
(* Two surfaces of the write path for TLC, one per behaviour (subject).     *)
(* WebDAV: an object "d" beside a folder "d", a reserved key, one client    *)
(* that asks for anything and one that writes.  The rewrites of the HTTP    *)
(* API: two texts, one the other's beginning, an append, a replaced range   *)
(* and a search-and-replace.                                                *)
(***************************************************************************)
EXTENDS ObjectRewrite, TLC

Header == INSTANCE IfHeader

D == <<"d">>
DX == <<"d", "x">>
Search == <<"search">>

MCKeys == {D, DX, Search}
MCRank == (D :> 1) @@ (DX :> 2) @@ (Search :> 3)
MCReserved == {Search}
MCVisible == {D, DX}
One == <<1, 2>>
Two == <<3>>
DavContents == {One, Two}

Path(k) == [kind |-> "path", key |-> k]
At(kind) == [kind |-> kind, key |-> <<>>]
Free == [match |-> None, absent |-> FALSE]
IfMatch(v) == [match |-> v, absent |-> FALSE]
IfAbsent == [match |-> None, absent |-> TRUE]

Ask(method, target) ==
    [method |-> method, target |-> target, dst |-> At("absent"), overwrite |-> "T", cond |-> Free,
     ifs |-> None, content |-> None, body |-> "whole", depth |-> "0"]

If(tag, not, v) == <<[resource |-> tag, terms |-> <<Header!Term(not, v)>>]>>

Puts == {[Ask("PUT", Path(k)) EXCEPT !.content = v, !.cond = cond] :
            k \in {D, DX}, v \in DavContents, cond \in {Free, IfMatch(One), IfAbsent}}
Deletes == {[Ask("DELETE", Path(k)) EXCEPT !.cond = cond] : k \in MCKeys, cond \in {Free, IfMatch(One)}}
Moves == {[Ask(method, Path(pair[1])) EXCEPT !.dst = Path(pair[2]), !.overwrite = overwrite] :
            method \in {"COPY", "MOVE"}, pair \in {<<D, DX>>, <<DX, D>>, <<Search, DX>>},
            overwrite \in {"T", "F"}}
Conditional == {[Ask("MOVE", Path(D)) EXCEPT !.dst = Path(DX), !.cond = cond, !.ifs = ifs] :
            cond \in {Free, IfMatch(One)},
            ifs \in {Header!Malformed, If(None, FALSE, One), If(DX, FALSE, Two), If(DX, TRUE, One)}}
Reads == {[Ask("PROPFIND", t) EXCEPT !.depth = depth] :
            t \in {Path(D), At("kb"), At("root"), At("undeclared"), At("bad")},
            depth \in {"0", "1", "infinity", "invalid"}}
         \cup {Ask("GET", t) : t \in {Path(D), Path(DX), At("kb"), At("bad")}}
Updates == {[Ask("PROPPATCH", t) EXCEPT !.body = body, !.cond = cond] :
            t \in {Path(D), At("kb"), At("undeclared")}, body \in {"whole", "read"},
            cond \in {Free, IfMatch(One)}}
Refused == {[Ask("PUT", t) EXCEPT !.content = One, !.body = body] :
                t \in {Path(D), Path(Search), At("kb"), At("undeclared")},
                body \in {"too_large", "length_mismatch", "write"}}
           \cup {Ask("DELETE", At("kb")), Ask("MKCOL", Path(D)), Ask("OPTIONS", Path(D)), Ask("LOCK", Path(D))}
           \cup {[Ask("MOVE", t) EXCEPT !.dst = d, !.overwrite = o] :
                    t \in {Path(D), At("kb")}, o \in {"T", "other"},
                    d \in {Path(Search), Path(D), At("absent"), At("fragment"), At("elsewhere"),
                           At("bad"), At("kb"), [kind |-> "other base", key |-> D]}}

CONSTANTS reader, writer, Subjects
MCBudget == (reader :> 1) @@ (writer :> 2)
DavClients == {reader, writer}
MCAsks == (reader :> Puts \cup Deletes \cup Moves \cup Conditional \cup Reads \cup Updates \cup Refused)
          @@ (writer :> {r \in Puts \cup Deletes \cup Moves :
                            /\ r.cond = Free /\ r.overwrite = "T"
                            /\ r.method # "COPY" /\ r.target # Path(Search)})

VARIABLES subject, store, job, left, faults

davVars == <<store, job, left, faults>>

Dav == INSTANCE WebDav WITH
    Clients <- DavClients, Asks <- MCAsks, Keys <- MCKeys, Rank <- MCRank, Reserved <- MCReserved,
    Visible <- MCVisible, Contents <- DavContents, Budget <- MCBudget,
    MaxEntries <- 1, MaxScanned <- 2, PageCap <- 1, MaxFaults <- 1

CONSTANTS c1, c2
MCContents == {<<"x">>, <<"x", "y", "x", "y">>}
MCRewrites == {[mode |-> "append", body |-> <<"y">>],
               [mode |-> "range", unit |-> "bytes", body |-> <<"z", "z">>,
                range |-> [form |-> "from_start", first |-> 0, last |-> 0]],
               [mode |-> "replace", needle |-> <<"x">>, body |-> <<>>, all |-> FALSE]}

MCInit ==
    /\ subject \in Subjects
    /\ Dav!Init /\ (subject # "webdav" => store = [k \in MCKeys |-> None])
    /\ Init /\ (subject # "rewrite" => object = NoObject)

MCNext ==
    /\ UNCHANGED subject
    /\ \/ subject = "webdav" /\ Dav!Next /\ UNCHANGED vars
       \/ subject = "rewrite" /\ Next /\ UNCHANGED davVars

MCSpec == MCInit /\ [][MCNext]_<<subject, vars, davVars>>


(***************************************************************************)
(* WebDAV: the client's preconditions hold of the object at the moment of  *)
(* the write, and a MOVE removes only the content that it copied           *)
(* (copy_move.rs).                                                         *)
(***************************************************************************)
DavWritesAreConditional == Dav!PreconditionsHoldAtTheWrite /\ Dav!MoveRemovesWhatItCopied
=============================================================================
