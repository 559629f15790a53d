------------------------------ MODULE IfHeader ------------------------------
(***************************************************************************)
(* The If request header of WebDAV (notedthat-webdav/src/if_header.rs):     *)
(* lists of conditions, each list on the request's own resource or on the   *)
(* one its tag names.  A header is a sequence of lexemes                    *)
(*     <<"(">>  <<")">>  <<"not">>  <<"angle", text>>  <<"etag", text>>     *)
(* and <<"bad">>, which stands for an unclosed or empty bracket, a blank in *)
(* a pair of angles, and any other character.                               *)
(***************************************************************************)
EXTENDS Naturals, Sequences, SequencesExt

CONSTANT None

\* A header that does not parse; a parsed one has at least one list.
Malformed == <<>>

\* One condition of a list: an entity tag, or a state token (None), which is
\* never current as there are no locks.
Term(not, etag) == [not |-> not, etag |-> etag]

\* Where Parser stands: the lists read, the tag in force, whether the lists are
\* tagged, and the list being read.
Start == [ok |-> TRUE, lists |-> <<>>, resource |-> None, tagged |-> None, due |-> FALSE,
          inside |-> FALSE, not |-> FALSE, terms |-> <<>>]

Fail(p) == [p EXCEPT !.ok = FALSE]

\* Parser::list
ReadInside(p, lexeme) ==
    CASE lexeme[1] = ")" /\ ~p.not /\ p.terms # <<>> ->
            [p EXCEPT !.inside = FALSE,
                      !.lists = Append(@, [resource |-> p.resource, terms |-> p.terms])]
      [] lexeme[1] = "not" /\ ~p.not -> [p EXCEPT !.not = TRUE]
      [] lexeme[1] = "angle" ->
            [p EXCEPT !.not = FALSE, !.terms = Append(@, Term(p.not, None))]
      [] lexeme[1] = "etag" ->
            [p EXCEPT !.not = FALSE, !.terms = Append(@, Term(p.not, lexeme[2]))]
      [] OTHER -> Fail(p)


\* IfHeader::parse, between lists: a tag holds until the next one, and is
\* followed by a list.
ReadOutside(p, lexeme) ==
    CASE lexeme[1] = "(" ->
            [p EXCEPT !.inside = TRUE, !.not = FALSE, !.terms = <<>>, !.due = FALSE,
                      !.tagged = IF @ = None THEN FALSE ELSE @]
      [] lexeme[1] = "angle" /\ ~p.due /\ p.tagged # FALSE ->
            [p EXCEPT !.tagged = TRUE, !.resource = lexeme[2], !.due = TRUE]
      [] OTHER -> Fail(p)

ReadLexeme(p, lexeme) ==
    IF ~p.ok THEN p
    ELSE IF p.inside THEN ReadInside(p, lexeme)
    ELSE ReadOutside(p, lexeme)

\* IfHeader::parse
ParseIf(header) ==
    LET p == FoldLeft(ReadLexeme, Start, header)
    IN IF p.ok /\ ~p.inside /\ ~p.due THEN p.lists ELSE Malformed

\* IfHeader::resources
Tags(lists) == {lists[i].resource : i \in DOMAIN lists} \ {None}

\* IfHeader::evaluate, with current the entity tag of each resource, None when it
\* has none.
Evaluate(lists, current) ==
    \E i \in DOMAIN lists :
        \A j \in DOMAIN lists[i].terms :
            LET term == lists[i].terms[j]
            IN (term.etag # None /\ current[lists[i].resource] = term.etag) # term.not

-----------------------------------------------------------------------------
(* The grammar of RFC 4918, section 10.4.2, as what may be written. *)

\* A condition and a list as written.
WriteTerm(term) ==
    (IF term.not THEN <<<<"not">>>> ELSE <<>>)
        \o <<IF term.etag = None THEN <<"angle", "token">> ELSE <<"etag", term.etag>>>>

WriteList(terms) ==
    <<<<"(">>>> \o FlattenSeq([j \in DOMAIN terms |-> WriteTerm(terms[j])]) \o <<<<")">>>>

\* A header is a sequence of groups: a tag (or none at all) and the lists under it.
WriteGroups(groups) ==
    FlattenSeq([g \in DOMAIN groups |->
        (IF groups[g].tag = None THEN <<>> ELSE <<<<"angle", groups[g].tag>>>>)
            \o FlattenSeq([i \in DOMAIN groups[g].lists |-> WriteList(groups[g].lists[i])])])

\* What those groups mean.
Meaning(groups) ==
    FlattenSeq([g \in DOMAIN groups |->
        [i \in DOMAIN groups[g].lists |->
            [resource |-> groups[g].tag, terms |-> groups[g].lists[i]]]])
=============================================================================
