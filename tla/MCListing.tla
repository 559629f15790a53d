------------------------------ MODULE MCListing ------------------------------
(* Small texts for Listing: a folder beside a name that sorts before its    *)
(* slash, a nested key, the internal namespace (`.n` for `.notedthat`) and  *)
(* a reserved key.                                                          *)
EXTENDS Listing

MCRank == [c \in {"-", ".", "/", "a", "b", "n"} |->
              CASE c = "-" -> 1 [] c = "." -> 2 [] c = "/" -> 3
                [] c = "a" -> 4 [] c = "b" -> 5 [] c = "n" -> 6]

MCInternal == <<".", "n">>
MCNone == <<>>

MCKeys == { <<"a">>, <<"a", "/", "a">>, <<"a", "/", "b", "/", "a">>, <<"a", "-", "b">>,
            <<"b", "/", "a">>, <<"n">>, <<".", "n", "/", "a">> }
MCReserved == { <<"n">> }

MCWholeKb == <<"*", "*">>
MCPatterns == { MCWholeKb, <<"a", "/", "*", "*">>, <<"a", "/", "*">>, <<"?", "-", "*">>,
                <<"{", "a", ",", "b", "}", "/", "*", "*">> }

MatchTable == [p \in MCPatterns |-> {k \in MCKeys : PatternMatches(p, k)}]
MCMatches(p, k) == IF k \in MCKeys THEN k \in MatchTable[p] ELSE PatternMatches(p, k)
PrefixTable == [p \in MCPatterns |-> LiteralPrefix(p)]
MCLiteralFirst(p) == PrefixTable[p]
FirstTable == [k \in MCKeys |-> Split(k, Slash)[1]]
MCFirstSegment(k) == IF k \in MCKeys THEN FirstTable[k] ELSE Split(k, Slash)[1]

Grant(kind, name, under) ==
    [who |-> [kind |-> kind, name |-> name], effect |-> "allow",
     verbs |-> {"list", "read", "write"}, under |-> under]
Denial(kind, name, under) == [Grant(kind, name, under) EXCEPT !.effect = "deny"]
ListOnly(kind, under) == [Grant(kind, "", under) EXCEPT !.verbs = {"list"}]

MCPolicies ==
    LET tree == <<"a", "/", "*", "*">>
        flat == <<"a", "/", "*">>
        dash == <<"?", "-", "*">>
        both == <<"{", "a", ",", "b", "}", "/", "*", "*">>
    IN { {Grant("signed-in", "", {MCWholeKb})},
         {Grant("signed-in", "", {tree}), ListOnly("anyone", {tree})},
         {Grant("group", "g", {both}), Denial("user", "u", {flat})},
         {Grant("signed-in", "", {MCWholeKb}), Denial("group", "g", {MCWholeKb})},
         {ListOnly("anyone", {both}), Grant("user", "u", {MCWholeKb}), Denial("signed-in", "", {dash})} }

MCPrincipals == {Anyone, ServiceToken, User("u", {"g"})}
MCFolders == { <<>>, <<"a">>, <<"a", "/">>, <<"b", "/">> }
MCLimits == {1, 2}
MCObjects == { <<"a">>, <<"a", "/", "b">>, <<"n">>, <<".", "n">> }

(***************************************************************************)
(* A listing shows exactly what its caller may list, page by page and      *)
(* beside writers; a folder that may hold something is shown and leads     *)
(* somewhere; and a name that could be two things is resolved to what is   *)
(* there (listing.rs, browse.rs).                                          *)
(***************************************************************************)
ListingsAreHonest == PagesAreExact /\ DirectoriesAreHonest /\ LinksLead
=============================================================================
