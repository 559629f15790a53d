-------------------------------- MODULE Glob --------------------------------
(* The pattern language that scopes an access rule to part of a knowledge   *)
(* base (core/access/pattern.rs) and the textual helpers it shares with the *)
(* listing: keys and patterns are sequences of characters, a character is a *)
(* one-letter string.                                                       *)
(*                                                                          *)
(* KeyPattern::parse splits a pattern into segments, multiplies out the     *)
(* braces and keeps a list of brace-free alternatives; matching walks one   *)
(* alternative and the key side by side and remembers a single place to     *)
(* come back to.  The reference semantics below says what the constructs    *)
(* are documented to match, with no order of trying.                        *)
EXTENDS Integers, Sequences, SequencesExt, FiniteSets

CONSTANT MaxAlternatives    \* MAX_ALTERNATIVES

Slash == "/"
StarCh == "*"
AnyCh == "?"
Open == "{"
Comma == ","
Close == "}"

DoubleStar == <<StarCh, StarCh>>

(* str::split: n separators make n + 1 pieces, empty ones included. *)
Split(text, sep) ==
    FoldLeft(LAMBDA pieces, ch :
                 IF ch = sep THEN Append(pieces, <<>>)
                 ELSE Front(pieces) \o <<Append(Last(pieces), ch)>>,
             << <<>> >>, text)

StartsWith(text, prefix) == IsPrefix(prefix, text)

Holds(text, piece) ==
    \E i \in 1..Len(text) : StartsWith(SubSeq(text, i, Len(text)), piece)

-----------------------------------------------------------------------------
(* Parsing.  A malformed piece gives no alternative at all, <<>>: parse     *)
(* returns an error and no pattern exists.                                  *)

First(text, ch) == CHOOSE i \in 1..Len(text) :
                       /\ text[i] = ch
                       /\ \A j \in 1..(i - 1) : text[j] # ch

(* Every element of one sequence with every element of another, in order. *)
Product(left, right, Join(_, _)) ==
    FlattenSeq([i \in 1..Len(left) |->
                    [j \in 1..Len(right) |-> Join(left[i], right[j])]])

(* The brace-free texts one segment stands for; <<>> when it is refused. *)
RECURSIVE Expand(_, _)
Expand(results, rest) ==
    IF Open \notin ToSet(rest)
    THEN IF Close \in ToSet(rest) THEN <<>>
         ELSE [i \in 1..Len(results) |-> results[i] \o rest]
    ELSE LET open == First(rest, Open)
             tail == SubSeq(rest, open + 1, Len(rest))
         IN IF Close \notin ToSet(tail)
            THEN <<>>
            ELSE LET close == First(tail, Close)
                     inner == SubSeq(tail, 1, close - 1)
                     branches == Split(inner, Comma)
                     Join(r, b) == r \o SubSeq(rest, 1, open - 1) \o b
                 IN IF \/ Open \in ToSet(inner)
                       \/ Holds(inner, DoubleStar)
                       \/ <<>> \in ToSet(branches)
                       \/ Len(results) * Len(branches) > MaxAlternatives
                    THEN <<>>
                    ELSE Expand(Product(results, branches, Join),
                                SubSeq(tail, close + 1, Len(tail)))

ExpandBraces(segment) == Expand(<< <<>> >>, segment)

(* A brace-free segment is `**`, a literal, or wild with its tokens: `*`,    *)
(* `?` or a run of other characters.                                        *)
BadSegment(segment) == segment # DoubleStar /\ Holds(segment, DoubleStar)

IsWildCh(ch) == ch \in {StarCh, AnyCh}

Tokens(segment) ==
    FoldLeft(LAMBDA ts, ch :
                 IF ~IsWildCh(ch) /\ ts # <<>> /\ ~IsWildCh(Last(ts)[1])
                 THEN Front(ts) \o <<Append(Last(ts), ch)>>
                 ELSE Append(ts, <<ch>>),
             <<>>, segment)

RefusedSegment(raw) ==
    \/ raw \in {<<>>, <<".">>, <<".", ".">>}
    \/ ExpandBraces(raw) = <<>>
    \/ \E e \in ToSet(ExpandBraces(raw)) : BadSegment(e)

(* KeyPattern::parse: the alternatives, <<>> for a refused pattern. *)
Parse(source) ==
    FoldLeft(LAMBDA alternatives, raw :
                 IF \/ alternatives = <<>> \/ RefusedSegment(raw)
                    \/ Len(alternatives) * Len(ExpandBraces(raw)) > MaxAlternatives
                 THEN <<>>
                 ELSE Product(alternatives, ExpandBraces(raw), Append),
             << <<>> >>, Split(source, Slash))

-----------------------------------------------------------------------------
(* Matching: two cursors and one remembered backtrack point. *)

(* Mutant: a failed guess resumes after the character it failed on. *)
RECURSIVE TokenWalkShort(_, _, _, _, _, _)
TokenWalkShort(tokens, text, t, c, starT, starC) ==
    IF c > Len(text)
    THEN \A i \in t..Len(tokens) : tokens[i] = <<StarCh>>
    ELSE IF t <= Len(tokens) /\ tokens[t] = <<StarCh>>
    THEN TokenWalkShort(tokens, text, t + 1, c, t, c)
    ELSE IF t <= Len(tokens) /\ tokens[t] = <<AnyCh>>
    THEN TokenWalkShort(tokens, text, t + 1, c + 1, starT, starC)
    ELSE IF t <= Len(tokens) /\ StartsWith(SubSeq(text, c, Len(text)), tokens[t])
    THEN TokenWalkShort(tokens, text, t + 1, c + Len(tokens[t]), starT, starC)
    ELSE IF starT = 0 THEN FALSE
    ELSE TokenWalkShort(tokens, text, starT + 1, c + 1, starT, c + 1)

RECURSIVE TokenWalk(_, _, _, _, _, _)
TokenWalk(tokens, text, t, c, starT, starC) ==
    IF c > Len(text)
    THEN \A i \in t..Len(tokens) : tokens[i] = <<StarCh>>
    ELSE IF t <= Len(tokens) /\ tokens[t] = <<StarCh>>
    THEN TokenWalk(tokens, text, t + 1, c, t, c)
    ELSE IF t <= Len(tokens) /\ tokens[t] = <<AnyCh>>
    THEN TokenWalk(tokens, text, t + 1, c + 1, starT, starC)
    ELSE IF t <= Len(tokens) /\ StartsWith(SubSeq(text, c, Len(text)), tokens[t])
    THEN TokenWalk(tokens, text, t + 1, c + Len(tokens[t]), starT, starC)
    ELSE IF starT = 0 THEN FALSE
    ELSE TokenWalk(tokens, text, starT + 1, starC + 1, starT, starC + 1)

MatchTokens(tokens, text) == TokenWalk(tokens, text, 1, 1, 0, 0)

IsLiteral(segment) == \A i \in 1..Len(segment) : ~IsWildCh(segment[i])

SegmentMatches(segment, candidate) ==
    IF IsLiteral(segment) THEN segment = candidate
    ELSE MatchTokens(Tokens(segment), candidate)

RECURSIVE SegmentWalk(_, _, _, _, _, _)
SegmentWalk(pattern, key, p, k, starP, starK) ==
    IF k > Len(key)
    THEN \A i \in p..Len(pattern) : pattern[i] = DoubleStar
    ELSE IF p <= Len(pattern) /\ pattern[p] = DoubleStar
    THEN SegmentWalk(pattern, key, p + 1, k, p, k)
    ELSE IF p <= Len(pattern) /\ SegmentMatches(pattern[p], key[k])
    THEN SegmentWalk(pattern, key, p + 1, k + 1, starP, starK)
    ELSE IF starP = 0 THEN FALSE
    ELSE SegmentWalk(pattern, key, starP + 1, starK + 1, starP, starK + 1)

MatchSegments(pattern, key) == SegmentWalk(pattern, key, 1, 1, 0, 0)

PatternMatches(source, key) ==
    \E a \in ToSet(Parse(source)) : MatchSegments(a, Split(key, Slash))

(* The first segment when every alternative starts with the same literal;   *)
(* <<>> stands for None, since no segment is empty.                         *)
LiteralPrefix(source) ==
    LET firsts == {a[1] : a \in ToSet(Parse(source))}
    IN IF Cardinality(firsts) = 1 /\ \A f \in firsts : IsLiteral(f)
       THEN CHOOSE f \in firsts : TRUE
       ELSE <<>>

-----------------------------------------------------------------------------
(* What the constructs are documented to match (pattern.rs, the table in    *)
(* its header), by trying every way to divide the key.                      *)

RECURSIVE TextFits(_, _)
TextFits(glob, text) ==
    IF glob = <<>> THEN text = <<>>
    ELSE IF glob[1] = StarCh
    THEN \E n \in 0..Len(text) : TextFits(Tail(glob), SubSeq(text, n + 1, Len(text)))
    ELSE /\ text # <<>>
         /\ glob[1] \in {AnyCh, text[1]}
         /\ TextFits(Tail(glob), Tail(text))

RECURSIVE SegmentsFit(_, _)
SegmentsFit(pattern, key) ==
    IF pattern = <<>> THEN key = <<>>
    ELSE IF pattern[1] = DoubleStar
    THEN \E n \in 0..Len(key) : SegmentsFit(Tail(pattern), SubSeq(key, n + 1, Len(key)))
    ELSE /\ key # <<>>
         /\ TextFits(pattern[1], key[1])
         /\ SegmentsFit(Tail(pattern), Tail(key))

(* The texts a source with braces stands for, taken whole rather than       *)
(* segment by segment.                                                      *)
RECURSIVE Spellings(_)
Spellings(source) ==
    IF Open \notin ToSet(source) THEN {source}
    ELSE LET open == First(source, Open)
             close == First(source, Close)
             head == SubSeq(source, 1, open - 1)
             rest == SubSeq(source, close + 1, Len(source))
         IN {head \o b \o r : b \in ToSet(Split(SubSeq(source, open + 1, close - 1), Comma)),
                              r \in Spellings(rest)}

Fits(source, key) ==
    \E text \in Spellings(source) : SegmentsFit(Split(text, Slash), Split(key, Slash))

=============================================================================
