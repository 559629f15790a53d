------------------------------- MODULE Ranges -------------------------------
(***************************************************************************)
(* Byte and line ranges (notedthat-core/src/range.rs), the splices that     *)
(* PATCH and replace make with them (notedthat-write/src/patch.rs,          *)
(* replace.rs) and the spans the MCP tools read and edit                    *)
(* (notedthat-mcp/src/tools/range.rs).                                      *)
(*                                                                         *)
(* A text is a sequence of bytes, of which only the line breaks CR and LF   *)
(* have a meaning.  A range is <<start, end>>, zero-based and exclusive of  *)
(* its end as in Rust, and None where the code returns None or an error.    *)
(* A header's numbers are kept as a pair <<first, last>>, either of which   *)
(* may be Absent; their spelling in digits is left out.                     *)
(***************************************************************************)
EXTENDS Integers, Sequences

CONSTANTS MaxU64,       \* the largest number a header or an argument can hold
          None,         \* no range, or a refusal
          Absent        \* a number that was not given

ASSUME MaxU64Assumption == MaxU64 \in Nat
ASSUME NoneAssumption == None \notin Nat

CR == "cr"

LF == "lf"

Lesser(m, n) == IF m < n THEN m ELSE n

----------------------------------------------------------------------------
\* ByteRange::to_exclusive_range.
FromStart(first, last, size) ==
    IF first > last \/ first >= size THEN None
    ELSE <<first, Lesser(last, size - 1) + 1>>

FromStartOpen(first, size) == IF first >= size THEN None ELSE <<first, size>>

Suffix(length, size) ==
    IF length = 0 \/ size = 0 THEN None
    ELSE <<IF length > size THEN 0 ELSE size - length, size>>

ToExclusiveRange(r, size) ==
    CASE r.form = "from_start" -> FromStart(r.first, r.last, size)
      [] r.form = "open"       -> FromStartOpen(r.first, size)
      [] r.form = "suffix"     -> Suffix(r.length, size)

----------------------------------------------------------------------------
\* LineIndex::from_bytes: the scan that jumps over CR LF as one line break and
\* starts a line after every break that is not the end of the text.
LineStarts(text) ==
    LET at(i) == text[i + 1]
        push(i) == IF i < Len(text) THEN <<i>> ELSE <<>>
        scan[i \in 0 .. Len(text)] ==
            IF i = Len(text) THEN <<>>
            ELSE IF at(i) = CR /\ i + 1 < Len(text) /\ at(i + 1) = LF
                 THEN push(i + 2) \o scan[i + 2]
            ELSE IF at(i) = LF THEN push(i + 1) \o scan[i + 1]
            ELSE scan[i + 1]
    IN  IF text = <<>> THEN <<>> ELSE <<0>> \o scan[0]

TotalLines(text) == Len(LineStarts(text))

\* LineIndex::byte_range, one operator per form of LineRange.
LinesFromStart(text, first, last) ==
    LET total == TotalLines(text)
        next  == IF last = MaxU64 THEN MaxU64 ELSE last + 1   \* saturating_add
        to    == Lesser(last, total)
    IN  IF first = 0 \/ first > total \/ first > next THEN None
        ELSE <<LineStarts(text)[first],
               IF to = total THEN Len(text) ELSE LineStarts(text)[to + 1]>>

LinesOpen(text, first) ==
    IF first = 0 \/ first > TotalLines(text) THEN None
    ELSE <<LineStarts(text)[first], Len(text)>>

LinesSuffix(text, length) ==
    LET total == TotalLines(text)
    IN  IF length = 0 \/ total = 0 THEN None
        ELSE <<LineStarts(text)[total - Lesser(length, total) + 1], Len(text)>>

LinesInsert(text, before) ==
    LET total == TotalLines(text)
    IN  IF before = 0 \/ before > total + 1 THEN None
        ELSE IF before = total + 1 THEN <<Len(text), Len(text)>>
        ELSE <<LineStarts(text)[before], LineStarts(text)[before]>>

LineByteRange(text, r) ==
    CASE r.form = "from_start" -> LinesFromStart(text, r.first, r.last)
      [] r.form = "open"       -> LinesOpen(text, r.first)
      [] r.form = "suffix"     -> LinesSuffix(text, r.length)
      [] r.form = "insert"     -> LinesInsert(text, r.before)

\* LineIndex::content_range_string: the first and last line a response names.
ContentRangeLines(text, r) ==
    LET total == TotalLines(text)
    IN  CASE r.form = "from_start" -> <<r.first, Lesser(r.last, total)>>
          [] r.form = "open"       -> <<r.first, total>>
          [] r.form = "suffix"     -> <<total - Lesser(r.length, total) + 1, total>>
          [] r.form = "insert"     -> <<r.before, r.before - 1>>

----------------------------------------------------------------------------
\* parse_byte_range_spec and parse_line_range_header: the pair of numbers on the
\* two sides of the dash.
ParseBytes(spec) ==
    LET first == spec[1]  last == spec[2]
    IN  IF first = Absent /\ last = Absent THEN None
        ELSE IF first = Absent THEN [form |-> "suffix", length |-> last]
        ELSE IF last = Absent THEN [form |-> "open", first |-> first]
        ELSE IF last < first THEN None
        ELSE [form |-> "from_start", first |-> first, last |-> last]

ParseLines(spec) ==
    LET first == spec[1]  last == spec[2]
    IN  IF first = Absent /\ last = Absent THEN None
        ELSE IF first = Absent THEN [form |-> "suffix", length |-> last]
        ELSE IF first = 0 THEN None
        ELSE IF last = Absent THEN [form |-> "open", first |-> first]
        ELSE IF last < first - 1 THEN None
        ELSE IF last = first - 1 THEN [form |-> "insert", before |-> first]
        ELSE [form |-> "from_start", first |-> first, last |-> last]

\* parse_patch_content_range: both numbers of a byte range are required.
ParseContentBytes(spec) ==
    IF Absent \in {spec[1], spec[2]} THEN None ELSE ParseBytes(spec)

\* The bytes a `Range:` or `Content-Range:` of either unit names in a text.
RangeIn(text, unit, r) ==
    IF unit = "lines" THEN LineByteRange(text, r) ELSE ToExclusiveRange(r, Len(text))

----------------------------------------------------------------------------
\* splice_bytes: the text with a range of it replaced by body.
Splice(text, range, body) ==
    SubSeq(text, 1, range[1]) \o body \o SubSeq(text, range[2] + 1, Len(text))

Slice(text, range) == SubSeq(text, range[1] + 1, range[2])

\* Mutant: the search goes on one byte after a match, not after its end.
MatchesOverlapping(text, needle) ==
    SelectSeq([i \in 1 .. Len(text) |-> i - 1],
              LAMBDA i : i + Len(needle) <= Len(text)
                         /\ SubSeq(text, i + 1, i + Len(needle)) = needle)

\* find_non_overlapping_matches: leftmost first, each after the end of the last.
Matches(text, needle) ==
    LET fits(i) == i + Len(needle) <= Len(text) /\ SubSeq(text, i + 1, i + Len(needle)) = needle
        from[i \in 0 .. Len(text)] ==
            IF i + Len(needle) > Len(text) THEN <<>>
            ELSE IF fits(i) THEN <<i>> \o from[i + Len(needle)]
            ELSE from[i + 1]
    IN  from[0]

\* splice_replacement over the first `bound` matches.
ReplaceMatches(text, needle, body, bound) ==
    LET found == Matches(text, needle)
        build[j \in 0 .. bound] ==
            IF j = 0 THEN <<>>
            ELSE build[j - 1]
                 \o SubSeq(text, (IF j = 1 THEN 0 ELSE found[j - 1] + Len(needle)) + 1, found[j])
                 \o body
    IN  build[bound] \o SubSeq(text, found[bound] + Len(needle) + 1, Len(text))

ReplacedLen(text, needle, body, bound) ==
    Len(text) - bound * Len(needle) + bound * Len(body)

\* replace_in: refused without a match, with several unless all are asked for,
\* and when the result would be larger than max; `count` is the reported number.
ReplaceIn(text, needle, body, all, max) ==
    LET count == Len(Matches(text, needle))
        bound == IF all THEN count ELSE 1
    IN  IF count = 0 \/ (count > 1 /\ ~all) THEN None
        ELSE IF ReplacedLen(text, needle, body, bound) > max THEN None
        ELSE <<ReplaceMatches(text, needle, body, bound), bound>>

\* apply_patch for the bytes and lines modes, and for append.
PatchRange(text, unit, r, body, max) ==
    LET range == RangeIn(text, unit, r)
    IN  IF range = None THEN None
        ELSE IF Len(text) - (range[2] - range[1]) + Len(body) > max THEN None
        ELSE Splice(text, range, body)

PatchAppend(text, body, max) ==
    IF Len(text) + Len(body) > max THEN None ELSE text \o body

----------------------------------------------------------------------------
\* EditSpan::parse and EditSpan::content_range of the MCP edit tool: which of the
\* four optional numbers were given, and the header they become.
EditHeader(lines, bytes) ==
    LET given(p) == p # <<Absent, Absent>>
        whole(p) == Absent \notin {p[1], p[2]}
        next(n)  == IF n = MaxU64 THEN MaxU64 ELSE n + 1
    IN  IF whole(lines) /\ ~given(bytes)
        THEN IF lines[1] = 0 \/ lines[1] > next(lines[2]) THEN None
             ELSE [unit |-> "lines", spec |-> lines]
        ELSE IF whole(bytes) /\ ~given(lines)
        THEN IF bytes[1] >= bytes[2] THEN None
             ELSE [unit |-> "bytes", spec |-> <<bytes[1], bytes[2] - 1>>]
        ELSE None

\* ReadSpan::parse and ReadSpan::range_header of the MCP read tool.
ReadHeader(lines, bytes) ==
    LET given(p) == p # <<Absent, Absent>>
        next(n)  == IF n = MaxU64 THEN MaxU64 ELSE n + 1
    IN  IF ~given(lines) /\ ~given(bytes) THEN [unit |-> "whole", spec |-> lines]
        ELSE IF given(lines) /\ given(bytes) THEN None
        ELSE IF given(lines)
        THEN IF lines[1] \in {Absent, 0} THEN None
             ELSE IF lines[2] # Absent /\ lines[1] > next(lines[2]) THEN None
             ELSE [unit |-> "lines", spec |-> lines]
        ELSE IF bytes[1] = Absent THEN None
        ELSE IF bytes[2] = Absent THEN [unit |-> "bytes", spec |-> bytes]
        ELSE IF bytes[1] >= bytes[2] THEN None
        ELSE [unit |-> "bytes", spec |-> <<bytes[1], bytes[2] - 1>>]
=============================================================================
