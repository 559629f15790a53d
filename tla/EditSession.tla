---------------------------- MODULE EditSession ----------------------------
(***************************************************************************)
(* One object read, edited, appended to and searched-and-replaced through   *)
(* the MCP tools: the tool's span becomes a header, the API parses the      *)
(* header, and the write path splices.  One request at a time, on every     *)
(* text the requests themselves can build; what concurrent requests do to   *)
(* each other is ObjectRewrite's subject.                                   *)
(***************************************************************************)
EXTENDS Ranges, SequencesExt

CONSTANTS Bodies,       \* the texts a request may carry
          MaxSize,      \* max_patchable_size
          MaxArg        \* bound: the largest number an argument takes

VARIABLES text,         \* the stored object
          before,       \* what it was when the last request arrived
          request,      \* the last request
          response      \* its answer, None when it was refused

vars == <<text, before, request, response>>

Args == 0 .. MaxArg \cup {Absent}

Pairs == Args \X Args

NoPair == <<Absent, Absent>>

\* The object exists, and is empty; no request has been made.
Init ==
    /\ text = <<>> /\ before = <<>>
    /\ request = [op |-> "none"] /\ response = None

\* A request arrives when the last one has been answered.
Ask(r) ==
    /\ request.op = "none"
    /\ request' = r
    /\ before' = text

Refused == response' = None /\ UNCHANGED text

\* The caller takes the answer.
Answered ==
    /\ request.op # "none"
    /\ request' = [op |-> "none"] /\ response' = None /\ before' = text
    /\ UNCHANGED text

\* PATCH with a Content-Range and the current ETag.
Patched(unit, spec, body) ==
    LET r == IF unit = "lines" THEN ParseLines(spec) ELSE ParseContentBytes(spec)
        new == IF r = None THEN None ELSE PatchRange(text, unit, r, body, MaxSize)
    IN  \/ new = None /\ Refused
        \/ new # None /\ text' = new /\ response' = "ok"

Patch(unit, spec, body) ==
    /\ Ask([op |-> "edit", unit |-> unit, spec |-> spec, body |-> body])
    /\ Patched(unit, spec, body)

\* The edit tool makes that header of its four arguments.
Edit(unit, pair, body) ==
    /\ Ask([op |-> "edit", unit |-> unit, spec |-> pair, body |-> body])
    /\ LET header == IF unit = "lines" THEN EditHeader(pair, NoPair) ELSE EditHeader(NoPair, pair)
       IN  \/ header = None /\ Refused
           \/ header # None /\ Patched(header.unit, header.spec, body)

AppendTo(body) ==
    /\ Ask([op |-> "append", body |-> body])
    /\ LET new == PatchAppend(text, body, MaxSize)
       IN  \/ new = None /\ Refused
           \/ new # None /\ text' = new /\ response' = "ok"

Replace(needle, body, all) ==
    /\ Ask([op |-> "replace", needle |-> needle, body |-> body, all |-> all])
    /\ LET done == IF needle = <<>> THEN None ELSE ReplaceIn(text, needle, body, all, MaxSize)
       IN  \/ done = None /\ Refused
           \/ done # None /\ text' = done[1] /\ response' = [count |-> done[2]]

\* GET with a Range: the slice, the lines or bytes its Content-Range names, and for
\* lines the bytes too, as X-Content-Range-Bytes or, when the slice is empty, as
\* X-Insert-Offset.
Fetched(unit, spec) ==
    LET r == IF unit = "lines" THEN ParseLines(spec) ELSE ParseBytes(spec)
        range == IF r = None THEN None ELSE RangeIn(text, unit, r)
        inclusive == <<range[1], range[2] - 1>>
    IN  IF range = None THEN None
        ELSE [slice  |-> Slice(text, range),
              unit   |-> unit,
              named  |-> IF unit = "lines" THEN ContentRangeLines(text, r) ELSE inclusive,
              bytes  |-> IF unit = "lines" /\ range[1] # range[2] THEN inclusive ELSE NoPair,
              offset |-> IF unit = "lines" /\ range[1] = range[2] THEN range[1] ELSE Absent]

Get(unit, spec) ==
    /\ Ask([op |-> "get", unit |-> unit, spec |-> spec])
    /\ response' = Fetched(unit, spec)
    /\ UNCHANGED text

\* Mutant: the end is the header's, which is inclusive.
ReadMetaInclusive(got) ==
    LET start == IF got.unit = "whole" THEN 0
                 ELSE IF got.unit = "bytes" THEN got.named[1]
                 ELSE IF got.offset # Absent THEN got.offset
                 ELSE got.bytes[1]
    IN  [slice |-> got.slice,
         lines |-> IF got.unit = "lines" THEN got.named ELSE NoPair,
         bytes |-> <<start, IF got.slice = <<>> THEN start ELSE start + Len(got.slice) - 1>>]

\* ReadMeta::from_response: the end of the slice is counted from its bytes.
ReadMeta(got) ==
    LET start == IF got.unit = "whole" THEN 0
                 ELSE IF got.unit = "bytes" THEN got.named[1]
                 ELSE IF got.offset # Absent THEN got.offset
                 ELSE got.bytes[1]
    IN  [slice |-> got.slice,
         lines |-> IF got.unit = "lines" THEN got.named ELSE NoPair,
         bytes |-> <<start, start + Len(got.slice)>>]

\* The read tool makes a Range of its four arguments and answers with the metadata.
ReadSpan(unit, pair) ==
    /\ Ask([op |-> "read", unit |-> unit, spec |-> pair])
    /\ LET header == IF unit = "lines" THEN ReadHeader(pair, NoPair) ELSE ReadHeader(NoPair, pair)
           got == IF header = None THEN None
                  ELSE IF header.unit = "whole" THEN [unit |-> "whole", slice |-> text]
                  ELSE Fetched(header.unit, header.spec)
       IN  response' = IF got = None THEN None ELSE ReadMeta(got)
    /\ UNCHANGED text

Next ==
    \/ \E unit \in {"bytes", "lines"}, spec \in Pairs, body \in Bodies :
            Patch(unit, spec, body) \/ Edit(unit, spec, body)
    \/ \E unit \in {"bytes", "lines"}, spec \in Pairs : Get(unit, spec) \/ ReadSpan(unit, spec)
    \/ \E body \in Bodies : AppendTo(body)
    \/ \E needle, body \in Bodies, all \in BOOLEAN : Replace(needle, body, all)
    \/ Answered

Spec == Init /\ [][Next]_vars

----------------------------------------------------------------------------
(* The reference: a text is its lines, each with the line feed that ends it.  *)

LineEnds(t) == {i \in DOMAIN t : t[i] = LF \/ i = Len(t)}

\* The n-th line of t is what lies between two consecutive ends.
RefLines(t) ==
    LET ends == SetToSortSeq(LineEnds(t), <)
    IN  [n \in 1 .. Len(ends) |-> SubSeq(t, (IF n = 1 THEN 0 ELSE ends[n - 1]) + 1, ends[n])]

\* Lines a to b of t, as one text; b may be beyond the end.
LinesBetween(t, a, b) == FlattenSeq(SubSeq(RefLines(t), a, Lesser(b, Len(RefLines(t)))))

\* The first and last line a pair of numbers names in t.
NamedLines(t, spec) ==
    LET total == Len(RefLines(t))
    IN  IF spec[1] = Absent THEN <<total - Lesser(spec[2], total) + 1, total>>
        ELSE IF spec[2] = Absent THEN <<spec[1], total>>
        ELSE spec

TypeOK ==
    /\ text \in Seq({CR, LF, "x"}) /\ before \in Seq({CR, LF, "x"})
    /\ Len(text) <= MaxSize

Accepted(op) == request.op = op /\ response # None

\* docs/API.md:1174 "Replace lines 2-3", docs/API.md:1183 "Insert before line 5": an
\* accepted edit of lines a to b replaces exactly those lines, whatever breaks
\* they end with and wherever the text ends; a = b + 1 inserts before line a.
EditReplacesItsLines ==
    Accepted("edit") /\ request.unit = "lines" =>
        LET a == NamedLines(before, request.spec)[1]
            b == NamedLines(before, request.spec)[2]
        IN  /\ a \in 1 .. Len(RefLines(before)) + 1
            /\ a > Len(RefLines(before)) => b = a - 1
            /\ text = LinesBetween(before, 1, a - 1) \o request.body
                      \o LinesBetween(before, b + 1, MaxU64)

\* And it is refused only when the span is reversed or incomplete, begins outside
\* the text or the result would be larger than the limit.
EditIsRefusedForCause ==
    request.op = "edit" /\ response = None /\ request.unit = "lines"
        /\ Absent \notin {request.spec[1], request.spec[2]} =>
        LET a == request.spec[1]  b == request.spec[2]
        IN  \/ a = 0 \/ a > b + 1
            \/ a > Len(RefLines(before)) + (IF a = b + 1 THEN 1 ELSE 0)
            \/ Len(before) - Len(LinesBetween(before, a, b)) + Len(request.body) > MaxSize

\* A response's Content-Range names the slice it carries.
ContentRangeNamesTheSlice ==
    Accepted("get") =>
        LET r == IF request.unit = "lines" THEN ParseLines(response.named)
                 ELSE ParseContentBytes(response.named)
            range == IF r = None THEN None ELSE RangeIn(text, request.unit, r)
        IN  range # None /\ Slice(text, range) = response.slice

\* tools/read.rs "pass it as if_match to edit": the lines and the bytes the read tool
\* reports are those an edit with the same numbers replaces, so an edit of what
\* was read to the text that was read changes nothing.
ReadThenEditChangesNothing ==
    Accepted("read") =>
        LET same(lines, bytes) ==
                LET header == EditHeader(lines, bytes)
                    r == IF header.unit = "lines" THEN ParseLines(header.spec)
                         ELSE ParseContentBytes(header.spec)
                IN  header # None /\ PatchRange(text, header.unit, r, response.slice, MaxSize) = text
        IN  /\ response.lines # NoPair => same(response.lines, NoPair)
            /\ response.slice # <<>> => same(NoPair, response.bytes)
            /\ Slice(text, response.bytes) = response.slice

\* replace.rs: "every non-overlapping match": the text is cut at the matches, no
\* piece between two cuts holds another, and the answer counts the cuts.
ReplaceCutsAtMatches ==
    Accepted("replace") =>
        \E cuts \in SUBSET (1 .. Len(before) - Len(request.needle) + 1) :
            LET n == request.needle
                at == SetToSortSeq(cuts, <)
                from(j) == IF j = 1 THEN 1 ELSE at[j - 1] + Len(n)
                piece(j) == SubSeq(before, from(j), IF j > Len(at) THEN Len(before) ELSE at[j] - 1)
                holds(t) == \E i \in 1 .. Len(t) - Len(n) + 1 : SubSeq(t, i, i + Len(n) - 1) = n
            IN  /\ \A i \in cuts : SubSeq(before, i, i + Len(n) - 1) = n
                /\ \A j \in 2 .. Len(at) : at[j] >= from(j)
                /\ \A j \in 1 .. Len(at) :
                        ~holds(piece(j) \o SubSeq(n, 1, Len(n) - 1))
                /\ ~holds(piece(Len(at) + 1))
                /\ response.count = Len(at)
                /\ ~request.all => Len(at) = 1
                /\ text = FlattenSeq([j \in 1 .. 2 * Len(at) + 1 |->
                               IF j % 2 = 1 THEN piece((j + 1) \div 2) ELSE request.body])
=============================================================================
