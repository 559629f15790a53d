----------------------------- MODULE Documents ----------------------------
(***************************************************************************)
(* What happens to the bytes of a note: cut into chunks, observed for its  *)
(* metadata and preview, and staged on their way to storage.               *)
(***************************************************************************)
EXTENDS Integers, Sequences, FiniteSets, FiniteSetsExt, SequencesExt

(***************************************************************************)
(* Cutting a Markdown document into chunks for the index                    *)
(* (notedthat-indexer/src/chunker): a scanner finds the headings line by    *)
(* line, and ChunkIter walks the sections between them, splitting long ones *)
(* and merging short ones.  A text is a sequence of characters: "x" is one  *)
(* byte, "u" four, and Blanks are white space.  Positions count characters  *)
(* from zero; a chunk is [from, to, path] with `to' exclusive.              *)
(***************************************************************************)
CONSTANT None

CR == "r"
LF == "n"
Blanks == {" ", CR, LF}

Width(c) == IF c = "u" THEN 4 ELSE 1

Bytes(text) == FoldLeft(LAMBDA n, c : n + Width(c), 0, text)

IsBlank(text) == ToSet(text) \subseteq Blanks

-----------------------------------------------------------------------------
(* HeadingScanner.  A line is [is, lead, quote, indent, ticks, closes,      *)
(* depth, chars]: what its content is once container markers are taken off, *)
(* how long those are, the number of > among them, the list indent, the     *)
(* length of its fence, whether an HTML end marker is on it, and a          *)
(* heading's level.  Which content is a heading is pulldown-cmark's word.   *)

NoBlock == [kind |-> None, quote |-> 0, ticks |-> 0, indent |-> 0]

StartScan == [at |-> 0, block |-> NoBlock, paragraph |-> None, heads |-> <<>>]

\* html_continues
HtmlContinues(kind, line) ==
    IF kind = "comment" THEN ~line.closes ELSE line.is # "blank"

\* closes_fence, fence_continues
FenceContinues(fence, line) ==
    /\ ~(line.is = "fence" /\ line.ticks >= fence.ticks)
    /\ line.indent >= fence.indent

\* A line inside an open block belongs to it unless it left the block's quote.
Continues(block, line) ==
    IF block.kind = "fence" THEN FenceContinues(block, line)
    ELSE HtmlContinues(block.kind, line)

\* opens_fence, opens_html: the block this line opens and leaves open.
Opens(line) ==
    IF line.is = "fence" \/ (line.is \in {"comment", "div"} /\ HtmlContinues(line.is, line))
    THEN [kind |-> line.is, quote |-> line.quote, ticks |-> line.ticks,
          indent |-> IF line.is = "fence" THEN line.indent ELSE 0]
    ELSE NoBlock

\* depth: H4 to H6 count as H3.
Depth(level) == IF level > 3 THEN 3 ELSE level

\* parse_heading and parse_giant_atx on a line that is a heading of its own.
Found(s, start, depth) ==
    [s EXCEPT !.paragraph = None,
              !.heads = Append(@, [start |-> start, depth |-> depth,
                                   label |-> Len(s.heads) + 1])]

\* finish_line
FinishLine(s, line) ==
    LET held == IF s.block.kind # None /\ line.quote >= s.block.quote THEN s.block ELSE NoBlock
        scanned ==
          IF held # NoBlock
          THEN [s EXCEPT !.block = IF Continues(held, line) THEN held ELSE NoBlock,
                         !.paragraph = None]
          ELSE LET free == [s EXCEPT !.block = NoBlock] IN
               IF line.is \in {"fence", "comment", "div"}
               THEN [free EXCEPT !.block = Opens(line), !.paragraph = None]
               ELSE IF line.is = "atx" THEN Found(free, s.at + line.lead, Depth(line.depth))
               ELSE IF line.is = "underline" /\ s.paragraph # None
               THEN Found(free, s.paragraph, line.depth)
               ELSE [free EXCEPT !.paragraph = IF line.is = "blank" THEN None
                                               ELSE IF @ = None THEN s.at ELSE @]
    IN  [scanned EXCEPT !.at = s.at + Len(line.chars)]

\* next_heading, called until the end of the document.
Headings(lines) == FoldLeft(FinishLine, StartScan, lines).heads

-----------------------------------------------------------------------------
(* ChunkIter.  A document d is [text, heads, max, min].                      *)

\* stream_chunks and with_min_chars
Document(lines, max, min) ==
    [text |-> FlattenSeq([i \in DOMAIN lines |-> lines[i].chars]),
     heads |-> Headings(lines), max |-> max, min |-> Min({min, max \div 4})]

Span(d, from, to) == SubSeq(d.text, from + 1, to)

StartChunks == [section |-> None, next |-> 0, path |-> <<>>, held |-> None,
                finished |-> FALSE, chunk |-> None]

\* enter
Enter(path, heading) ==
    Append(SubSeq(path, 1, Min({heading.depth - 1, Len(path)})), heading.label)

\* scan_section_end: the section ends where the next heading starts.
SectionEnd(d, next) == IF next <= Len(d.heads) THEN d.heads[next].start ELSE Len(d.text)

Boundary(start, path) == [start |-> start, path |-> path]

\* prepare_section: the next section that is not empty.
RECURSIVE PrepareSection(_, _)
PrepareSection(d, it) ==
    IF it.next > Len(d.heads) THEN [it EXCEPT !.finished = TRUE]
    ELSE LET path == IF it.next = 0 THEN <<>> ELSE Enter(it.path, d.heads[it.next])
             start == IF it.next = 0 THEN 0 ELSE d.heads[it.next].start
             end == SectionEnd(d, it.next + 1)
             moved == [it EXCEPT !.next = @ + 1, !.path = path]
         IN  IF start < end
             THEN [moved EXCEPT !.section = [cursor |-> start, end |-> end,
                                             boundaries |-> <<Boundary(start, path)>>]]
             ELSE PrepareSection(d, moved)

\* short_span
IsShort(d, section) == section.end - section.cursor < d.min

\* absorb_short_span
RECURSIVE AbsorbShortSpan(_, _)
AbsorbShortSpan(d, it) ==
    IF it.next > Len(d.heads) \/ ~IsShort(d, it.section) THEN it
    ELSE LET s == it.section
             path == Enter(it.path, d.heads[it.next])
             bounds == IF IsBlank(Span(d, s.cursor, s.end))
                       THEN <<Boundary(s.cursor, path)>>
                       ELSE Append(s.boundaries, Boundary(d.heads[it.next].start, path))
         IN  AbsorbShortSpan(d, [it EXCEPT !.next = @ + 1, !.path = path,
                                           !.section.end = SectionEnd(d, it.next + 1),
                                           !.section.boundaries = bounds])

\* fill: the unread part of a section, as far as four bytes a character of the
\* bound reach; a character cut in two at the end waits.
Lookahead(d, section) ==
    LET rest == Span(d, section.cursor, section.end)
        whole == {n \in 0 .. Min({Len(rest), 4 * d.max}) : Bytes(SubSeq(rest, 1, n)) <= 4 * d.max}
    IN  SubSeq(rest, 1, Max(whole))

\* split_byte.  A CR with its LF to come is not a place to cut.
CrPending(text, i, complete) ==
    text[i] = CR /\ (IF i < Len(text) THEN text[i + 1] = LF ELSE ~complete)

LineEnd(text, i, complete) ==
    text[i] = LF \/ (text[i] = CR /\ ~CrPending(text, i, complete))

\* A line end with only white space between it and the one before.
ParagraphEnd(text, i, complete) ==
    /\ LineEnd(text, i, complete)
    /\ \E j \in 1 .. i - 1 : LineEnd(text, j, complete) /\ IsBlank(SubSeq(text, j, i))

\* split_byte: how many characters the next chunk takes.
Split(text, max, min, complete) ==
    IF complete /\ Len(text) <= max THEN Len(text)
    ELSE LET limit == IF complete THEN Min({max, Len(text) - min}) ELSE max
             near == {i \in (max * 3) \div 4 .. limit :
                        i > 0 /\ text[i] \in Blanks /\ ~CrPending(text, i, complete)}
             paragraphs == {i \in near : ParagraphEnd(text, i, complete)}
         IN  IF paragraphs # {} THEN Max(paragraphs)
             ELSE IF near # {} THEN Max(near)
             ELSE IF CrPending(text, limit, complete) /\ limit > 1 THEN limit - 1
             ELSE limit

\* Section::heading_path: boundaries the cursor has passed are dropped.
Reached(section) ==
    LET passed == {i \in 2 .. Len(section.boundaries) :
                     \A j \in 2 .. i : section.boundaries[j].start <= section.cursor}
    IN  SubSeq(section.boundaries, Cardinality(passed) + 1, Len(section.boundaries))

\* next_chunk: the chunk found, or None at the end, in it.chunk.
CutSection(d, it) ==
    LET s == it.section
        ahead == Lookahead(d, s)
        to == s.cursor + Split(ahead, d.max, d.min, Len(ahead) = s.end - s.cursor)
        bounds == Reached(s)
    IN  [it EXCEPT !.section.cursor = to, !.section.boundaries = bounds,
                   !.chunk = [from |-> s.cursor, to |-> to, path |-> bounds[1].path]]

CutOrEnd(d, it) ==
    IF it.finished THEN [it EXCEPT !.chunk = None] ELSE CutSection(d, AbsorbShortSpan(d, it))

NextChunk(d, it) ==
    CutOrEnd(d, IF ~it.finished /\ (it.section = None \/ it.section.cursor = it.section.end)
                THEN PrepareSection(d, it) ELSE it)

\* The merge of next_merged: a short or blank neighbour that fits is taken in.
Mergeable(d, held, next) ==
    /\ d.min > 0
    /\ \/ IsBlank(Span(d, held.from, held.to)) \/ IsBlank(Span(d, next.from, next.to))
       \/ next.to - next.from < d.min
    /\ (held.to - held.from) + (next.to - next.from) <= d.max

\* Mutant: the merged chunk keeps the heading of the white space it starts with.
MergedKeepsPath(d, held, next) == [held EXCEPT !.to = next.to]

Merged(d, held, next) ==
    [held EXCEPT !.to = next.to,
                 !.path = IF IsBlank(Span(d, held.from, held.to)) THEN next.path ELSE @]

\* next_merged, until the iterator ends: every chunk it yields, given an
\* iterator that has just been advanced.  White space that fits nowhere is
\* dropped.
Released(d, held) ==
    IF held = None \/ (d.min > 0 /\ IsBlank(Span(d, held.from, held.to))) THEN <<>> ELSE <<held>>

RECURSIVE Yielded(_, _)
Yielded(d, it) ==
    LET merges == it.held # None /\ Mergeable(d, it.held, it.chunk)
    IN  IF it.chunk = None THEN Released(d, it.held)
        ELSE (IF merges THEN <<>> ELSE Released(d, it.held))
             \o Yielded(d, NextChunk(d, [it EXCEPT !.held = IF merges THEN Merged(d, @, it.chunk)
                                                            ELSE it.chunk]))

Chunks(d) == Yielded(d, NextChunk(d, StartChunks))

-----------------------------------------------------------------------------
(* What ChunkIter promises.                                                  *)

\* The headings a position lies under.
PathAt(d, at) ==
    FoldLeft(Enter, <<>>, SelectSeq(d.heads, LAMBDA h : h.start <= at))

\* Where a chunk's content starts; a blank chunk is all content.
ContentStart(d, c) ==
    LET solid == {i \in c.from .. c.to - 1 : d.text[i + 1] \notin Blanks}
    IN  IF solid = {} THEN c.from ELSE Min(solid)

\* Chunks follow each other, leave out nothing but white space, never part a CR
\* from its LF, and carry the headings their first words stand under.
AreSound(d, cs) ==
    LET size(i) == cs[i].to - cs[i].from
        left == 0 .. Len(d.text) - 1 \ UNION {cs[i].from .. cs[i].to - 1 : i \in DOMAIN cs}
    IN  /\ \A i \in DOMAIN cs :
             /\ size(i) \in 1 .. d.max
             /\ i < Len(cs) => cs[i].to <= cs[i + 1].from /\ size(i) >= d.min
             /\ d.min > 0 => ~IsBlank(Span(d, cs[i].from, cs[i].to))
             /\ d.max > 1 /\ d.text[cs[i].to] = CR /\ cs[i].to < Len(d.text)
                    => d.text[cs[i].to + 1] # LF
             /\ cs[i].path = PathAt(d, ContentStart(d, cs[i]))
        /\ \A i \in left : d.min > 0 /\ d.text[i + 1] \in Blanks

\* "No chunk is only whitespace, no chunk exceeds the character bound, and only
\* the last chunk can be shorter than the minimum" (streaming.rs:55).
ChunksAreSound(d) == AreSound(d, Chunks(d))

-----------------------------------------------------------------------------
(***************************************************************************)
(* What the indexer learns of an object while it copies it: that the bytes *)
(* are UTF-8, the prefix the frontmatter is looked for in, where the body  *)
(* starts, and the numbered chunks in batches; and the preview a search    *)
(* hit shows of a chunk.                                                   *)
(*                                                                         *)
(* A byte is one of "a" and " " (text), "n" (a line end), "-" (a line of   *)
(* three dashes is one "-"), "L" (the first of two bytes of a character),  *)
(* "C" (its second) or "X" (never valid).                                  *)
(***************************************************************************)
CONSTANTS Yaml(_), WordBackoff

Take(s, n) == SubSeq(s, 1, Min({n, Len(s)}))
Drop(s, n) == SubSeq(s, n + 1, Len(s))

(* str::from_utf8: how far the bytes are valid, and what stops them there. *)
RECURSIVE Utf8(_)
Utf8(b) ==
  IF b = <<>> THEN [upTo |-> 0, error |-> "none"]
  ELSE IF b[1] \in {"a", " ", "n", "-"} \/ (b[1] = "L" /\ Len(b) > 1 /\ b[2] = "C")
       THEN LET n == IF b[1] = "L" THEN 2 ELSE 1
                rest == Utf8(Drop(b, n))
            IN  [rest EXCEPT !.upTo = @ + n]
       ELSE [upTo |-> 0, error |-> IF b = <<"L">> THEN "incomplete" ELSE "invalid"]

-----------------------------------------------------------------------------
(* SnapshotObserver.                                                       *)
Observer == [hashed |-> <<>>, prefix |-> <<>>, incomplete |-> <<>>, ok |-> TRUE]
ObserveAlone(o, bytes, limit) ==
  LET seen == Utf8(bytes)
  IN  [hashed |-> o.hashed \o bytes,
       prefix |-> o.prefix \o Take(bytes, limit - Len(o.prefix)),
       incomplete |-> IF seen.error = "incomplete" THEN Drop(bytes, seen.upTo) ELSE <<>>,
       ok |-> o.ok /\ seen.error # "invalid"]
Observe(o, bytes, limit) ==
  LET all  == o.incomplete \o bytes
      seen == Utf8(all)
  IN  [hashed |-> o.hashed \o bytes,
       prefix |-> o.prefix \o Take(bytes, limit - Len(o.prefix)),
       incomplete |-> IF seen.error = "incomplete" THEN Drop(all, seen.upTo) ELSE <<>>,
       ok |-> o.ok /\ seen.error # "invalid"]
RECURSIVE Whole(_)
Whole(prefix) == IF Utf8(prefix).error = "incomplete" THEN Whole(Front(prefix)) ELSE prefix
Finish(o) ==
  IF ~o.ok \/ o.incomplete # <<>> \/ Utf8(Whole(o.prefix)).error # "none" THEN None
  ELSE [content |-> o.hashed, prefix |-> Whole(o.prefix)]
Observed(chunks, limit) ==
  Finish(FoldLeft(LAMBDA o, bytes : Observe(o, bytes, limit), Observer, chunks))

-----------------------------------------------------------------------------
(* concept_prefix: only a .md file other than index.md and log.md, whose   *)
(* first line is a fence and that has another; what lies between must be   *)
(* YAML that names a type.                                                 *)
LineEnds(text) == {i \in DOMAIN text : text[i] = "n"} \cup {Len(text)}
IsFence(text, from, to) == text[from] = "-" /\ (to = from \/ (to = from + 1 /\ text[to] = "n"))
ConceptPrefix(path, text) ==
  LET first   == Min(LineEnds(text))
      starts  == {e + 1 : e \in {e \in LineEnds(text) : e < Len(text)}}
      BreakAt(s) == Min({e \in LineEnds(text) : e >= s})
      closing == {s \in starts : IsFence(text, s, BreakAt(s))}
      value   == Yaml(SubSeq(text, first + 1, Min(closing) - 1))
  IN  IF ~path.md \/ path.reserved \/ text = <<>> THEN None
      ELSE IF ~IsFence(text, 1, first) \/ closing = {} THEN None
      ELSE IF value = None THEN None
      ELSE [type |-> value, body |-> BreakAt(Min(closing))]

(* BodyReader: the staged file with the frontmatter hidden.  A seek from   *)
(* the end or from where it stands may fail without moving anything.       *)
SeekTo(base, size, at, seek) ==
  CASE seek.from = "start"   -> base + seek.by
    [] seek.from = "current" -> at + seek.by
    [] seek.from = "end"     -> size + seek.by
Seek(base, size, at, seek) ==
  LET to == SeekTo(base, size, at, seek)
  IN  IF to < base THEN [at |-> IF seek.from = "end" THEN size ELSE at, said |-> None]
      ELSE [at |-> to, said |-> to - base]

-----------------------------------------------------------------------------
(* take_chunk_batch and validate_chunk_byte_bound, and the loop of         *)
(* upsert_batches over them: the batches written, or None from the first   *)
(* chunk that cannot be read or is too long.                               *)
TakeChunkBatch(cursor, size) ==
  LET n    == Min({size, Len(cursor.rest)})
      bad  == {i \in 1..n : cursor.rest[i] = None}
  IN  IF bad # {} THEN None
      ELSE [batch  |-> [i \in 1..n |-> [index |-> cursor.next + i - 1, len |-> cursor.rest[i]]],
            cursor |-> [rest |-> Drop(cursor.rest, n), next |-> cursor.next + n]]
TooLong(batch, bound) == \E i \in DOMAIN batch : batch[i].len > bound
RECURSIVE Batches(_, _, _)
Batches(cursor, size, bound) ==
  LET got == TakeChunkBatch(cursor, Max({size, 1}))
  IN  IF got = None THEN [ok |-> FALSE, wrote |-> <<>>]
      ELSE IF got.batch = <<>> THEN [ok |-> TRUE, wrote |-> <<>>]
      ELSE IF TooLong(got.batch, bound) THEN [ok |-> FALSE, wrote |-> <<>>]
      ELSE LET more == Batches(got.cursor, size, bound)
           IN  [more EXCEPT !.wrote = got.batch \o @]

(* truncate_preview, over characters.                                      *)
White(c) == c \in {" ", "n"}
RECURSIVE TrimEnd(_)
TrimEnd(text) == IF text # <<>> /\ White(Last(text)) THEN TrimEnd(Front(text)) ELSE text
TruncatePreviewHard(text, max) == Take(TrimEnd(text), max)
TruncatePreview(text, max) ==
  LET t      == TrimEnd(text)
      prefix == Take(t, max - 1)
      spaces == {i \in DOMAIN prefix : i > Len(prefix) - WordBackoff /\ White(prefix[i])}
      upTo   == IF White(t[max]) THEN prefix
                ELSE IF spaces = {} THEN prefix ELSE Take(prefix, Max(spaces) - 1)
      kept   == IF upTo = prefix /\ ~White(t[max]) THEN prefix ELSE TrimEnd(upTo)
  IN  IF max = 0 THEN <<>>
      ELSE IF Len(t) <= max THEN t
      ELSE (IF kept = <<>> THEN prefix ELSE kept) \o <<"...">>

-----------------------------------------------------------------------------
(* However storage cuts the stream, the snapshot is accepted exactly when  *)
(* the object is UTF-8, and its prefix is the longest whole one within the *)
(* limit.  (snapshot.rs: observe keeps the bytes of a character the chunk  *)
(* ended inside)                                                           *)
SnapshotIgnoresChunks(chunks, limit) ==
  LET bytes == FlattenSeq(chunks)
      facts == Observed(chunks, limit)
  IN  /\ (facts # None) <=> Utf8(bytes).error = "none"
      /\ facts # None =>
           /\ facts.content = bytes /\ facts.prefix = Take(bytes, Len(facts.prefix))
           /\ Len(facts.prefix) \in {Min({limit, Len(bytes)}), Min({limit, Len(bytes)}) - 1}

(* The body a chunker reads is the object from just behind the closing     *)
(* fence on, and a seek inside it lands where the same seek in a file      *)
(* holding only the body would.                                            *)
BodyFollowsFrontmatter(path, text, seek) ==
  LET c == ConceptPrefix(path, text)
      base == IF c = None THEN 0 ELSE c.body
      body == Drop(text, base)
  IN  /\ c # None => \E k \in 2..base : IsFence(text, k, base) /\ text[k - 1] = "n"
      /\ \A at \in 0..Len(body) :
           LET moved == Seek(base, Len(text), base + at, seek)
               alone == Seek(0, Len(body), at, seek)
           IN  moved.said = alone.said /\ moved.at = base + alone.at

(* Every chunk is written once, under its place in the object, whatever    *)
(* the batch size; a chunk that cannot be read or embedded ends the write  *)
(* with only whole batches before it.                                      *)
BatchesNumberChunks(chunks, size, bound) ==
  LET all == Batches([rest |-> chunks, next |-> 0], size, bound)
  IN  /\ \A i \in DOMAIN all.wrote : all.wrote[i] = [index |-> i - 1, len |-> chunks[i]]
      /\ all.ok <=> \A i \in DOMAIN chunks : chunks[i] # None /\ chunks[i] <= bound
      /\ all.ok => Len(all.wrote) = Len(chunks)

(* A preview never exceeds its limit, is the text itself or a beginning of *)
(* it with the mark behind, and ends inside a word only when no blank lies *)
(* in reach.                                                               *)
PreviewsAreHonest(text, max) ==
  LET p == TruncatePreview(text, max)
      t == TrimEnd(text)
      k == Len(p) - 1
  IN  /\ Len(p) <= max
      /\ max > 0 => \/ p = t
                    \/ /\ k >= 0 /\ p = Take(t, k) \o <<"...">>
                       /\ \/ White(t[k + 1])
                          \/ \A i \in 1..max - 1 : White(t[i]) =>
                               i <= max - 1 - WordBackoff \/ TrimEnd(Take(t, i)) = <<>>

-----------------------------------------------------------------------------
(***************************************************************************)
(* A request body on its way to storage: kept in memory while it is small, *)
(* spilled to a private file when it is not, refused when it is larger     *)
(* than allowed or not the length that was declared.  A body is a sequence *)
(* of chunks, a chunk a sequence of bytes; a fault strikes one step: the   *)
(* file cannot be made, what memory holds cannot be moved to it, the n-th  *)
(* chunk cannot be read or written, or the finished file cannot be synced. *)
(***************************************************************************)
CONSTANTS MemoryThreshold

NoFault == [at |-> "none", n |-> 0]
Failed(why) == [ok |-> FALSE, why |-> why]
Kept(where, body) == [ok |-> TRUE, where |-> where, body |-> body]

(* Staging as it goes: memory and file hold bytes (file None until made),  *)
(* err is why staging ended early.                                         *)
StartStaging(force, fault) ==
  [memory |-> <<>>, len |-> 0,
   file |-> IF force /\ fault.at # "create" THEN <<>> ELSE None,
   err |-> IF force /\ fault.at = "create" THEN "write" ELSE None]

SpillDropsMemory(s, fault) ==
  IF fault.at \in {"create", "spill"} THEN [s EXCEPT !.err = "write"]
  ELSE [s EXCEPT !.file = <<>>, !.memory = <<>>]
Spill(s, fault) ==
  IF fault.at \in {"create", "spill"} THEN [s EXCEPT !.err = "write"]
  ELSE [s EXCEPT !.file = s.memory, !.memory = <<>>]

TakeChunk(s, chunk, i, limit, fault) ==
  LET len == s.len + Len(chunk)
      spilled == IF s.file = None /\ Len(s.memory) + Len(chunk) > MemoryThreshold
                 THEN Spill(s, fault) ELSE s
  IN  IF s.err # None THEN s
      ELSE IF fault = [at |-> "read", n |-> i] THEN [s EXCEPT !.err = "read"]
      ELSE IF len > limit THEN [s EXCEPT !.err = "too large"]
      ELSE IF spilled.err # None THEN spilled
      ELSE IF spilled.file = None
           THEN [spilled EXCEPT !.memory = @ \o chunk, !.len = len]
      ELSE IF fault = [at |-> "write", n |-> i] THEN [spilled EXCEPT !.err = "write"]
      ELSE [spilled EXCEPT !.file = @ \o chunk, !.len = len]

RECURSIVE TakeAll(_, _, _, _, _)
TakeAll(s, chunks, i, limit, fault) ==
  IF i > Len(chunks) THEN s
  ELSE TakeAll(TakeChunk(s, chunks[i], i, limit, fault), chunks, i + 1, limit, fault)

(* stage_stream_inner: force puts the body in a file whatever its size.    *)
Stage(chunks, expected, limit, force, fault) ==
  LET s == TakeAll(StartStaging(force, fault), chunks, 1, limit, fault)
  IN  IF expected # None /\ expected > limit THEN Failed("too large")
      ELSE IF s.err # None THEN Failed(s.err)
      ELSE IF expected # None /\ expected # s.len THEN Failed("length")
      ELSE IF s.file = None THEN Kept("memory", s.memory)
      ELSE IF fault.at = "sync" THEN Failed("write")
      ELSE Kept("file", s.file)

(* StagedBody::prefix, and what a reader opened on the body sees.          *)
Prefix(staged, maximum) ==
  SubSeq(staged.body, 1, IF Len(staged.body) < maximum THEN Len(staged.body) ELSE maximum)
Opened(staged) == staged.body

(* A body is staged only whole, within the limit and of the length that    *)
(* was declared, without a fault having been passed over, and never with   *)
(* more of it in memory than the threshold; and it is refused for cause.   *)
StagesTheWholeBody(chunks, expected, limit, force, fault) ==
  LET r == Stage(chunks, expected, limit, force, fault)
      whole == FlattenSeq(chunks)
      fits == Len(whole) <= limit /\ expected \in {None, Len(whole)}
  IN  /\ r.ok => /\ fits /\ Opened(r) = whole
                 /\ r.where = "memory" => ~force /\ Len(whole) <= MemoryThreshold
                 /\ Prefix(r, 2) = SubSeq(whole, 1, Len(Prefix(r, 2)))
      /\ (fits /\ fault = NoFault) => r.ok

=============================================================================
