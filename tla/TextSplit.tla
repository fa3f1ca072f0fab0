------------------------------ MODULE TextSplit ------------------------------
(***************************************************************************)
(* The splitters: pkg/rag/splitter.go and rst_split.go cut a document into *)
(* chunks for retrieval, internal/service/index_split.go cuts an oversized *)
(* chunk of source code into segments.                                     *)
(*                                                                         *)
(* A rune is the place <<block, sentence, position>> it has in the         *)
(* document, so that a rune that is lost, moved or repeated can be told;   *)
(* white space has no place.  Where sentences and lines end is given with  *)
(* the document.                                                           *)
(***************************************************************************)
EXTENDS Integers, Sequences, SequencesExt, FiniteSetsExt

CONSTANTS ChunkOverlap,   \* serverChunkOverlap
          MaxSegments     \* serverMaxSegments

ASSUME TextSplitAssumption == ChunkOverlap \in Nat /\ MaxSegments \in Nat

Sp == <<0, 0, 0>>
Nl == <<0, 0, 1>>
White == {Sp, Nl}

\* A sentence [len, gap]: gap is the position of a space in it, 0 for none.
Runes(b, s, x) == [i \in 1..x.len |-> IF i = x.gap THEN Sp ELSE <<b, s, i>>]

\* strings.TrimSpace and strings.Join.
TrimLeft(t) ==
    LET ink == {i \in DOMAIN t : t[i] \notin White}
    IN  IF ink = {} THEN <<>> ELSE SubSeq(t, Min(ink), Len(t))

TrimSpace(t) ==
    LET ink == {i \in DOMAIN t : t[i] \notin White}
    IN  IF ink = {} THEN <<>> ELSE SubSeq(t, Min(ink), Max(ink))

Join(texts, sep) ==
    FoldLeft(LAMBDA acc, t : IF acc = <<>> THEN t ELSE acc \o <<sep>> \o t, <<>>, texts)

NonEmpty(texts) == SelectSeq(texts, LAMBDA t : t # <<>>)

-----------------------------------------------------------------------------
(* Oversized paragraphs.                                                   *)

\* Every cut skips the white space that follows it.
chunkRunes(t, max) ==
    LET from[p \in 1..(Len(t) + 1)] ==
          LET rest == SubSeq(t, p + max, Len(t))
          IN  IF p > Len(t) THEN <<>>
              ELSE IF Len(t) - p + 1 <= max THEN <<SubSeq(t, p, Len(t))>>
              ELSE <<SubSeq(t, p, p + max - 1)>> \o from[Len(t) - Len(TrimLeft(rest)) + 1]
    IN  from[1]

hardSplitRunes(t, max) ==
    NonEmpty([i \in DOMAIN chunkRunes(t, max) |-> TrimSpace(chunkRunes(t, max)[i])])

FlushPart(st) == [out |-> NonEmpty(Append(st.out, TrimSpace(st.b))), b |-> <<>>]

AddSentence(st, s, max) ==
    LET f == IF st.b # <<>> /\ Len(st.b) + 1 + Len(s) > max THEN FlushPart(st) ELSE st
    IN  IF Len(s) > max
        THEN [out |-> FlushPart(f).out \o hardSplitRunes(s, max), b |-> <<>>]
        ELSE [f EXCEPT !.b = IF @ = <<>> THEN s ELSE @ \o <<Sp>> \o s]

\* The parts of a block [text, sents, path] that is longer than a chunk.
splitOversizedParagraph(block, max) ==
    LET st == FoldLeft(LAMBDA acc, s : AddSentence(acc, s, max),
                       [out |-> <<>>, b |-> <<>>], block.sents)
        out == FlushPart(st).out
    IN  IF Len(block.text) <= max THEN <<block.text>>
        ELSE IF Len(block.sents) <= 1 \/ out = <<>> THEN hardSplitRunes(block.text, max)
        ELSE out

-----------------------------------------------------------------------------
(* Blocks of a document, each with the headings above it.                  *)

updateHeadingStack(stack, level, title) ==
    Append(IF Len(stack) >= level THEN SubSeq(stack, 1, level - 1) ELSE stack, title)

Paragraph(doc, b) ==
    LET sents == [s \in DOMAIN doc.blocks[b].sents |-> Runes(b, s, doc.blocks[b].sents[s])]
    IN  [text |-> Join(sents, Sp), sents |-> sents]

WithPath(p, path) == [text |-> p.text, sents |-> p.sents, path |-> path]

\* splitParagraphs, and markdownParagraphBlocks: a heading is the first line of a
\* block, changes the path of what follows and is no text itself.
ParagraphBlocks(doc) ==
    LET heads(b) == doc.format = "markdown" /\ doc.blocks[b].level > 0
        one(st, b) ==
          LET stack == IF heads(b) THEN updateHeadingStack(st.stack, doc.blocks[b].level, b)
                       ELSE st.stack
              p == Paragraph(doc, b)
          IN  [stack |-> stack,
               out |-> IF p.text = <<>> THEN st.out ELSE Append(st.out, WithPath(p, stack))]
    IN  FoldLeft(one, [stack |-> <<>>, out |-> <<>>], [b \in DOMAIN doc.blocks |-> b]).out

\* A line of a .rst file: [kind, width, mark]; "skip" is a directive or target.
Line(doc, l) == doc.blocks[l]
LineRunes(doc, l) ==
    IF Line(doc, l).kind = "blank" THEN <<>> ELSE Runes(l, 1, [len |-> Line(doc, l).width, gap |-> 0])

rstAdornmentOnlyText(doc, cur) ==
    \A i \in DOMAIN cur : Line(doc, cur[i]).kind \in {"blank", "adorn"}

RstPiece(doc, cur, stack) ==
    LET texts == [i \in DOMAIN cur |-> LineRunes(doc, cur[i])]
    IN  [text |-> TrimSpace(Join(texts, Nl)), sents |-> NonEmpty(texts), path |-> stack]

\* flush: lines that are only adornment are no piece.
RstFlush(doc, st, cur) ==
    IF rstAdornmentOnlyText(doc, cur) THEN st.out
    ELSE Append(st.out, RstPiece(doc, cur, st.stack))

rstSetextLevel(mark) ==
    CASE mark = "=" -> 1 [] mark = "-" -> 2 [] mark = "~" -> 3 [] mark = "^" -> 4
      [] mark = "\"" -> 5 [] OTHER -> 2

rstOverlineTitleUnderline(doc, ol, tit, ul) ==
    /\ Line(doc, ol).kind = "adorn" /\ Line(doc, ul).kind = "adorn"
    /\ Line(doc, tit).kind = "text"
    /\ Line(doc, ol).mark = Line(doc, ul).mark
    /\ Line(doc, ol).width >= Line(doc, tit).width
    /\ Line(doc, ul).width >= Line(doc, tit).width

\* How many of the last lines are a heading.
RstHeading(doc, cur) ==
    LET n == Len(cur)
    IN  IF n >= 3 /\ rstOverlineTitleUnderline(doc, cur[n - 2], cur[n - 1], cur[n]) THEN 3
        ELSE IF /\ n >= 2
                /\ Line(doc, cur[n]).kind = "adorn"
                /\ Line(doc, cur[n - 1]).kind = "text"
                /\ Line(doc, cur[n]).width >= Line(doc, cur[n - 1]).width THEN 2
        ELSE 0

\* A heading ends the piece above it, whose lines stay in cur as well: they are in
\* the next piece again, under the new heading.
RstHeadings(doc, start) ==
    LET step(st) ==
          LET n == Len(st.cur)
              k == RstHeading(doc, st.cur)
              head == SubSeq(st.cur, 1, n - k)
          IN  IF k = 0 THEN st
              ELSE [out |-> RstFlush(doc, st, head),
                    stack |-> updateHeadingStack(st.stack, rstSetextLevel(Line(doc, st.cur[n]).mark),
                                                 st.cur[n - 1]),
                    cur |-> head]
        iter[i \in 0..Len(start.cur)] == IF i = 0 THEN start ELSE step(iter[i - 1])
    IN  iter[Len(start.cur)]

rstParagraphBlocks(doc) ==
    LET one(st, l) ==
          IF Line(doc, l).kind = "skip" THEN st
          ELSE RstHeadings(doc, [st EXCEPT !.cur = Append(@, l)])
        end == FoldLeft(one, [out |-> <<>>, stack |-> <<>>, cur |-> <<>>],
                        [l \in DOMAIN doc.blocks |-> l])
    IN  RstFlush(doc, end, end.cur)

-----------------------------------------------------------------------------
(* Pages of a .pdf.                                                        *)

\* bounds: where each page begins, counted in runes, and the end of the last one.
pageIndex1Based(bounds, r) ==
    LET n == Len(bounds) - 1
    IN  IF r < bounds[1] THEN 1
        ELSE IF r >= bounds[n + 1] THEN n
        ELSE Min({k \in 1..n : r < bounds[k + 1]})

\* Where block b begins: two line ends stand between paragraphs.
Offset(doc, b) ==
    FoldLeft(+, 0, [i \in 1..(b - 1) |-> Len(Paragraph(doc, i).text) + 2])

pagesForSpan(doc, b) ==
    LET lo == Offset(doc, b)
    IN  <<pageIndex1Based(doc.bounds, lo),
          pageIndex1Based(doc.bounds, lo + Len(Paragraph(doc, b).text) - 1)>>

unionPDFPageRange(a, b) ==
    CASE b[1] <= 0 -> a
      [] b[1] > 0 /\ a[1] <= 0 -> b
      [] OTHER -> <<Min({a[1], b[1]}), Max({a[2], b[2]})>>

-----------------------------------------------------------------------------
(* SplitTextWithPDFPageBounds.                                             *)

normalized(size, overlap) == IF overlap >= size THEN size \div 4 ELSE overlap

\* The pieces: parts of blocks with their headings and pages (<<0, 0>>: none).
Pieces(doc) ==
    LET blocks == IF doc.format = "rst" THEN rstParagraphBlocks(doc) ELSE ParagraphBlocks(doc)
        pages(b) == IF doc.format = "pdf" /\ Len(doc.bounds) >= 2
                    THEN pagesForSpan(doc, blocks[b].sents[1][1][1]) ELSE <<0, 0>>
        parts(b) == splitOversizedParagraph(blocks[b], doc.size)
    IN  FlattenSeq([b \in DOMAIN blocks |->
          [i \in DOMAIN parts(b) |-> [text |-> parts(b)[i], path |-> blocks[b].path,
                                      pages |-> pages(b)]]])

Merges(last, piece) ==
    [last EXCEPT !.text = @ \o <<Nl>> \o piece.text,
                 !.pages = unionPDFPageRange(@, piece.pages)]

\* Neighbouring pieces under the same headings are merged while they fit.
Merged(pieces, size) ==
    LET one(acc, piece) ==
          LET last == acc[Len(acc)]
          IN  IF \/ acc = <<>>
                 \/ last.path # piece.path
                 \/ Len(last.text) + 1 + Len(piece.text) > size
              THEN Append(acc, piece)
              ELSE Append(Front(acc), Merges(last, piece))
    IN  FoldLeft(one, <<>>, pieces)

runeSuffix(t, max) ==
    IF max <= 0 THEN <<>>
    ELSE IF Len(t) <= max THEN t
    ELSE TrimSpace(SubSeq(t, Len(t) - max + 1, Len(t)))

\* Each chunk begins with the end of the one before it.
applyOverlap(chunks, size, overlap) ==
    LET own(i) == chunks[i].text
        suffix(i) == runeSuffix(own(i - 1), overlap)
        text(i) == IF i = 1 \/ suffix(i) = <<>> THEN own(i)
                   ELSE runeSuffix(suffix(i) \o <<Nl, Nl>> \o own(i), size + overlap)
    IN  [i \in DOMAIN chunks |-> [chunks[i] EXCEPT !.text = text(i)]]

SplitText(doc) ==
    LET chunks == Merged(Pieces(doc), doc.size)
        overlap == normalized(doc.size, doc.overlap)
    IN  [own |-> chunks,
         out |-> IF overlap <= 0 \/ Len(chunks) <= 1 THEN chunks
                 ELSE applyOverlap(chunks, doc.size, overlap)]

-----------------------------------------------------------------------------
(* splitChunkLines of the workspace index: a segment is <<first, last>>.   *)

Bytes(lines, a, b) == FoldLeft(+, b - a, SubSeq(lines, a, b))

\* The lines that fit from start on; 0 if not even the first one does.
Window(lines, start, max) ==
    Max({0} \cup {e \in start..Len(lines) : Bytes(lines, start, e) <= max})

\* Mutant: the segment after a line that was cut off begins one line too far.
NextStartSkips(lines, start, max) ==
    LET e == Window(lines, start, max)
    IN  IF e = 0 THEN start + 2
        ELSE IF e >= Len(lines) THEN Len(lines) + 1
        ELSE Max({1, e + 1 - ChunkOverlap})

\* Where the next segment begins: at the line after one that had to be cut off,
\* else ChunkOverlap lines back.
NextStart(lines, start, max) ==
    LET e == Window(lines, start, max)
    IN  IF e = 0 THEN start + 1
        ELSE IF e >= Len(lines) THEN Len(lines) + 1
        ELSE Max({1, e + 1 - ChunkOverlap})

splitChunkLines(lines, max) ==
    LET go[n \in 0..MaxSegments] ==
          IF n = 0 THEN [start |-> 1, out |-> <<>>]
          ELSE LET st == go[n - 1]
               IN  IF st.start > Len(lines) THEN st
                   ELSE [start |-> NextStart(lines, st.start, max),
                         out |-> Append(st.out, <<st.start, Max({st.start, Window(lines, st.start, max)})>>)]
    IN  go[MaxSegments].out

-----------------------------------------------------------------------------

Ink(t) == SelectSeq(t, LAMBDA r : r \notin White)
InkOf(blocks) == FlattenSeq([b \in DOMAIN blocks |-> Ink(blocks[b].text)])

\* The runes of the lines of a .rst file that are text: no directive, no adornment,
\* and no title, which is a line above an adornment at least as wide.
RstInk(doc) ==
    LET lines == SelectSeq([l \in DOMAIN doc.blocks |-> l], LAMBDA l : Line(doc, l).kind # "skip")
        title(i) == /\ i < Len(lines)
                    /\ Line(doc, lines[i + 1]).kind = "adorn"
                    /\ Line(doc, lines[i + 1]).width >= Line(doc, lines[i]).width
        text == {lines[i] : i \in {k \in DOMAIN lines : Line(doc, lines[k]).kind = "text" /\ ~title(k)}}
    IN  FlattenSeq([l \in DOMAIN doc.blocks |-> IF l \in text THEN LineRunes(doc, l) ELSE <<>>])

\* The first occurrences of the members of S in t.
Firsts(t, S) ==
    LET at == SelectSeq([i \in DOMAIN t |-> i],
                        LAMBDA i : t[i] \in S /\ \A k \in 1..(i - 1) : t[k] # t[i])
    IN  [i \in DOMAIN at |-> t[at[i]]]

\* What a document's chunks keep of it.  The chunks hold every rune of the text once
\* and in its order; those of a .rst file hold every line at least once, as text
\* above a heading is repeated below it.  No chunk is longer than its limit, its
\* overlap never pushes out its own text, and its pages are those of its paragraphs.
SplitKeepsText(doc, got) ==
    /\ doc.format # "rst" => InkOf(got.own) = InkOf(ParagraphBlocks(doc))
    /\ doc.format = "rst" => Firsts(InkOf(got.own), ToSet(RstInk(doc))) = RstInk(doc)
    /\ \A i \in DOMAIN got.own :
          /\ Len(got.own[i].text) \in 1..doc.size
          /\ Len(got.out[i].text) <= doc.size + normalized(doc.size, doc.overlap)
          /\ IsSuffix(got.own[i].text, got.out[i].text)
          /\ doc.format = "pdf" =>
                \A k \in DOMAIN got.own[i].text :
                   LET r == got.own[i].text[k]
                       span == pagesForSpan(doc, r[1])
                   IN  r \notin White => got.own[i].pages[1] <= span[1] /\ span[2] <= got.own[i].pages[2]

\* Every line of an oversized chunk is in a segment, and no segment comes twice,
\* unless some window holds so few lines that the overlap takes them all back:
\* then the same segment is cut again until MaxSegments is reached.
SegmentsCover(lines, max, segs) ==
    LET covered == UNION {s[1]..s[2] : s \in ToSet(segs)}
        stalls == \E s \in ToSet(segs) : NextStart(lines, s[1], max) <= s[1]
    IN  ~stalls =>
          /\ IsInjective(segs)
          /\ covered = DOMAIN lines \/ Len(segs) = MaxSegments

=============================================================================
