-------------------------------- MODULE Chunks --------------------------------
(* Cutting the body of a page into chunks (internal/indexer/chunk.go).  A      *)
(* body is a sequence of lines; a line has a kind and its words, and a text is *)
(* the sequence of its words, each one token long.  Joining texts with blanks  *)
(* or newlines is then their concatenation.                                    *)
EXTENDS Naturals, Sequences, SequencesExt

CONSTANT MaxChunkTokens     \* DefaultMaxChunkTokens

ASSUME LimitIsPositive == MaxChunkTokens \in Nat \ {0}

LineKinds == {"fence", "heading2", "heading3", "row", "blank", "text"}

Line(kind, words) == [kind |-> kind, words |-> words]

\* A token is a number.  An empty line has none, a heading those of its title, and
\* any other line has some.
Texts == Seq(Nat)

Lines ==
  {line \in [kind : LineKinds, words : Texts] :
     /\ line.kind = "blank" => line.words = << >>
     /\ line.kind \in {"fence", "row", "text"} => line.words # << >>}

Bodies == Seq(Lines)

\* The words of a sequence of lines, of blocks or of chunks.
WordsOf(parts) == FoldLeft(LAMBDA text, part : text \o part.words, << >>, parts)

\* Mutant: the fence is forgotten, and a heading in a listing cuts it.
SectionsFenceless(body) ==
  LET Step(acc, line) ==
        IF line.kind \in {"heading2", "heading3"}
        THEN Append(acc, [path |-> line.words, lines |-> << >>])
        ELSE [acc EXCEPT ![Len(acc)].lines = Append(@, line)]
  IN FoldLeft(Step, <<[path |-> << >>, lines |-> << >>]>>, body)

\* headingOf.
Level(line) ==
  CASE line.kind = "heading2" -> 2
    [] line.kind = "heading3" -> 3
    [] OTHER -> 0

\* A heading outside a fence starts a section under the path of headings above
\* it; its own line goes into no text.
AddLine(acc, line) ==
  LET fence == IF line.kind = "fence" THEN ~ acc.fence ELSE acc.fence
      level == Level(line)
      above == IF level > 0 /\ level - 2 < Len(acc.stack)
               THEN SubSeq(acc.stack, 1, level - 2) ELSE acc.stack
      stack == Append(above, line.words)
      last  == Len(acc.done)
  IN IF ~ fence /\ level > 0
     THEN [fence |-> fence, stack |-> stack,
           done  |-> Append(acc.done, [path |-> stack, lines |-> << >>])]
     ELSE [acc EXCEPT !.fence = fence, !.done[last].lines = Append(@, line)]

\* splitByHeading.
Sections(body) ==
  FoldLeft(AddLine, [fence |-> FALSE, stack |-> << >>,
                     done  |-> <<[path |-> << >>, lines |-> << >>]>>], body).done

\* A block without a word is dropped.
Flushed(acc) ==
  [acc EXCEPT !.current = << >>,
              !.blocks  = IF WordsOf(acc.current) = << >> THEN @
                          ELSE Append(@, [words  |-> WordsOf(acc.current),
                                          atomic |-> acc.fence \/ acc.table])]

Kept(acc, line) == [acc EXCEPT !.current = Append(@, line)]

Toggled(acc) == [acc EXCEPT !.fence = ~ @]

Turned(acc, isRow) ==
  IF isRow = acc.table THEN acc ELSE [Flushed(acc) EXCEPT !.table = isRow]

\* A blank line ends a paragraph and a table, and is kept in a fence.
Scan(acc, line) ==
  CASE line.kind = "fence" /\ acc.fence   -> Toggled(Flushed(Kept(acc, line)))
    [] line.kind = "fence" /\ ~ acc.fence -> Toggled(Kept(acc, line))
    [] line.kind # "fence" /\ acc.fence   -> Kept(acc, line)
    [] line.kind = "blank" /\ ~ acc.fence -> Flushed(Turned(acc, FALSE))
    [] OTHER                              -> Kept(Turned(acc, line.kind = "row"), line)

\* atomicBlocks: paragraphs, and fences and tables whole.
Blocks(lines) ==
  Flushed(FoldLeft(Scan, [blocks |-> << >>, current |-> << >>,
                          fence |-> FALSE, table |-> FALSE], lines)).blocks

\* Pieces are packed while they fit, blocks into chunks and words into pieces.
Put(acc, piece) ==
  IF acc.current # << >> /\ Len(acc.current) + Len(piece.words) > MaxChunkTokens
  THEN [done |-> Append(acc.done, [words |-> acc.current]), current |-> piece.words]
  ELSE [acc EXCEPT !.current = @ \o piece.words]

Closed(acc) ==
  IF acc.current = << >> THEN acc.done ELSE Append(acc.done, [words |-> acc.current])

Nothing == [done |-> << >>, current |-> << >>]

\* splitOversized: an atomic block is never cut, whatever its size.
SplitOversized(block) ==
  IF block.atomic \/ Len(block.words) <= MaxChunkTokens
  THEN <<[words |-> block.words]>>
  ELSE Closed(FoldLeft(Put, Nothing,
                       [k \in DOMAIN block.words |-> [words |-> <<block.words[k]>>]]))

PutAll(acc, block) == FoldLeft(Put, acc, SplitOversized(block))

\* splitBySize.
Pack(lines) == Closed(FoldLeft(PutAll, Nothing, Blocks(lines)))

AddSection(chunks, section) ==
  LET pieces == Pack(section.lines)
  IN chunks \o [k \in DOMAIN pieces |-> [heading |-> section.path, words |-> pieces[k].words]]

\* ChunkBody: a body whose sections are all empty is one chunk, headings and all.
ChunkBody(body) ==
  LET chunks == FoldLeft(AddSection, << >>, Sections(body))
  IN IF chunks = << >> THEN <<[heading |-> << >>, words |-> WordsOf(body)]>> ELSE chunks

------------------------------------------------------------------------------
(* What the chunks of a body promise. *)

\* One text is part of another.
IsFound(part, text) ==
  \E i \in 0 .. Len(text) - Len(part) : SubSeq(text, i + 1, i + Len(part)) = part

\* Lines before k that open or close a listing: an odd number is inside one.
FencesBefore(body, k) == Cardinality({j \in 1 .. k - 1 : body[j].kind = "fence"})

Inside(body, k) == FencesBefore(body, k) % 2 = 1

\* A listing and the two fences around it.
IsListing(body, i, j) ==
  /\ i < j /\ ~ Inside(body, i)
  /\ body[i].kind = "fence" /\ body[j].kind = "fence"
  /\ \A k \in i + 1 .. j - 1 : body[k].kind # "fence"

\* A heading outside a listing; its words are kept as the path of a section.
IsTitle(body, k) == Level(body[k]) > 0 /\ ~ Inside(body, k)

\* The body without its titles.
Untitled(body) ==
  [k \in DOMAIN body |-> IF IsTitle(body, k) THEN Line("blank", << >>) ELSE body[k]]

\* What the code never cuts: the rows of a table, or lines around a fence that no
\* empty line parts, a paragraph right above a listing included.
IsWhole(body, words) ==
  \E i, j \in DOMAIN body :
    /\ words = WordsOf(SubSeq(body, i, j))
    /\ \A k \in i .. j : body[k].kind = "blank" => Inside(body, k)
    /\ \/ \E k \in i .. j : body[k].kind = "fence"
       \/ \A k \in i .. j : body[k].kind = "row"

\* A line that is neither of a listing nor of a table nor a title.
IsProse(body, k) == body[k].kind = "text" /\ ~ Inside(body, k)

\* What the code's comments promise of a chunk: over the limit it has no prose.
ProseIsCut(body, words) ==
  Len(words) > MaxChunkTokens =>
    \E i, j \in DOMAIN body :
      words = WordsOf(SubSeq(body, i, j)) /\ \A k \in i .. j : ~ IsProse(body, k)

\* No word is lost and no listing is cut: the chunks hold the words of the body
\* in order, a listing lies in one of them, and one over the limit is whole.
Hold(chunks, body) ==
  /\ WordsOf(chunks) = WordsOf(Untitled(body))
  /\ \A i, j \in DOMAIN body : IsListing(body, i, j) =>
       \E k \in DOMAIN chunks : IsFound(WordsOf(SubSeq(body, i, j)), chunks[k].words)
  /\ \A k \in DOMAIN chunks :
       Len(chunks[k].words) > MaxChunkTokens => IsWhole(body, chunks[k].words)

===============================================================================
