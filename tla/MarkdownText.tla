---------------------------- MODULE MarkdownText ----------------------------
(***************************************************************************)
(* How the documentation gate reads Markdown (check-scientific-docs.py): a *)
(* text is a sequence of lines, and a line is a heading, the marker of a   *)
(* code fence, a blank line or words that may hold links.  Inside a fence  *)
(* every line is code, whatever it looks like.                             *)
(***************************************************************************)
EXTENDS Naturals, Sequences, FiniteSets, SequencesExt

Heading(title) == [kind |-> "heading", title |-> title]
Marker(mark, width) == [kind |-> "fence", mark |-> mark, width |-> width]
Words(word, links) == [kind |-> "words", word |-> word, links |-> links]
Blank == [kind |-> "blank"]

\* A title is its letters and its punctuation; the slug keeps the letters.
Slug(title) == title[1]

NoFence == [kind |-> "no fence"]
NoPassage == << >>

\* The fence open after a line: closed only by its own mark, at least as wide.
FenceAfter(fence, line) ==
  IF line.kind # "fence" THEN fence
  ELSE IF fence = NoFence THEN line
  ELSE IF line.mark = fence.mark /\ line.width >= fence.width THEN NoFence
  ELSE fence

Outside(text) ==
  LET before[i \in DOMAIN text] ==
        IF i = 1 THEN NoFence ELSE FenceAfter(before[i - 1], text[i - 1])
  IN  {i \in DOMAIN text : before[i] = NoFence /\ text[i].kind # "fence"}

Headings(text) == {i \in Outside(text) : text[i].kind = "heading"}

\* str.strip("\n")
Trim(lines) ==
  LET solid == {i \in DOMAIN lines : lines[i] # Blank} IN
  IF solid = {} THEN << >> ELSE SubSeq(lines, Min(solid), Max(solid))

\* re.split at a line break, blanks and a line break: a second blank line in a row
\* opens the next part, and a third closes it again.
BreakAt(parts, line) ==
  IF line = Blank /\ parts.open # << >>
  THEN [closed |-> Append(parts.closed, parts.open), open |-> << >>]
  ELSE [parts EXCEPT !.open = Append(@, line)]

Paragraphs(body) ==
  LET parts == FoldLeft(BreakAt, [closed |-> << >>, open |-> << >>], body)
  IN  Append(parts.closed, parts.open)

Section(text, headings, i) ==
  LET later == {j \in headings : j > i} IN
  Trim(SubSeq(text, i + 1, IF later = {} THEN Len(text) ELSE Min(later) - 1))

\* A part without words is refused as one that is missing.
Solid(lines) == IF \A i \in DOMAIN lines : lines[i] = Blank THEN NoPassage ELSE lines

Whole == 0

Passage(text, anchor) ==
  LET headings == Headings(text)
      matches == {i \in headings : text[i].title = anchor.heading} IN
  IF Cardinality(matches) # 1 THEN NoPassage
  ELSE LET body == Section(text, headings, Min(matches))
           parts == Paragraphs(body)
       IN  IF anchor.paragraph = Whole THEN Solid(body)
           ELSE IF anchor.paragraph \in DOMAIN parts THEN Solid(parts[anchor.paragraph])
           ELSE NoPassage

\* The fragments a link may name: the slug of a heading, numbered when it recurs.
Fragments(text) ==
  LET headings == Headings(text)
      slugged(s) == {i \in headings : Slug(text[i].title) = s}
      slugs == {Slug(text[i].title) : i \in headings}
  IN  {named \in slugs \X (0 .. Len(text)) : named[2] < Cardinality(slugged(named[1]))}

Links(text) == UNION {text[i].links : i \in {i \in Outside(text) : text[i].kind = "words"}}
-----------------------------------------------------------------------------
(***************************************************************************)
(* What an author writes: sections of blocks, a block a paragraph or a     *)
(* listing between two markers of its own.  The reference meaning of an    *)
(* anchor, of a link and of a fragment is read off this structure.         *)
(***************************************************************************)
Paragraph(word, links) == [kind |-> "paragraph", word |-> word, links |-> links]
Listing(mark, width, inside) ==
  [kind |-> "listing", mark |-> mark, width |-> width, inside |-> inside]

BlockLines(block) ==
  IF block.kind = "paragraph" THEN <<Words(block.word, block.links)>>
  ELSE <<Marker(block.mark, block.width)>> \o block.inside \o <<Marker(block.mark, block.width)>>

SectionLines(section) ==
  <<Heading(section.title)>> \o
    FlattenSeq([b \in DOMAIN section.blocks |-> <<Blank>> \o BlockLines(section.blocks[b])]) \o
    <<Blank>>

Lines(document) == FlattenSeq([s \in DOMAIN document |-> SectionLines(document[s])])

Joined(blocks) ==
  FlattenSeq([b \in DOMAIN blocks |->
    (IF b = 1 THEN << >> ELSE <<Blank>>) \o BlockLines(blocks[b])])

Written(document, anchor) ==
  LET named == {s \in DOMAIN document : document[s].title = anchor.heading} IN
  IF Cardinality(named) # 1 THEN NoPassage
  ELSE LET blocks == document[Min(named)].blocks IN
       IF anchor.paragraph = Whole THEN Joined(blocks)
       ELSE IF anchor.paragraph \in DOMAIN blocks THEN BlockLines(blocks[anchor.paragraph])
       ELSE NoPassage

WrittenLinks(document) ==
  UNION {UNION {document[s].blocks[b].links :
           b \in {b \in DOMAIN document[s].blocks : document[s].blocks[b].kind = "paragraph"}} :
         s \in DOMAIN document}

\* The n-th section whose title has this slug, counting from 0.
WrittenFragment(document, fragment) ==
  \E s \in DOMAIN document :
    /\ Slug(document[s].title) = fragment[1]
    /\ fragment[2] =
         Cardinality({r \in 1 .. s - 1 : Slug(document[r].title) = fragment[1]})
=============================================================================
