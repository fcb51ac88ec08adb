----------------------------- MODULE LeanHeader -----------------------------
(***************************************************************************)
(* The reader of Lean import headers (scripts/lean_imports.py).  A text is *)
(* a sequence of symbols: the marks a comment or a string is made of, one  *)
(* by one, and words, a dotted module name or a keyword being one word.    *)
(***************************************************************************)
EXTENDS Naturals, Sequences, FiniteSetsExt

CONSTANT Words   \* the words that texts are made of

Slash == "/"
Dash == "-"
Quote == "quote"
Escape == "escape"
Newline == "newline"
Space == "space"
Dot == "."
Angle == "angle"      \* the quotation mark of a name
Plus == "+"           \* any other mark

Opening == <<Slash, Dash>>
Closing == <<Dash, Slash>>
LineComment == <<Dash, Dash>>

Marks == {Slash, Dash, Quote, Escape, Newline, Space, Dot, Angle, Plus}
IsWord(symbol) == symbol \notin {Slash, Dash, Quote, Escape, Dot, Angle, Plus}

Reserved == {"import", "module", "prelude", "public", "meta", "all", "namespace", "def"}

-----------------------------------------------------------------------------
(* lean_code: comments and strings become spaces, nothing moves.            *)

\* second: the symbol after a mark of two, taken with it.
Fresh == [depth |-> 0, quoted |-> FALSE, line |-> FALSE, second |-> FALSE]

Begins(text, i, mark) == i < Len(text) /\ text[i] = mark[1] /\ text[i + 1] = mark[2]

InText(s, text, i) ==   \* neither in a comment nor in a string
  [depth |-> IF Begins(text, i, Opening) THEN 1 ELSE 0, quoted |-> text[i] = Quote,
   line |-> Begins(text, i, LineComment), second |-> Begins(text, i, Opening)]

InString(s, text, i) ==
  IF text[i] = Escape THEN [s EXCEPT !.second = TRUE] ELSE [s EXCEPT !.quoted = text[i] # Quote]

Taken(depth) == [depth |-> depth, quoted |-> FALSE, line |-> FALSE, second |-> TRUE]

InComment(s, text, i) ==
  IF Begins(text, i, Opening) THEN Taken(s.depth + 1)
  ELSE IF Begins(text, i, Closing) THEN Taken(s.depth - 1)
  ELSE s

Step(s, text, i) ==
  IF s.second THEN [s EXCEPT !.second = FALSE]
  ELSE IF s.line THEN [s EXCEPT !.line = text[i] # Newline]
  ELSE IF s.depth > 0 THEN InComment(s, text, i)
  ELSE IF s.quoted THEN InString(s, text, i)
  ELSE InText(s, text, i)

Shown(s, text, i) ==
  s = Fresh /\ ~Begins(text, i, Opening) /\ ~Begins(text, i, LineComment) /\ text[i] # Quote

\* The output before the first symbol and after each, and the mode it leaves.
Lexed(text) ==
  LET states[i \in 0 .. Len(text)] ==
        IF i = 0 THEN [mode |-> Fresh, code |-> <<>>]
        ELSE LET s == states[i - 1]
             IN [mode |-> Step(s.mode, text, i),
                 code |-> Append(s.code, IF Shown(s.mode, text, i) THEN text[i] ELSE Space)]
  IN states

Mode(text) == Lexed(text)[Len(text)].mode
CodeOf(text) == Lexed(text)[Len(text)].code
Open(mode) == mode.depth > 0 \/ mode.quoted
Unclosed(text) == Open(Mode(text))

-----------------------------------------------------------------------------
(* imports: what is left, token by token, each named by its place.          *)

Blanks == {Space, Newline}

\* The first token after a place; past the end when there is none.
TokenAfter(code, k) ==
  Min({i \in DOMAIN code : i > k /\ code[i] \notin Blanks} \cup {Len(code) + 1})

Refused == [ok |-> FALSE]
Read(names) == [ok |-> TRUE, names |-> names]

Is(code, k, word) == k <= Len(code) /\ code[k] = word
Past(code, k, word) == IF Is(code, k, word) THEN TokenAfter(code, k) ELSE k

GoesOnApart(code, k) ==
  LET following == TokenAfter(code, k)
  IN following <= Len(code) /\ code[following] \in {Dot, Angle}

\* A name goes on in a way that is not supported: a mark of names, or no space.
GoesOn(code, k) ==
  LET following == TokenAfter(code, k)
  IN following <= Len(code) /\ (code[following] \in {Dot, Angle} \/ following = k + 1)

CommandAt(code, k) == Past(code, Past(code, k, "public"), "meta")

Unsupported(code, k) ==
  k > Len(code) \/ ~IsWord(code[k]) \/ code[k] \in Reserved \/ GoesOn(code, k)

\* One turn of the loop; the header ends with the first other command.
Turn(code, s) ==
  LET command == CommandAt(code, s.at)
      name == Past(code, TokenAfter(code, command), "all") IN
  IF s.stage # "reading" THEN s
  ELSE IF ~Is(code, command, "import") THEN [s EXCEPT !.stage = "read"]
  ELSE IF Unsupported(code, name) THEN [s EXCEPT !.stage = "refused"]
  ELSE [at |-> TokenAfter(code, name), names |-> Append(s.names, code[name]), stage |-> "reading"]

HeaderFrom(code, k) ==
  LET turns[n \in 0 .. Len(code) + 1] ==
        IF n = 0 THEN [at |-> k, names |-> <<>>, stage |-> "reading"] ELSE Turn(code, turns[n - 1])
  IN turns

HeaderOf(text) ==
  LET lexed == Lexed(text)[Len(text)]
      code == lexed.code
      start == Past(code, Past(code, TokenAfter(code, 0), "module"), "prelude")
      header == HeaderFrom(code, start)[Len(code) + 1]
  IN IF Open(lexed.mode) \/ header.stage = "refused" THEN Refused ELSE Read(header.names)

-----------------------------------------------------------------------------
(* What an author writes: imports with their qualifiers, with something     *)
(* that is no code before, between and after the words.  The reference      *)
(* meaning of a file is read off this structure.                            *)

Piece(text, sound) == [text |-> text, sound |-> sound]   \* sound: closed and supported
Import(before, name, after) == [before |-> before, name |-> name, after |-> after]

\* Words, each followed by the gap.
Spaced(words, gap) ==
  LET written[i \in 0 .. Len(words)] ==
        IF i = 0 THEN <<>> ELSE written[i - 1] \o (<<words[i]>> \o gap)
  IN written

\* The file up to each import, and whole.
HeaderText(file) ==
  LET written[k \in 0 .. Len(file.imports)] ==
        IF k = 0 THEN file.lead.text \o Spaced(file.marks, file.gap.text)[Len(file.marks)]
        ELSE LET item == file.imports[k]
             IN written[k - 1] \o (Spaced(item.before, file.gap.text)[Len(item.before)]
                  \o (<<item.name>> \o (item.after.text \o file.gap.text)))
  IN written

Text(file) == HeaderText(file)[Len(file.imports)] \o file.tail.text

Meant(file) ==
  IF /\ file.lead.sound /\ file.gap.sound /\ file.tail.sound
     /\ \A k \in DOMAIN file.imports : file.imports[k].after.sound
    THEN Read([k \in DOMAIN file.imports |-> file.imports[k].name])
    ELSE Refused
-----------------------------------------------------------------------------
(* What a piece that is called sound is, read off that piece alone.         *)

\* A gap or an end: all of it comments, strings that are closed, and spaces.
Silent(text) == Mode(text) = Fresh /\ \A i \in DOMAIN text : CodeOf(text)[i] \in Blanks

\* What makes a name go on: a mark against it, or a mark of names wherever it is.
Continues(text) ==
  \E i \in DOMAIN text :
    /\ Silent(SubSeq(text, 1, i - 1))
    /\ ~IsWord(text[i]) /\ text[i] \notin {Slash, Dash, Quote}
    /\ i = 1 \/ text[i] \in {Dot, Angle}

\* What follows the imports is no import, and closed; or it is refused by itself.
Follows(tail) ==
  LET code == CodeOf(tail.text)
      first == TokenAfter(code, 0)
  IN /\ first <= Len(code) => code[first] \notin {"module", "prelude", Dot, Angle}
     /\ IF tail.sound
          THEN ~Unclosed(tail.text) /\ ~Is(code, CommandAt(code, first), "import")
          ELSE Unclosed(tail.text) \/ HeaderFrom(code, first)[Len(code) + 1].stage = "refused"

\* The words before a name.
Qualified ==
  {<<"import">>, <<"public", "import">>, <<"meta", "import">>, <<"public", "meta", "import">>,
   <<"import", "all">>, <<"public", "import", "all">>, <<"meta", "import", "all">>,
   <<"public", "meta", "import", "all">>}

Symbols == Marks \cup Reserved \cup Words
Pieces == [text : Seq(Symbols), sound : BOOLEAN]
FileType ==
  [lead : Pieces, marks : {<<>>, <<"module">>, <<"prelude">>, <<"module", "prelude">>},
   imports : Seq([before : Qualified, name : Words, after : Pieces]), gap : Pieces, tail : Pieces]

ImportWritten(item) ==
  /\ IsWord(item.name) /\ item.name \notin Reserved \cup Blanks
  /\ IF item.after.sound THEN Silent(item.after.text) ELSE Continues(item.after.text)

Written(file) ==
  /\ file \in FileType
  /\ IF file.lead.sound THEN Silent(file.lead.text) ELSE Unclosed(Text(file))
  /\ file.gap.sound /\ Silent(file.gap.text) /\ file.gap.text # <<>>
  /\ \A k \in DOMAIN file.imports : ImportWritten(file.imports[k])
  /\ Follows(file.tail)
=============================================================================
