------------------------- MODULE MCExpectedFailures -------------------------
(***************************************************************************)
(* Two fixtures.  The first has two sites at one position, whose texts one *)
(* diagnostic may both contain; what the compiler says of it ranges over   *)
(* every pair of diagnostics.  The second has one site.                    *)
(***************************************************************************)
EXTENDS ExpectedFailures

Note == [kind |-> "note"]
Malformed == [kind |-> "malformed"]
Entry(fixture, category, pos, needle) ==
  [kind |-> "entry", fixture |-> fixture, category |-> category, pos |-> pos,
   needle |-> needle]

Type(fixture, pos, needle) == Entry(fixture, "type", pos, needle)

MCInventories ==
  {<<Note, Type("A", 1, "x"), Type("B", 1, "x"), Type("A", 1, "y")>>,
   <<Type("A", 1, "y"), Type("A", 1, "x"), Type("B", 1, "x")>>,
   <<Type("A", 1, "x"), Type("A", 2, "x"), Type("B", 1, "x")>>,
   <<Type("A", 1, "x"), Type("A", 1, "x")>>,
   <<Type("A", 1, "x"), Entry("A", "privacy", 2, "x")>>,
   <<Type("A", 1, "x")>>, << >>, <<Type("Outside", 1, "x")>>,
   <<Entry("A", "other", 1, "x")>>, <<Malformed>>}

Error(here, pos, needles, classes) ==
  [kind |-> "error", here |-> here, pos |-> pos, needles |-> needles, classes |-> classes]

\* What one line of the compiler's answer may be.
Lines ==
  {Error(here, pos, needles, {"type"}) :
     here \in BOOLEAN, pos \in {1, 2}, needles \in {{"x"}, {"y"}, {"x", "y"}}}
  \cup {Error(TRUE, 1, {"x"}, {"privacy"}), [kind |-> "blank"], [kind |-> "information"],
        [kind |-> "warning"], [kind |-> "junk"]}

Answer(imitates, status, lines) == [imitates |-> imitates, status |-> status, lines |-> lines]

Refusal == Answer(FALSE, 1, <<Error(TRUE, 1, {"x"}, {"type"})>>)

MCAnswers ==
  LET first == {Answer(FALSE, 1, lines) : lines \in [1 .. 2 -> Lines]}
               \cup {Answer(FALSE, status, << >>) : status \in {0, 2, Silent}}
               \cup {Answer(TRUE, 1, << >>)}
  IN  {[fixture \in {"A", "B"} |-> IF fixture = "A" THEN a ELSE b] :
         a \in first, b \in {Refusal, Answer(FALSE, 0, << >>)}}
=============================================================================
