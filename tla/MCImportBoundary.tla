-------------------------- MODULE MCImportBoundary --------------------------
(***************************************************************************)
(* Four local modules and one name without a source: plain files for every *)
(* graph in which the root imports two modules at most and every other one *)
(* at most one, and a root file written in every way the reader knows.     *)
(* For the stratification Deep is a test, and Outside a library.           *)
(***************************************************************************)
EXTENDS SourceGates

Headers == UNION {[1 .. n -> Names] : n \in 0 .. 2}

RootHeaders == {h \in Headers : Len(h) = 2 => h[1] # h[2]}

\* The deepest module may be one whose header cannot be read.
Unclear == <<"Outside", "Unclear">>
PlainGraphs ==
  {[m \in Local |-> CASE m = "Root" -> h [] m = "Deep" -> d [] OTHER -> o[m]] :
     h \in RootHeaders, d \in {<< >>, <<"Outside">>, <<"Root">>, Unclear},
     o \in [{"Middle", "Other"} -> {h \in Headers : Len(h) < 2}]}

S == Space
Nil == Piece(<< >>, TRUE)
Line == Piece(<<Newline>>, TRUE)
Block(inside) == Piece(<<Slash, Dash>> \o inside \o <<Dash, Slash>>, TRUE)
Bad == <<"import", S, "Outside">>

Gaps ==
  {Line, Block(Bad), Block(<<Slash, Dash, Dash, Slash, S>> \o Bad), Block(<<Quote>>),
   Block(<<S, Dash>>), Block(<<Dash, Dash, Newline>>), Piece(<<S, Dash, Dash>> \o Bad \o <<Newline>>, TRUE),
   Piece(<<S, Dash, Dash, Slash, Dash, Quote, Newline>>, TRUE), Piece(<<S>>, TRUE)}
Leads == Gaps \cup {Nil, Piece(<<Slash, Dash, Slash, Dash, Dash, Slash, S>> \o Bad, FALSE)}
Definition(inside) == <<"def", S, "text", S>> \o inside
Tails ==
  {Nil, Piece(Definition(<<Newline>> \o Bad), TRUE),
   Piece(Definition(<<Quote>> \o Bad \o <<Quote>>), TRUE),
   Piece(Definition(<<Quote, Escape, Quote, Slash, Dash, Quote>>), TRUE),
   Piece(Definition(<<Quote, Escape, Escape, Quote, Slash, Dash, Dash, Slash>>), TRUE),
   Piece(Definition(<<Quote>>), FALSE), Piece(Definition(<<Slash, Dash>>), FALSE),
   Piece(<<"public", S, "def">>, TRUE), Piece(<<"import", S, "def">>, FALSE),
   Piece(<<"public", S, "import", S, "all">>, FALSE)}

Ends == {Nil, Piece(<<Dot>>, FALSE), Piece(<<S, Angle>>, FALSE), Piece(<<Plus>>, FALSE),
         Piece(<<Quote, Quote>>, TRUE)}
Befores == {<<"import">>, <<"public", "import">>, <<"public", "meta", "import">>,
            <<"meta", "import", "all">>}
Items == {Import(b, "Middle", e) : b \in Befores, e \in Ends}
FirstMarks == {<< >>, <<"module">>, <<"module", "prelude">>}

File(lead, marks, imports, gap, tail) ==
  [lead |-> lead, marks |-> marks, imports |-> imports, gap |-> gap, tail |-> tail]
Plain(header) ==
  IF header = Unclear
    THEN File(Nil, << >>, <<Import(<<"import">>, "Outside", Piece(<<Dot>>, FALSE))>>, Line, Nil)
    ELSE File(Nil, << >>, [k \in DOMAIN header |-> Import(<<"import">>, header[k], Nil)], Line, Nil)

Second(name) == Import(<<"import">>, name, Nil)
RootFiles ==
  {File(l, << >>, i, Line, t) : l \in Leads, t \in Tails, i \in {<< >>, <<Second("Middle")>>}}
  \cup {File(l, << >>, <<Second("Middle")>>, g, t) : l \in {Nil, Line}, g \in Gaps, t \in Tails}
  \cup {File(Nil, m, <<i, Second("Deep")>>, g, Nil) : m \in FirstMarks, i \in Items, g \in Gaps}

Around(top) ==
  [m \in Local |-> CASE m = "Root" -> top [] m = "Deep" -> Plain(<<"Outside">>)
                     [] m = "Middle" -> Plain(<<"Other">>) [] OTHER -> Plain(<< >>)]

MCFiles == {[m \in Local |-> Plain(g[m])] : g \in PlainGraphs} \cup {Around(r) : r \in RootFiles}
MCGraphs == {[m \in Local |-> LET h == Meant(f[m]) IN IF h.ok THEN h.names ELSE Unreadable] : f \in MCFiles}

Root(name) == [kind |-> "root", name |-> name]
Forbidden(name) == [kind |-> "forbidden", name |-> name]
Row(kind) == [kind |-> kind]

MCManifests ==
  {<<Row("note"), Root("Root"), Forbidden("Outside")>>,
   <<Forbidden("Deep"), Forbidden("Outside"), Root("Root")>>,
   <<Root("Root"), Forbidden("Other"), Root("Middle")>>,
   <<Forbidden("Other")>>, <<Root("Outside")>>, <<Root("Root"), Row("malformed")>>}
-----------------------------------------------------------------------------
MCTests == {"Deep"}
MCSources == {Local \ MCTests, Local \ (MCTests \cup {"Root"})}
MCPublicRoots == <<"Root">>

MCTrees ==
  {[m \in Local |-> Plain(g[m])] :
     g \in {p \in PlainGraphs : p["Deep"] = <<"Root">> /\ \A i \in DOMAIN p["Root"] : p["Root"][i] # "Root"}}
  \cup {[m \in Local |-> IF m = "Middle" THEN Plain(Unclear) ELSE Plain(<< >>)]}

Entry(m, stratum) == [kind |-> "entry", module |-> m, stratum |-> stratum, enforced |-> TRUE]
Layered(top, middle, other) == <<Entry("Root", top), Entry("Middle", middle), Entry("Other", other)>>

MCInventories ==
  {Layered(Machine(1), Machine(0), Letter("U")), Layered(Machine(1), Machine(1), Agent(0)),
   Layered(Machine(2), Agent(1), Machine(0)), Layered(Agent(1), Agent(0), Agent(0)),
   Layered(Letter("X"), Letter("R"), Letter("F")), Layered(Letter("Q"), Letter("G"), Letter("G")),
   Layered(Letter("N"), Letter("F"), Letter("K")),
   <<Entry("Middle", Letter("U")), Row("note"), Entry("Other", Letter("U"))>>,
   <<Entry("Root", Letter("U")), Entry("Root", Letter("U"))>>,
   <<Entry("Root", Machine(20))>>, <<[Entry("Root", Letter("U")) EXCEPT !.enforced = FALSE]>>,
   <<Row("malformed")>>}
=============================================================================
