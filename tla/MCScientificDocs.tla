-------------------------- MODULE MCScientificDocs --------------------------
(***************************************************************************)
(* One claim with two passages, a translation and a production proof, and  *)
(* in some registries a second one proved by a test.  The French document  *)
(* may hold a listing that looks like the claim's heading, a second such   *)
(* heading, another paragraph, or links.                                   *)
(***************************************************************************)
EXTENDS ScientificDocs

Claim == <<"claim", "">>
Note == <<"note", "">>
Title == <<"target", "">>
Link(path, slug, n) == [path |-> path, fragment |-> <<slug, n>>]
Plain(word) == Paragraph(word, {})
Part(title, blocks) == [title |-> title, blocks |-> blocks]

Shown == Listing("tick", 4, <<Marker("tick", 3), Heading(Claim), Marker("tilde", 4),
                              Words("shown", {Link("gone.md", "none", 0)})>>)

French(blocks) == <<Part(Claim, blocks), Part(Note, <<Plain("aside")>>)>>
First == French(<<Plain("one"), Plain("two")>>)

MCTexts ==
  ("claim.fr.md" :>
     {First,
      French(<<Plain("one"), Shown, Plain("three")>>),
      French(<<Plain("one"), Plain("changed")>>),
      Append(First, Part(Claim, <<Plain("again")>>))}) @@
  ("claim.en.md" :>
     {French(<<Paragraph("one", {Link("claim.fr.md", "claim", 0)})>>),
      <<Part(Claim, <<Paragraph("one", {Link("claim.fr.md", "claim", 1)})>>), Part(Note, <<Shown>>)>>}) @@
  ("target.md" :>
     {<<Part(Title, <<Plain("1"), Plain("2"), Plain("3")>>)>>})

Target == <<Part(Title, <<Plain("1"), Plain("2"), Plain("3"), Plain("4")>>)>>

MCRendering == [text \in {First, Target} \cup UNION Range(MCTexts) |-> Lines(text)]

Source(imports, text) == [imports |-> imports, text |-> text]
File(text) == Source({}, text)

MCSources ==
  ("Proof" :> {Source({"Lemma"}, 1), Source({"Std"}, 2), Source({Unreadable}, 3)}) @@
  ("Lemma" :> {Source({"Proof"}, 1), Source({"Std", "Gone"}, 2), Missing}) @@
  ("script" :> {File(2)})

Tree ==
  [docs |-> ("claim.fr.md" :> First) @@ ("claim.en.md" :> First) @@
            ("target.md" :> Target) @@ ("moved.fr.md" :> Missing) @@ ("gone.md" :> Missing),
   code |-> ("Root" :> Source({"Proof", "Lemma"}, 1)) @@
            ("Proof" :> Source({"Lemma", "Std"}, 1)) @@
            ("Lemma" :> Source({"Std"}, 1)) @@
            ("Tests.Use" :> Source({"Proof"}, 1)) @@
            ("script" :> File(1)) @@ ("toolchain" :> File(1)),
   reports |-> [key \in Keys |-> << >>]]

Anchor(t, path, heading, n) ==
  Hashed(t, [path |-> path, heading |-> heading, paragraph |-> n, sha |-> << >>])

Pending == [key \in Keys |-> [status |-> "pending"]]

Entry(id, revision, anchors, proofs, checks, consumers) ==
  Recorded(Tree,
    [id |-> id, anchors |-> anchors, proofs |-> proofs, checks |-> checks,
     consumers |-> consumers, sha |-> << >>, reviews |-> Pending, revision |-> revision],
    revision)

MCHomes == ("claim.fr.md" :> {"moved.fr.md"}) @@ ("moved.fr.md" :> {"claim.fr.md", "gone.md"})

Proof(module, name, role) == [module |-> module, name |-> name, role |-> role]

Causal(revision, consumers) ==
  Entry("A", revision,
    <<Anchor(Tree, "claim.fr.md", Claim, 2), Anchor(Tree, "claim.en.md", Claim, Whole)>>,
    {Proof("Proof", "thm", "production")}, {"script"}, consumers)

Tested(revision, consumers, role) ==
  Entry("B", revision, <<Anchor(Tree, "claim.fr.md", Note, Whole)>>,
    {Proof("Tests.Use", "use", role)}, {}, consumers)

Registry(version, claims) ==
  [version |-> version, revision |-> 1, aliases |-> << >>,
   target |-> [revision |-> 1, anchors |-> [i \in 1 .. 4 |-> Anchor(Tree, "target.md", Title, i)]],
   claims |-> claims]

MCRegistries ==
  {[tree |-> Tree, registry |-> r] : r \in
     {Registry(1, <<Causal(0, {})>>),
      Registry(3, <<Causal(1, {"B"}), Tested(1, {}, "test")>>)}}

\* The instance meets what the theorems on evidence, on reviews and on refreshing
\* suppose.
ASSUME MCReaderAssumption == PassagesRead /\ LinksRead
ASSUME MCRegistriesAssumption == RegistriesFormed
=============================================================================
