--------------------------- MODULE ScientificDocs ---------------------------
(***************************************************************************)
(* The documentation gate (scripts/check-scientific-docs.py) over the life *)
(* of a repository: sources, documents and reports are edited, moved and   *)
(* committed, evidence is recorded, reviews are written, and the gate may  *)
(* be run at any time on what it then finds.  A registry ties each claim   *)
(* to the passages that state it, to the sources that prove it and to the  *)
(* commit both were read at.  A hash is what it is the hash of.            *)
(***************************************************************************)
EXTENDS Naturals, Sequences, FiniteSets, Functions, MarkdownText

CONSTANTS
  Documents,    \* Markdown paths
  English,      \* those of a translation, *.en.md
  Standing,     \* those the gate always reads
  Code,         \* paths of Lean modules, controls and configuration
  Config, Tests,
  Toolchain,    \* modules that come with Lean
  Unreadable,   \* what a source imports whose header cannot be read
  Missing,
  Texts,        \* what each document may be edited to
  Sources,      \* what each source may be edited to
  Rendering,    \* the lines of each of these texts
  Homes,        \* the paths each document may be moved to
  Registries,   \* pairs of a first commit and a registry kept beside it
  Reviewed,     \* the reviews that come to be recorded
  MaxRevisions, MaxChanges

Keys == {"reader", "translation", "independent"}

ASSUME PathsAssumption ==
  /\ English \subseteq Documents /\ Standing \subseteq Documents
  /\ Config \subseteq Code /\ Tests \subseteq Code
  /\ Toolchain \cap Code = {} /\ Unreadable \notin Code \cup Toolchain
  /\ IsFiniteSet(Code)
  /\ Reviewed \subseteq Keys

ASSUME RenderingAssumption ==
  /\ \A text \in DOMAIN Rendering : Rendering[text] = Lines(text)
  /\ \A path \in DOMAIN Texts : Texts[path] \subseteq DOMAIN Rendering

\* Every path has an entry in the first tree, and the JSON read has its fields.  A
\* review recorded before keeps its report by name; a report names one commit.
ASSUME RegistriesAssumption ==
  \A start \in Registries :
    /\ {"docs", "code", "reports"} \subseteq DOMAIN start.tree
    /\ DOMAIN start.tree.docs = Documents /\ DOMAIN start.tree.code = Code
    /\ \A path \in Documents : start.tree.docs[path] \in DOMAIN Rendering \cup {Missing}
    /\ {"version", "revision", "aliases", "claims"} \subseteq DOMAIN start.registry
    /\ start.registry.aliases = << >>
    /\ \A i \in DOMAIN start.registry.claims :
         LET claim == start.registry.claims[i] IN
         /\ {"revision", "anchors", "proofs", "checks", "sha", "reviews"} \subseteq DOMAIN claim
         /\ {proof.module : proof \in claim.proofs} \cup claim.checks \subseteq Code
         /\ DOMAIN claim.reviews = Keys
         /\ \A key \in Keys : claim.reviews[key].status \in {"reviewed", "qualified"} =>
              claim.reviews[key].evidence = key /\ claim.reviews[key].sha = <<claim.reviews[key].sha[1]>>
         /\ claim.anchors \in Seq(Range(claim.anchors))
         /\ \A j \in DOMAIN claim.anchors :
              /\ {"path", "heading", "paragraph", "sha"} \subseteq DOMAIN claim.anchors[j]
              /\ claim.anchors[j].path \in Documents

ASSUME HomesAssumption ==
  DOMAIN Homes \subseteq Documents /\ \A from \in DOMAIN Homes : Homes[from] \subseteq Documents

ASSUME BoundsAssumption == MaxRevisions \in Nat /\ MaxChanges \in Nat

VARIABLES
  tree,      \* the working tree: documents, sources, reports
  history,   \* the commits
  registry,  \* docs/scientific-claims.json
  changes    \* how many changes were made, at most MaxChanges

vars == <<tree, history, registry, changes>>
-----------------------------------------------------------------------------
\* The gate's readers.  A missing file, or one the commit does not hold, is refused.
Reading(t, path) == IF t.docs[path] = Missing THEN << >> ELSE Rendering[t.docs[path]]

\* Fault: a document that moved is looked for where it is now.
Unmoved(reg, path) == path

\* Where the commits hold a document that has been moved since.
Original(reg, path) == IF path \in DOMAIN reg.aliases THEN reg.aliases[path] ELSE path

AnchorHolds(text, anchor) ==
  Passage(text, anchor) # NoPassage /\ Passage(text, anchor) = anchor.sha

Local(t) == {p \in Code : t.code[p] # Missing}

\* Fault: the imports of an imported module are not followed.
DirectImports(code, local, cited) ==
  cited \cup UNION {code[m].imports \cap local : m \in {m \in cited : code[m] # Missing}}

\* The modules met from the cited ones along imports that have a local file.
Visited(code, local, cited) ==
  LET step(S) == S \cup UNION {code[m].imports \cap local : m \in {m \in S : code[m] # Missing}}
      met[n \in 0 .. Cardinality(Code)] == IF n = 0 THEN cited ELSE step(met[n - 1])
  IN  met[Cardinality(Code)]

CitedModules(claim) == {proof.module : proof \in claim.proofs}

\* The contents the claim rests on, read from code; local says which imports are
\* files, and is always taken from the working tree.  A header that cannot be read is
\* refused as an import found nowhere is.
SourceFingerprint(code, local, claim) ==
  LET visited == Visited(code, local, CitedModules(claim))
      paths == Config \cup claim.checks \cup visited
  IN  IF \/ \E p \in paths : code[p] = Missing
         \/ \E m \in visited : ~ code[m].imports \subseteq local \cup Toolchain
      THEN << >>
      ELSE [p \in paths |-> code[p]]

\* Fault: links are followed from the documents that have to be there only.
CheckLinksOfStanding(t) ==
  \A path \in Standing :
    /\ t.docs[path] # Missing
    /\ \A link \in Links(Reading(t, path)) :
         /\ t.docs[link.path] # Missing
         /\ link.fragment # << >> => link.fragment \in Fragments(Reading(t, link.path))

\* Links are followed in the working tree only, from every document it holds.
CheckLinks(t) ==
  \A path \in Standing \cup {p \in Documents : t.docs[p] # Missing} :
    /\ t.docs[path] # Missing
    /\ \A link \in Links(Reading(t, path)) :
         /\ t.docs[link.path] # Missing
         /\ link.fragment # << >> => link.fragment \in Fragments(Reading(t, link.path))

\* Fault: a review of any commit will do.
ValidateReviewOfAny(t, review, revision, key) ==
  \/ review.status \in {"pending", "not_recorded"}
  \/ /\ \/ review.status \in {"reviewed", "qualified"}
        \/ review.status = "not_applicable" /\ key = "translation"
     /\ review.sha = t.reports[review.evidence]
     /\ Cardinality({i \in DOMAIN review.sha : review.sha[i] = review.marker}) = 1

\* A recorded review is of the claim's own commit, and quotes the one place of its
\* unchanged report that names that commit.
ValidateReview(t, review, revision, key) ==
  \/ review.status \in {"pending", "not_recorded"}
  \/ /\ \/ review.status \in {"reviewed", "qualified"}
        \/ review.status = "not_applicable" /\ key = "translation"
     /\ review.revision = revision
     /\ review.marker = review.revision
     /\ review.sha = t.reports[review.evidence]
     /\ Cardinality({i \in DOMAIN review.sha : review.sha[i] = review.marker}) = 1

\* Moves are of registered prose, one to one, never in chains, never of the target.
DocumentRelocations(reg) ==
  LET aliases == reg.aliases
      registered == {a.path : a \in UNION {Range(c.anchors) : c \in Range(reg.claims)}}
      protected == {a.path : a \in Range(reg.target.anchors)}
  IN  /\ reg.version = 1 => aliases = << >>
      /\ \A current \in DOMAIN aliases :
           /\ aliases[current] \notin DOMAIN aliases
           /\ current \in registered
           /\ {current, aliases[current]} \cap protected = {}
      /\ IsInjective(aliases)

ClaimRevision(reg, claim) == IF claim.revision = 0 THEN reg.revision ELSE claim.revision

\* The target is four paragraphs of one section, never read through a move.
TargetHolds(t, h, reg) ==
  LET anchors == reg.target.anchors IN
  /\ [i \in DOMAIN anchors |-> anchors[i].paragraph] = <<1, 2, 3, 4>>
  /\ Cardinality({<<a.path, a.heading>> : a \in Range(anchors)}) = 1
  /\ \A a \in Range(anchors) :
       /\ AnchorHolds(Reading(t, a.path), a)
       /\ reg.target.revision \in DOMAIN h
       /\ AnchorHolds(Reading(h[reg.target.revision], a.path), a)

PassagesHold(t, h, reg, claim) ==
  /\ claim.anchors # << >>
  /\ \A a \in Range(claim.anchors) :
       /\ AnchorHolds(Reading(t, a.path), a)
       /\ AnchorHolds(Reading(h[ClaimRevision(reg, claim)], Original(reg, a.path)), a)

SourcesHold(t, h, reg, claim) ==
  /\ claim.proofs # {} /\ claim.sha # << >>
  /\ \A proof \in claim.proofs : proof.module \in Tests <=> proof.role = "test"
  /\ SourceFingerprint(t.code, Local(t), claim) = claim.sha
  /\ SourceFingerprint(h[ClaimRevision(reg, claim)].code, Local(t), claim) = claim.sha

ReviewsHold(t, reg, claim) ==
  \A key \in Keys :
    /\ ValidateReview(t, claim.reviews[key], ClaimRevision(reg, claim), key)
    /\ key = "translation" /\ claim.reviews[key].status = "not_applicable" =>
         \A a \in Range(claim.anchors) : a.path \notin English

ClaimHolds(t, h, reg, claim) ==
  /\ claim.revision # 0 => reg.version = 3
  /\ ClaimRevision(reg, claim) \in DOMAIN h
  /\ SourcesHold(t, h, reg, claim)
  /\ ReviewsHold(t, reg, claim)
  /\ PassagesHold(t, h, reg, claim)

Validate(t, h, reg) ==
  LET claims == reg.claims
      ids == {c.id : c \in Range(claims)}
  IN  /\ DocumentRelocations(reg)
      /\ reg.revision \in DOMAIN h
      /\ claims # << >>
      /\ Cardinality(ids) = Len(claims)
      /\ \A c \in Range(claims) : c.consumers \subseteq ids \ {c.id}
      /\ \A c \in Range(claims) : ClaimHolds(t, h, reg, c)
      /\ CheckLinks(t)
      /\ TargetHolds(t, h, reg)

-----------------------------------------------------------------------------
Init ==
  /\ \E start \in Registries :
       /\ tree = start.tree
       /\ history = <<start.tree>>
       /\ registry = start.registry
  /\ changes = 0

Change == changes < MaxChanges /\ changes' = changes + 1

EditDocument ==
  /\ Change
  /\ \E path \in DOMAIN Texts : \E text \in Texts[path] :
       /\ text # tree.docs[path] /\ tree.docs[path] # Missing
       /\ tree' = [tree EXCEPT !.docs[path] = text]
  /\ UNCHANGED <<history, registry>>

EditSource ==
  /\ Change
  /\ \E path \in DOMAIN Sources : \E source \in Sources[path] :
       /\ source # tree.code[path]
       /\ tree' = [tree EXCEPT !.code[path] = source]
  /\ UNCHANGED <<history, registry>>

Commit ==
  /\ Change
  /\ Len(history) < MaxRevisions
  /\ history[Len(history)] # tree
  /\ history' = Append(history, tree)
  /\ UNCHANGED <<tree, registry>>

Hashed(t, anchor) == [anchor EXCEPT !.sha = Passage(Reading(t, anchor.path), anchor)]

\* The hashes of what stands in the tree, dated with a commit.
Recorded(t, claim, revision) ==
  [claim EXCEPT
     !.revision = revision,
     !.anchors = [i \in DOMAIN @ |-> Hashed(t, @[i])],
     !.sha = SourceFingerprint(t.code, Local(t), claim)]

RecordEvidence ==
  /\ Change
  /\ registry.version = 3
  /\ \E i \in DOMAIN registry.claims, r \in DOMAIN history :
       registry' = [registry EXCEPT !.claims[i] = Recorded(tree, @, r)]
  /\ registry' # registry
  /\ UNCHANGED <<tree, history>>

\* A review is written of a commit, and recorded with the report that names it.
\* Relabelling one is recording the old report under another commit.
RecordReview ==
  /\ Change
  /\ \E i \in DOMAIN registry.claims, key \in Reviewed, r, named \in DOMAIN history,
        status \in {"reviewed", "qualified", "not_applicable"} :
       /\ tree' = [tree EXCEPT !.reports[key] = <<named>>]
       /\ registry' = [registry EXCEPT !.claims[i] = [@ EXCEPT !.reviews[key] =
            [status |-> status, revision |-> r, marker |-> named, evidence |-> key,
             sha |-> <<named>>]]]
  /\ registry' # registry
  /\ UNCHANGED history

Renamed(claim, from, to) ==
  [claim EXCEPT !.anchors =
     [i \in DOMAIN @ |-> IF @[i].path = from THEN [@[i] EXCEPT !.path = to] ELSE @[i]]]

\* A document moves with the anchors that name it, and its first home is remembered.
Relocation(reg, from, to) ==
  LET home == Original(reg, from)
      kept == Restrict(reg.aliases, DOMAIN reg.aliases \ {from})
  IN  [reg EXCEPT
         !.version = IF @ = 1 THEN 2 ELSE @,
         !.aliases = IF home = to THEN kept
                     ELSE [p \in DOMAIN kept \cup {to} |-> IF p = to THEN home ELSE kept[p]],
         !.claims = [i \in DOMAIN @ |-> Renamed(@[i], from, to)]]

Relocate ==
  /\ Change
  /\ \E from \in DOMAIN Homes : \E to \in Homes[from] :
       /\ tree.docs[from] # Missing /\ tree.docs[to] = Missing
       /\ to \notin Range(registry.aliases) \/ to = Original(registry, from)
       /\ tree' = [tree EXCEPT !.docs[to] = tree.docs[from], !.docs[from] = Missing]
       /\ registry' = Relocation(registry, from, to)
  /\ UNCHANGED history

Next ==
  \/ EditDocument \/ EditSource \/ Commit \/ RecordEvidence \/ RecordReview \/ Relocate

Spec == Init /\ [][Next]_vars
-----------------------------------------------------------------------------
Accepted == Validate(tree, history, registry)

\* The sources a claim really rests on in a tree: the least set that holds the cited
\* modules and follows the imports that are files of that same tree.
Depends(t, claim) ==
  LET local == Local(t)
      imports == [m \in local |-> t.code[m].imports \cap local]
      covers == {S \in SUBSET local :
                   CitedModules(claim) \cap local \subseteq S /\ \A m \in S : imports[m] \subseteq S}
  IN  {m \in local : \A S \in covers : m \in S}

Resting(t, claim) ==
  [p \in Depends(t, claim) \cup Config \cup claim.checks |-> t.code[p]]

Stated(t, path, anchor) ==
  IF t.docs[path] = Missing THEN NoPassage ELSE Written(t.docs[path], anchor)

\* The headings and places that the registered anchors name.
Named(stated) == {<<a.heading, a.paragraph>> : a \in Range(stated.anchors)}

AnchorNames ==
  UNION {Named(start.registry.target) \cup
           UNION {Named(claim) : claim \in Range(start.registry.claims)} : start \in Registries}

\* The gate's reader finds in every text the passage its author wrote there.
PassagesRead ==
  \A text \in DOMAIN Rendering, name \in AnchorNames :
    LET anchor == [heading |-> name[1], paragraph |-> name[2]]
    IN  Passage(Rendering[text], anchor) = Written(text, anchor)

\* What a commit held of a claim is what the working tree holds of it.
SameAt(revision, claim) ==
  LET past == history[revision] IN
  /\ Resting(past, claim) = Resting(tree, claim)
  /\ \A a \in Range(claim.anchors) :
       Stated(past, Original(registry, a.path), a) = Stated(tree, a.path, a)

\* Accepted evidence is fresh: every source a claim rests on, each tree resolving its
\* own imports, and every passage its author wrote are those of the dated commit.
EvidenceFresh ==
  Accepted => \A c \in Range(registry.claims) : SameAt(ClaimRevision(registry, c), c)

\* An accepted review is of these sources and passages: the commit its report names
\* held them, whatever was edited, re-recorded, relabelled or rewritten since.
ReviewCurrent ==
  \A i \in DOMAIN registry.claims, key \in Keys :
    LET claim == registry.claims[i] IN
    claim.reviews[key].status \in {"reviewed", "qualified"} /\ Accepted =>
      SameAt(tree.reports[key][1], claim)

\* A tree of which all evidence can be given: target, passages, links and imports, the
\* headers they are read from included.
Complete ==
  /\ \A a \in Range(registry.target.anchors), t \in {tree, history[registry.target.revision]} :
       Stated(t, a.path, a) = a.sha
  /\ \A c \in Range(registry.claims) :
       /\ \A a \in Range(c.anchors) : Stated(tree, a.path, a) # NoPassage
       /\ c.checks \cup CitedModules(c) \cup Config \subseteq Local(tree)
       /\ \A m \in Depends(tree, c) : tree.code[m].imports \subseteq Local(tree) \cup Toolchain
  /\ \A path \in {p \in Documents : tree.docs[p] # Missing} :
       \A link \in WrittenLinks(tree.docs[path]) :
         /\ tree.docs[link.path] # Missing
         /\ link.fragment # << >> => WrittenFragment(tree.docs[link.path], link.fragment)
  /\ \A path \in Standing : tree.docs[path] # Missing

Refreshed ==
  [registry EXCEPT
     !.version = 3, !.aliases = << >>, !.revision = Len(history),
     !.claims = [i \in DOMAIN @ |->
       [Recorded(tree, @[i], Len(history)) EXCEPT
          !.reviews = [key \in Keys |-> [status |-> "pending"]]]]]

Committed ==
  LET last == history[Len(history)] IN last.docs = tree.docs /\ last.code = tree.code

\* Recording all evidence anew at the last commit, and reopening the reviews, is
\* accepted exactly when the tree is complete: nothing honest is refused for good.
RefreshExact == Committed => (Validate(tree, history, Refreshed) <=> Complete)

\* What the gate demands of a registry's form, apart from any tree.
Ids(claims) == {claim.id : claim \in Range(claims)}

ClaimFormed(claim, ids) ==
  /\ {"id", "consumers"} \subseteq DOMAIN claim
  /\ claim.consumers \subseteq ids \ {claim.id}
  /\ claim.anchors # << >> /\ claim.proofs # {}
  /\ \A proof \in claim.proofs : proof.module \in Tests <=> proof.role = "test"

TargetFormed(anchors) ==
  /\ [i \in DOMAIN anchors |-> anchors[i].paragraph] = <<1, 2, 3, 4>>
  /\ Cardinality({<<a.path, a.heading>> : a \in Range(anchors)}) = 1
  /\ \A a \in Range(anchors) : a.path \in Documents /\ a.sha # NoPassage

RegistryFormed(reg) ==
  /\ reg.claims \in Seq(Range(reg.claims)) /\ reg.claims # << >>
  /\ Cardinality(Ids(reg.claims)) = Len(reg.claims)
  /\ \A i \in DOMAIN reg.claims : ClaimFormed(reg.claims[i], Ids(reg.claims))
  /\ "target" \in DOMAIN reg /\ TargetFormed(reg.target.anchors)

RegistriesFormed ==
  \A start \in Registries :
    RegistryFormed(start.registry) /\ start.registry.target.revision = 1

\* The gate's reader finds the links and the fragments that were written.
LinksRead ==
  \A text \in DOMAIN Rendering :
    /\ Links(Rendering[text]) = WrittenLinks(text)
    /\ \A link \in WrittenLinks(text) :
         /\ link.path \in Documents
         /\ \A other \in DOMAIN Rendering : link.fragment # << >> =>
              (link.fragment \in Fragments(Rendering[other]) <=> WrittenFragment(other, link.fragment))

\* Moving a document leaves the evidence of every claim as it was, move after move.
MoveKeepsEvidence ==
  [][ Relocate =>
        \A i \in DOMAIN registry.claims :
          PassagesHold(tree, history, registry, registry.claims[i]) =>
            PassagesHold(tree', history', registry', registry'.claims[i]) ]_vars
=============================================================================
