------------------------ MODULE ScientificDocsProofs ------------------------
(***************************************************************************)
(* The documentation gate over the life of a repository, for every repository, *)
(* registry and sequence of changes of any length.  A move never costs a claim *)
(* its evidence: it is read in the tree where the document is now and in the *)
(* commits where it was, however often it has moved.  What the gate accepts is *)
(* what the dated commit held, sources and passages, each tree resolving its *)
(* own imports; so is the state an accepted review names; and evidence recorded *)
(* anew is accepted exactly when the tree gives all of it.                 *)
(***************************************************************************)
EXTENDS ScientificDocs, FiniteSetTheorems, DataLemmas

AnchorFields == {"path", "heading", "paragraph", "sha"}

ClaimShape(claim) ==
  /\ {"revision", "anchors", "sha", "reviews"} \subseteq DOMAIN claim
  /\ DOMAIN claim.anchors = {} => claim.anchors = << >>
  /\ \A j \in DOMAIN claim.anchors :
       AnchorFields \subseteq DOMAIN claim.anchors[j] /\ claim.anchors[j].path \in Documents

\* What the gate reads has its fields, whatever was recorded.
Shaped ==
  /\ {"docs", "code", "reports"} \subseteq DOMAIN tree
  /\ DOMAIN tree.docs = Documents
  /\ {"version", "revision", "aliases", "claims"} \subseteq DOMAIN registry
  /\ \A i \in DOMAIN registry.claims : ClaimShape(registry.claims[i])

\* The home of a document that moved is not itself the name of one that moved: where
\* a passage was is found in one step.
NoChains ==
  \A current \in DOMAIN registry.aliases : registry.aliases[current] \notin DOMAIN registry.aliases

Inductive == Shaped /\ NoChains

\* An empty text has no passage, so no accepted anchor names a document that is gone.
LEMMA NothingInNothing ==
  ASSUME NEW anchor
  PROVE  Passage(<< >>, anchor) = NoPassage
  <1>1. Headings(<< >>) = {}
    BY DEF Headings, Outside
  <1>2. Cardinality({}) = 0
    BY FS_EmptySet
  <1>3. {i \in Headings(<< >>) : (<< >>)[i].title = anchor.heading} = {}
    BY <1>1
  <1>4. Cardinality({i \in Headings(<< >>) : (<< >>)[i].title = anchor.heading}) # 1
    BY <1>2, <1>3
  <1> QED BY <1>4, Zenon DEF Passage

\* The table of moves after one: the new name maps to the first home, the old name
\* to nothing, and every other as it did.
LEMMA AliasesMoved ==
  ASSUME NEW from, NEW to, {"version", "revision", "aliases", "claims"} \subseteq DOMAIN registry
  PROVE  LET home == Original(registry, from)
             before == registry.aliases
             after == Relocation(registry, from, to).aliases
         IN  IF home = to
             THEN /\ DOMAIN after = DOMAIN before \ {from}
                  /\ \A p \in DOMAIN after : after[p] = before[p]
             ELSE /\ DOMAIN after = (DOMAIN before \ {from}) \cup {to}
                  /\ \A p \in DOMAIN after : after[p] = IF p = to THEN home ELSE before[p]
  <1> DEFINE home == Original(registry, from)
             before == registry.aliases
             kept == Restrict(before, DOMAIN before \ {from})
             after == Relocation(registry, from, to).aliases
  <1>1. after = IF home = to THEN kept
                ELSE [p \in DOMAIN kept \cup {to} |-> IF p = to THEN home ELSE kept[p]]
    BY DEF Relocation
  <1>2. DOMAIN kept = DOMAIN before \ {from} /\ \A p \in DOMAIN kept : kept[p] = before[p]
    BY DEF Restrict
  <1> HIDE DEF home, before, kept, after
  <1>3. home = to => /\ DOMAIN after = DOMAIN before \ {from}
                     /\ \A p \in DOMAIN after : after[p] = before[p]
    BY <1>1, <1>2
  <1>4. home # to => /\ DOMAIN after = (DOMAIN before \ {from}) \cup {to}
                     /\ \A p \in DOMAIN after : after[p] = IF p = to THEN home ELSE before[p]
    BY <1>1, <1>2
  <1> USE DEF home, before, kept, after
  <1> QED BY <1>3, <1>4

\* Where the moved document was is found under its new name, and where any other was
\* under its own.
LEMMA HomeKept ==
  ASSUME NoChains, NEW from, NEW to, from # to,
         {"version", "revision", "aliases", "claims"} \subseteq DOMAIN registry
  PROVE  /\ Original(Relocation(registry, from, to), to) = Original(registry, from)
         /\ \A path : path # from /\ path # to =>
              Original(Relocation(registry, from, to), path) = Original(registry, path)
  <1> DEFINE home == Original(registry, from)
             before == registry.aliases
             after == Relocation(registry, from, to).aliases
  <1>1. CASE home = to
    <2>1. from \in DOMAIN before /\ before[from] = to /\ to \notin DOMAIN before
      BY <1>1 DEF Original, NoChains
    <2>2. DOMAIN after = DOMAIN before \ {from} /\ \A p \in DOMAIN after : after[p] = before[p]
      BY <1>1, AliasesMoved
    <2> QED BY <1>1, <2>1, <2>2 DEF Original
  <1>2. CASE home # to
    <2>1. /\ DOMAIN after = (DOMAIN before \ {from}) \cup {to}
          /\ \A p \in DOMAIN after : after[p] = IF p = to THEN home ELSE before[p]
      BY <1>2, AliasesMoved
    <2> QED BY <2>1 DEF Original
  <1> QED BY <1>1, <1>2

\* A move makes no chain: the name taken is nobody's home, but perhaps its own.
LEMMA MoveMakesNoChain ==
  ASSUME NoChains, NEW from, NEW to, from # to,
         {"version", "revision", "aliases", "claims"} \subseteq DOMAIN registry,
         to \notin Range(registry.aliases) \/ to = Original(registry, from)
  PROVE  LET after == Relocation(registry, from, to).aliases IN
         \A current \in DOMAIN after : after[current] \notin DOMAIN after
  <1> DEFINE home == Original(registry, from)
             before == registry.aliases
             after == Relocation(registry, from, to).aliases
  <1>1. CASE home = to
    BY <1>1, AliasesMoved DEF NoChains
  <1>2. CASE home # to
    <2>1. /\ DOMAIN after = (DOMAIN before \ {from}) \cup {to}
          /\ \A p \in DOMAIN after : after[p] = IF p = to THEN home ELSE before[p]
      BY <1>2, AliasesMoved
    <2>2. \A p \in DOMAIN before : before[p] # to
      BY <1>2 DEF Range
    <2>3. home \notin DOMAIN after
      BY <1>2, <2>1 DEF Original, NoChains
    <2>4. \A p \in DOMAIN before : before[p] \notin DOMAIN before
      BY DEF NoChains
    <2> HIDE DEF after, before, home
    <2>5. \A current \in DOMAIN after : after[current] \notin DOMAIN after
      BY <2>1, <2>2, <2>3, <2>4
    <2> QED BY <2>5 DEF after
  <1> QED BY <1>1, <1>2

\* Recording, renaming and reviewing leave a claim its fields.
LEMMA ShapesKept ==
  ASSUME NEW claim, ClaimShape(claim)
  PROVE  /\ \A t, r : ClaimShape(Recorded(t, claim, r))
         /\ \A from, to : to \in Documents => ClaimShape(Renamed(claim, from, to))
         /\ \A key, review : ClaimShape([claim EXCEPT !.reviews[key] = review])
  <1>1. ASSUME NEW t, NEW r PROVE ClaimShape(Recorded(t, claim, r))
    <2>1. /\ DOMAIN Recorded(t, claim, r) = DOMAIN claim
          /\ Recorded(t, claim, r).anchors = [j \in DOMAIN claim.anchors |-> Hashed(t, claim.anchors[j])]
      BY DEF ClaimShape, Recorded
    <2>2. ASSUME NEW j \in DOMAIN claim.anchors
          PROVE  /\ DOMAIN Hashed(t, claim.anchors[j]) = DOMAIN claim.anchors[j]
                 /\ Hashed(t, claim.anchors[j]).path = claim.anchors[j].path
      BY DEF ClaimShape, AnchorFields, Hashed
    <2> QED BY <2>1, <2>2 DEF ClaimShape
  <1>2. ASSUME NEW from, NEW to \in Documents PROVE ClaimShape(Renamed(claim, from, to))
    <2>1. /\ DOMAIN Renamed(claim, from, to) = DOMAIN claim
          /\ Renamed(claim, from, to).anchors =
               [j \in DOMAIN claim.anchors |->
                  IF claim.anchors[j].path = from THEN [claim.anchors[j] EXCEPT !.path = to]
                                                  ELSE claim.anchors[j]]
      BY DEF ClaimShape, Renamed
    <2>2. ASSUME NEW j \in DOMAIN claim.anchors
          PROVE  /\ DOMAIN [claim.anchors[j] EXCEPT !.path = to] = DOMAIN claim.anchors[j]
                 /\ [claim.anchors[j] EXCEPT !.path = to].path = to
      BY DEF ClaimShape, AnchorFields
    <2> QED BY <2>1, <2>2 DEF ClaimShape
  <1>3. ASSUME NEW key, NEW review PROVE ClaimShape([claim EXCEPT !.reviews[key] = review])
    BY DEF ClaimShape
  <1> QED BY <1>1, <1>2, <1>3

\* What a move does, in one place.
LEMMA MoveFacts ==
  ASSUME Inductive, Relocate
  PROVE  \E from, to \in Documents :
           /\ from # to /\ tree.docs[from] # Missing /\ tree.docs[to] = Missing
           /\ to \notin Range(registry.aliases) \/ to = Original(registry, from)
           /\ DOMAIN tree' = DOMAIN tree /\ DOMAIN tree.docs' = DOMAIN tree.docs
           /\ tree.docs'[to] = tree.docs[from] /\ tree.docs'[from] = Missing
           /\ \A p \in Documents : p # from /\ p # to => tree.docs'[p] = tree.docs[p]
           /\ registry' = Relocation(registry, from, to)
           /\ history' = history
  <1>1. PICK from \in DOMAIN Homes : \E to \in Homes[from] :
          /\ tree.docs[from] # Missing /\ tree.docs[to] = Missing
          /\ to \notin Range(registry.aliases) \/ to = Original(registry, from)
          /\ tree' = [tree EXCEPT !.docs[to] = tree.docs[from], !.docs[from] = Missing]
          /\ registry' = Relocation(registry, from, to)
    BY DEF Relocate
  <1>2. PICK to \in Homes[from] :
          /\ tree.docs[from] # Missing /\ tree.docs[to] = Missing
          /\ to \notin Range(registry.aliases) \/ to = Original(registry, from)
          /\ tree' = [tree EXCEPT !.docs[to] = tree.docs[from], !.docs[from] = Missing]
          /\ registry' = Relocation(registry, from, to)
    BY <1>1
  <1>3. from \in Documents /\ to \in Documents /\ from # to
    BY <1>2, HomesAssumption
  <1>4. /\ DOMAIN tree' = DOMAIN tree
        /\ tree.docs' = [[tree.docs EXCEPT ![to] = tree.docs[from]] EXCEPT ![from] = Missing]
    BY <1>2 DEF Inductive, Shaped
  <1>5. /\ DOMAIN tree.docs' = DOMAIN tree.docs
        /\ tree.docs'[to] = tree.docs[from] /\ tree.docs'[from] = Missing
        /\ \A p \in Documents : p # from /\ p # to => tree.docs'[p] = tree.docs[p]
    BY <1>3, <1>4 DEF Inductive, Shaped
  <1>6. history' = history
    BY DEF Relocate
  <1> QED BY <1>2, <1>3, <1>4, <1>5, <1>6

\* The claims after a move, and the commits they are dated with.
LEMMA ClaimsRenamed ==
  ASSUME Shaped, NEW from, NEW to
  PROVE  LET after == Relocation(registry, from, to) IN
         /\ {"version", "revision", "aliases", "claims"} \subseteq DOMAIN after
         /\ DOMAIN after.claims = DOMAIN registry.claims
         /\ after.revision = registry.revision
         /\ \A i \in DOMAIN registry.claims :
              after.claims[i] = Renamed(registry.claims[i], from, to)
  BY DEF Shaped, Relocation

LEMMA InitHolds == Init => Inductive
  <1> SUFFICES ASSUME Init PROVE Inductive
    OBVIOUS
  <1>1. PICK start \in Registries : tree = start.tree /\ registry = start.registry
    BY DEF Init
  <1>2. ASSUME NEW i \in DOMAIN registry.claims PROVE ClaimShape(registry.claims[i])
    <2> DEFINE claim == registry.claims[i]
    <2>1. claim.anchors \in Seq(Range(claim.anchors))
      BY <1>1, RegistriesAssumption
    <2>2. DOMAIN claim.anchors = {} => claim.anchors = << >>
      BY <2>1
    <2> QED BY <1>1, <2>2, RegistriesAssumption DEF ClaimShape, AnchorFields
  <1>3. Shaped
    BY <1>1, <1>2, RegistriesAssumption DEF Shaped
  <1>4. registry.aliases = << >>
    BY <1>1, RegistriesAssumption
  <1> QED BY <1>3, <1>4 DEF Inductive, NoChains

\* Editing, committing and recording touch no path; only a move does.
LEMMA NextHolds == Inductive /\ [Next]_vars => Inductive'
  <1> SUFFICES ASSUME Inductive, [Next]_vars PROVE Inductive'
    OBVIOUS
  <1>1. CASE EditDocument
    BY <1>1 DEF EditDocument, Inductive, Shaped, NoChains, ClaimShape
  <1>2. CASE EditSource
    BY <1>2 DEF EditSource, Inductive, Shaped, NoChains, ClaimShape
  <1>3. CASE Commit
    BY <1>3 DEF Commit, Inductive, Shaped, NoChains, ClaimShape
  <1>4. CASE RecordEvidence
    <2>1. PICK i \in DOMAIN registry.claims, r \in DOMAIN history :
            registry' = [registry EXCEPT !.claims[i] = Recorded(tree, @, r)]
      BY <1>4 DEF RecordEvidence
    <2>2. /\ DOMAIN registry' = DOMAIN registry /\ registry'.aliases = registry.aliases
          /\ DOMAIN registry'.claims = DOMAIN registry.claims
          /\ \A k \in DOMAIN registry.claims :
               registry'.claims[k] = IF k = i THEN Recorded(tree, registry.claims[i], r)
                                              ELSE registry.claims[k]
      BY <2>1 DEF Inductive, Shaped
    <2>3. \A k \in DOMAIN registry'.claims : ClaimShape(registry'.claims[k])
      BY <2>2, ShapesKept DEF Inductive, Shaped
    <2> QED BY <1>4, <2>2, <2>3 DEF RecordEvidence, Inductive, Shaped, NoChains
  <1>5. CASE RecordReview
    <2>1. PICK i \in DOMAIN registry.claims, key \in Reviewed, r \in DOMAIN history,
               named \in DOMAIN history, status \in {"reviewed", "qualified", "not_applicable"} :
            /\ tree' = [tree EXCEPT !.reports[key] = <<named>>]
            /\ registry' = [registry EXCEPT !.claims[i] = [@ EXCEPT !.reviews[key] =
                 [status |-> status, revision |-> r, marker |-> named, evidence |-> key,
                  sha |-> <<named>>]]]
      BY <1>5 DEF RecordReview
    <2> DEFINE review == [status |-> status, revision |-> r, marker |-> named,
                          evidence |-> key, sha |-> <<named>>]
    <2> HIDE DEF review
    <2> DEFINE reviewed == [registry.claims[i] EXCEPT !.reviews[key] = review]
    <2>0. registry' = [registry EXCEPT !.claims = [registry.claims EXCEPT ![i] = reviewed]]
      BY <2>1 DEF review, Inductive, Shaped
    <2> HIDE DEF reviewed
    <2>2. /\ DOMAIN registry' = DOMAIN registry /\ registry'.aliases = registry.aliases
          /\ DOMAIN registry'.claims = DOMAIN registry.claims
          /\ \A k \in DOMAIN registry.claims :
               registry'.claims[k] = IF k = i THEN reviewed ELSE registry.claims[k]
      BY <2>0 DEF Inductive, Shaped
    <2>3. \A k \in DOMAIN registry'.claims : ClaimShape(registry'.claims[k])
      <3>1. ClaimShape(reviewed)
        BY ShapesKept DEF Inductive, Shaped, reviewed
      <3> QED BY <2>2, <3>1 DEF Inductive, Shaped
    <2>4. DOMAIN tree' = DOMAIN tree /\ tree.docs' = tree.docs
      BY <2>1 DEF Inductive, Shaped
    <2> QED BY <2>2, <2>3, <2>4 DEF Inductive, Shaped, NoChains
  <1>6. CASE Relocate
    <2>1. PICK from \in Documents, to \in Documents :
            /\ from # to
            /\ to \notin Range(registry.aliases) \/ to = Original(registry, from)
            /\ DOMAIN tree' = DOMAIN tree /\ DOMAIN tree.docs' = DOMAIN tree.docs
            /\ registry' = Relocation(registry, from, to)
      BY <1>6, MoveFacts
    <2>2. NoChains'
      BY <2>1, MoveMakesNoChain DEF Inductive, Shaped, NoChains
    <2>3. /\ {"version", "revision", "aliases", "claims"} \subseteq DOMAIN registry'
          /\ DOMAIN registry'.claims = DOMAIN registry.claims
          /\ \A i \in DOMAIN registry.claims :
               registry'.claims[i] = Renamed(registry.claims[i], from, to)
      BY <2>1, ClaimsRenamed DEF Inductive
    <2>4. Shaped'
      BY <2>1, <2>3, ShapesKept DEF Inductive, Shaped
    <2> QED BY <2>2, <2>4 DEF Inductive
  <1>7. CASE UNCHANGED vars
    BY <1>7 DEF vars, Inductive, Shaped, NoChains, ClaimShape
  <1> QED BY <1>1, <1>2, <1>3, <1>4, <1>5, <1>6, <1>7 DEF Next

\* What an anchor names does not depend on the path it is kept under.
LEMMA PassageByName ==
  ASSUME NEW text, NEW one, NEW two,
         one.heading = two.heading, one.paragraph = two.paragraph, one.sha = two.sha
  PROVE  AnchorHolds(text, one) <=> AnchorHolds(text, two)
  BY DEF AnchorHolds, Passage

LEMMA MoveKeeps ==
  ASSUME Inductive, Relocate, NEW i \in DOMAIN registry.claims,
         PassagesHold(tree, history, registry, registry.claims[i])
  PROVE  PassagesHold(tree', history', registry', registry'.claims[i])
  <1> DEFINE claim == registry.claims[i]
             anchors == claim.anchors
             r == ClaimRevision(registry, claim)
  <1>1. PICK from \in Documents, to \in Documents :
          /\ from # to /\ tree.docs[from] # Missing /\ tree.docs[to] = Missing
          /\ tree.docs'[to] = tree.docs[from]
          /\ \A p \in Documents : p # from /\ p # to => tree.docs'[p] = tree.docs[p]
          /\ registry' = Relocation(registry, from, to)
          /\ history' = history
    BY MoveFacts
  <1>2. /\ registry'.revision = registry.revision
        /\ registry'.claims[i] = Renamed(claim, from, to)
    BY <1>1, ClaimsRenamed DEF Inductive
  <1>3. ClaimShape(claim)
    BY DEF Inductive, Shaped
  <1>4. /\ Renamed(claim, from, to).revision = claim.revision
        /\ Renamed(claim, from, to).anchors =
             [j \in DOMAIN anchors |->
                IF anchors[j].path = from THEN [anchors[j] EXCEPT !.path = to] ELSE anchors[j]]
    BY <1>3 DEF Renamed, ClaimShape
  <1>5. ClaimRevision(registry', registry'.claims[i]) = r
    BY <1>2, <1>4 DEF ClaimRevision
  <1>6. anchors # << >> /\ DOMAIN anchors # {}
    BY <1>3 DEF PassagesHold, ClaimShape
  <1>7. Renamed(claim, from, to).anchors # << >>
    BY <1>4, <1>6
  <1>8. /\ Original(registry', to) = Original(registry, from)
        /\ \A path : path # from /\ path # to => Original(registry', path) = Original(registry, path)
    BY <1>1, HomeKept DEF Inductive, Shaped
  <1>9. ASSUME NEW j \in DOMAIN anchors
        PROVE  LET a == Renamed(claim, from, to).anchors[j] IN
               /\ AnchorHolds(Reading(tree', a.path), a)
               /\ AnchorHolds(Reading(history'[r], Original(registry', a.path)), a)
    <2> DEFINE old == anchors[j]
               new == Renamed(claim, from, to).anchors[j]
    <2>1. /\ AnchorHolds(Reading(tree, old.path), old)
          /\ AnchorHolds(Reading(history[r], Original(registry, old.path)), old)
      BY DEF PassagesHold, Range
    <2>2. old.path \in Documents /\ AnchorFields \subseteq DOMAIN old
      BY <1>3 DEF ClaimShape
    <2>3. CASE old.path = from
      <3>1. new = [old EXCEPT !.path = to]
        BY <1>4, <2>3
      <3>2. /\ new.path = to
            /\ new.heading = old.heading /\ new.paragraph = old.paragraph /\ new.sha = old.sha
        BY <2>2, <3>1 DEF AnchorFields
      <3>3. Reading(tree', to) = Reading(tree, from)
        BY <1>1 DEF Reading
      <3> HIDE DEF new, old
      <3> QED BY <1>1, <1>8, <2>1, <2>3, <3>2, <3>3, PassageByName DEF new
    <2>4. CASE old.path # from
      <3>1. new = old
        BY <1>4, <2>4
      <3>2. old.path # to
        BY <1>1, <2>1, NothingInNothing DEF AnchorHolds, Reading
      <3>3. Reading(tree', old.path) = Reading(tree, old.path)
        BY <1>1, <2>2, <2>4, <3>2 DEF Reading
      <3> HIDE DEF new, old
      <3>4. AnchorHolds(Reading(tree', new.path), new)
        BY <2>1, <3>1, <3>3
      <3>5. AnchorHolds(Reading(history'[r], Original(registry', new.path)), new)
        BY <1>1, <1>8, <2>1, <2>4, <3>1, <3>2
      <3> QED BY <3>4, <3>5 DEF new
    <2> QED BY <2>3, <2>4
  <1>10. \A a \in Range(Renamed(claim, from, to).anchors) :
           /\ AnchorHolds(Reading(tree', a.path), a)
           /\ AnchorHolds(Reading(history'[r], Original(registry', a.path)), a)
    <2>1. DOMAIN Renamed(claim, from, to).anchors = DOMAIN anchors
      BY <1>4
    <2> QED BY <1>9, <2>1 DEF Range
  <1> QED BY <1>2, <1>5, <1>7, <1>10 DEF PassagesHold

\* However often documents were edited, moved, moved back and recorded before, the next
\* move leaves every claim whose passages stood with passages that stand.
THEOREM MovesKeepEvidence == Spec => MoveKeepsEvidence
  <1>1. Inductive /\ [Next]_vars =>
          [Relocate => \A i \in DOMAIN registry.claims :
             PassagesHold(tree, history, registry, registry.claims[i]) =>
               PassagesHold(tree', history', registry', registry'.claims[i])]_vars
    BY MoveKeeps
  <1> QED BY <1>1, InitHolds, NextHolds, PTL DEF Spec, MoveKeepsEvidence
-----------------------------------------------------------------------------
(***************************************************************************)
(* Evidence.  What the gate hashes of a claim in one tree is what the      *)
(* claim rests on in that tree, once it accepts.                           *)
(***************************************************************************)
\* A set of modules that holds the cited ones and follows their local imports.
Follows(code, local, S) ==
  \A m \in S : code[m] # Missing => code[m].imports \cap local \subseteq S

Stepped(code, local, S) ==
  S \cup UNION {code[m].imports \cap local : m \in {m \in S : code[m] # Missing}}

\* The rounds of the walk over imports.
Walks(met, code, local, cited) ==
  /\ met[0] = cited
  /\ \A n \in 1 .. Cardinality(Code) : met[n] = Stepped(code, local, met[n - 1])

LEMMA VisitedUnfolds ==
  ASSUME NEW code, NEW local \in SUBSET Code, NEW cited \in SUBSET Code
  PROVE  \E met \in [0 .. Cardinality(Code) -> SUBSET Code] :
           /\ Walks(met, code, local, cited)
           /\ Visited(code, local, cited) = met[Cardinality(Code)]
  <1> DEFINE N == Cardinality(Code)
             Body(f) == [n \in 0 .. N |-> IF n = 0 THEN cited ELSE Stepped(code, local, f[n - 1])]
             step == [n \in Nat |-> [S \in SUBSET Code |-> Stepped(code, local, S)]]
  <1>1. N \in Nat
    BY PathsAssumption, FS_CardinalityType
  <1>2. \A S \in SUBSET Code : Stepped(code, local, S) \in SUBSET Code
    BY DEF Stepped
  <1>3. \A n \in 1 .. N : n \in Nat /\ n - 1 \in 0 .. N /\ n \in 0 .. N /\ n # 0
    BY <1>1
  <1>4. Visited(code, local, cited) = (CHOOSE f : f = Body(f))[N]
    BY DEF Visited, Stepped
  <1>5. \A f : /\ Body(f)[0] = cited
               /\ \A n \in 1 .. N : Body(f)[n] = Stepped(code, local, f[n - 1])
               /\ Body(f) = [n \in 0 .. N |-> Body(f)[n]]
    BY <1>1, <1>3
  <1>6. \A n \in 0 .. N : n = 0 \/ n \in 1 .. N
    BY <1>1
  <1> HIDE DEF N, Body
  <1>7. step \in [Nat -> [SUBSET Code -> SUBSET Code]]
    BY <1>2
  <1>8. \A n \in 1 .. N : \A S \in SUBSET Code : step[n][S] = Stepped(code, local, S)
    BY <1>3
  <1> HIDE DEF step
  <1>9. PICK f \in [0 .. N -> SUBSET Code] : Builds(f, N, cited, step)
    BY <1>1, <1>7, RecursionUpTo
  <1>10. f = Body(f)
    <2>1. ASSUME NEW n \in 1 .. N PROVE f[n] = Body(f)[n]
      <3>1. f[n - 1] \in SUBSET Code
        BY <1>3, <1>9
      <3>2. f[n] = step[n][f[n - 1]]
        BY <1>9 DEF Builds
      <3> QED BY <1>5, <1>8, <3>1, <3>2
    <2>2. f[0] = Body(f)[0]
      BY <1>5, <1>9 DEF Builds
    <2>3. \A n \in 0 .. N : f[n] = Body(f)[n]
      BY <1>6, <2>1, <2>2
    <2>4. f = [n \in 0 .. N |-> f[n]]
      BY <1>9
    <2> QED BY <1>5, <2>3, <2>4
  <1>11. PICK met : met = Body(met) /\ Visited(code, local, cited) = met[N]
    BY <1>4, <1>10
  <1>12. met[0] = cited /\ \A n \in 1 .. N : met[n] = Stepped(code, local, met[n - 1])
    BY <1>5, <1>11
  <1>13. ASSUME NEW n \in 0 .. N PROVE met[n] \in SUBSET Code
    <2> DEFINE S == {k \in Nat : k <= N => met[k] \in SUBSET Code}
    <2>1. 0 \in S
      BY <1>12
    <2>2. ASSUME NEW k \in Nat, k \in S PROVE k + 1 \in S
      <3> SUFFICES ASSUME k + 1 <= N PROVE met[k + 1] \in SUBSET Code
        OBVIOUS
      <3>1. k + 1 \in 1 .. N /\ (k + 1) - 1 = k /\ met[k] \in SUBSET Code
        BY <1>1, <2>2
      <3>2. met[k + 1] = Stepped(code, local, met[k])
        BY <1>12, <3>1
      <3> QED BY <1>2, <3>1, <3>2
    <2> HIDE DEF S
    <2>3. Nat \subseteq S
      BY <2>1, <2>2, BySet
    <2>4. n \in S /\ n <= N
      BY <1>1, <2>3
    <2> QED BY <2>4 DEF S
  <1>14. met \in [0 .. N -> SUBSET Code]
    BY <1>5, <1>11, <1>13
  <1> QED BY <1>11, <1>12, <1>14 DEF Walks, N

\* A round that adds nothing ends the walk, and every other adds a module.
LEMMA VisitedLeast ==
  ASSUME NEW code, NEW local \in SUBSET Code, NEW cited \in SUBSET Code
  PROVE  LET V == Visited(code, local, cited) IN
         /\ V \in SUBSET Code /\ cited \subseteq V /\ Follows(code, local, V)
         /\ \A S \in SUBSET Code :
              cited \subseteq S /\ Follows(code, local, S) => V \subseteq S
  <1> DEFINE N == Cardinality(Code)
  <1>1. N \in Nat /\ IsFiniteSet(Code)
    BY PathsAssumption, FS_CardinalityType
  <1>2. PICK met \in [0 .. N -> SUBSET Code] :
          Walks(met, code, local, cited) /\ Visited(code, local, cited) = met[N]
    BY VisitedUnfolds
  <1>3. met[0] = cited /\ \A n \in 1 .. N : met[n] = Stepped(code, local, met[n - 1])
    BY <1>2 DEF Walks
  <1> HIDE DEF N
  <1>4. \A n \in Nat : n + 1 <= N =>
          /\ n \in 0 .. N /\ n + 1 \in 0 .. N
          /\ met[n] \in SUBSET Code /\ met[n + 1] \in SUBSET Code
          /\ met[n + 1] = Stepped(code, local, met[n])
    <2> SUFFICES ASSUME NEW n \in Nat, n + 1 <= N
                 PROVE  /\ n \in 0 .. N /\ n + 1 \in 0 .. N
                        /\ met[n] \in SUBSET Code /\ met[n + 1] \in SUBSET Code
                        /\ met[n + 1] = Stepped(code, local, met[n])
      OBVIOUS
    <2>1. n \in 0 .. N /\ n + 1 \in 0 .. N /\ n + 1 \in 1 .. N /\ (n + 1) - 1 = n
      BY <1>1
    <2> QED BY <1>2, <1>3, <2>1
  <1>5. \A S \in SUBSET Code : S \subseteq Stepped(code, local, S)
    BY DEF Stepped
  <1>6. cited \subseteq met[N]
    <2> DEFINE S == {n \in Nat : n <= N => cited \subseteq met[n]}
    <2>1. 0 \in S
      BY <1>3
    <2>2. ASSUME NEW n \in Nat, n \in S PROVE n + 1 \in S
      <3> SUFFICES ASSUME n + 1 <= N PROVE cited \subseteq met[n + 1]
        OBVIOUS
      <3>1. n <= N
        BY <1>1
      <3> QED BY <1>4, <1>5, <2>2, <3>1
    <2> HIDE DEF S
    <2>3. N \in S
      BY <1>1, <2>1, <2>2, BySet
    <2> QED BY <1>1, <2>3 DEF S
  <1>7. Stepped(code, local, met[N]) = met[N]
    <2> DEFINE Still(n) == Stepped(code, local, met[n]) = met[n]
               S == {n \in Nat : n <= N => Still(n) \/ Cardinality(met[n]) >= n}
    <2>1. 0 \in S
      <3>1. met[0] \in SUBSET Code
        BY <1>1, <1>2
      <3>2. Cardinality(met[0]) \in Nat
        BY <1>1, <3>1, FS_Subset, FS_CardinalityType
      <3> QED BY <3>2
    <2>2. ASSUME NEW n \in Nat, n \in S PROVE n + 1 \in S
      <3> SUFFICES ASSUME n + 1 <= N, ~ Still(n + 1) PROVE Cardinality(met[n + 1]) >= n + 1
        OBVIOUS
      <3>1. n <= N
        BY <1>1
      <3>2. /\ met[n] \in SUBSET Code /\ met[n + 1] \in SUBSET Code
            /\ met[n + 1] = Stepped(code, local, met[n])
        BY <1>4
      <3>3. ~ Still(n)
        BY <3>2
      <3>4. met[n] \subseteq met[n + 1] /\ met[n] # met[n + 1]
        BY <1>5, <3>2, <3>3
      <3>5. IsFiniteSet(met[n + 1])
        BY <1>1, <3>2, FS_Subset
      <3>6. /\ Cardinality(met[n]) <= Cardinality(met[n + 1])
            /\ Cardinality(met[n]) # Cardinality(met[n + 1])
            /\ IsFiniteSet(met[n])
        BY <3>4, <3>5, FS_Subset
      <3>7. Cardinality(met[n]) \in Nat /\ Cardinality(met[n + 1]) \in Nat
        BY <3>5, <3>6, FS_CardinalityType
      <3>8. Cardinality(met[n]) >= n
        BY <2>2, <3>1, <3>3
      <3> QED BY <3>6, <3>7, <3>8
    <2> HIDE DEF S
    <2>3. N \in S
      BY <1>1, <2>1, <2>2, BySet
    <2>4. Still(N) \/ Cardinality(met[N]) >= N
      BY <1>1, <2>3 DEF S
    <2>5. met[N] \in SUBSET Code
      BY <1>1, <1>2
    <2>6. CASE Cardinality(met[N]) >= N
      <3>1. Cardinality(met[N]) <= N /\ IsFiniteSet(met[N])
        BY <1>1, <2>5, FS_Subset DEF N
      <3>2. Cardinality(met[N]) = Cardinality(Code)
        BY <1>1, <2>6, <3>1, FS_CardinalityType DEF N
      <3>3. met[N] = Code
        BY <1>1, <2>5, <3>2, FS_Subset
      <3> QED BY <3>3 DEF Stepped
    <2> QED BY <2>4, <2>6
  <1>8. ASSUME NEW S \in SUBSET Code, cited \subseteq S, Follows(code, local, S)
        PROVE  met[N] \subseteq S
    <2> DEFINE I == {n \in Nat : n <= N => met[n] \subseteq S}
    <2>1. 0 \in I
      BY <1>3, <1>8
    <2>2. ASSUME NEW n \in Nat, n \in I PROVE n + 1 \in I
      <3> SUFFICES ASSUME n + 1 <= N PROVE met[n + 1] \subseteq S
        OBVIOUS
      <3>1. n <= N
        BY <1>1
      <3>2. met[n] \subseteq S /\ met[n + 1] = Stepped(code, local, met[n])
        BY <1>4, <2>2, <3>1
      <3> QED BY <1>8, <3>2 DEF Stepped, Follows
    <2> HIDE DEF I
    <2>3. N \in I
      BY <1>1, <2>1, <2>2, BySet
    <2> QED BY <1>1, <2>3 DEF I
  <1>9. met[N] \in SUBSET Code
    BY <1>1, <1>2
  <1>10. Follows(code, local, met[N])
    BY <1>7, <1>9 DEF Stepped, Follows
  <1> QED BY <1>2, <1>6, <1>8, <1>9, <1>10

\* Two trees that agree on what either walk visits are walked alike.
LEMMA VisitedAgree ==
  ASSUME NEW one, NEW two, NEW local \in SUBSET Code, NEW cited \in SUBSET Code,
         \A m \in Visited(one, local, cited) \cup Visited(two, local, cited) : one[m] = two[m]
  PROVE  Visited(one, local, cited) = Visited(two, local, cited)
  <1> DEFINE V == Visited(one, local, cited)
             W == Visited(two, local, cited)
  <1>1. /\ V \in SUBSET Code /\ cited \subseteq V /\ Follows(one, local, V)
        /\ \A S \in SUBSET Code : cited \subseteq S /\ Follows(one, local, S) => V \subseteq S
    BY VisitedLeast
  <1>2. /\ W \in SUBSET Code /\ cited \subseteq W /\ Follows(two, local, W)
        /\ \A S \in SUBSET Code : cited \subseteq S /\ Follows(two, local, S) => W \subseteq S
    BY VisitedLeast
  <1>3. \A m \in V \cup W : one[m] = two[m]
    OBVIOUS
  <1> HIDE DEF V, W
  <1>4. Follows(two, local, V) /\ Follows(one, local, W)
    BY <1>1, <1>2, <1>3 DEF Follows
  <1>5. V = W
    BY <1>1, <1>2, <1>4
  <1> QED BY <1>5 DEF V, W

\* When nothing visited is missing and no import that is a file was passed over, the
\* visited modules are those the claim rests on in that tree, whichever imports were
\* followed as local.
LEMMA VisitedIsDepends ==
  ASSUME NEW t, NEW claim, NEW local \in SUBSET Code, CitedModules(claim) \subseteq Code,
         \A m \in Visited(t.code, local, CitedModules(claim)) :
           t.code[m] # Missing /\ t.code[m].imports \cap Local(t) \subseteq local
  PROVE  Depends(t, claim) = Visited(t.code, local, CitedModules(claim))
  <1> DEFINE cited == CitedModules(claim)
             V == Visited(t.code, local, cited)
             own == Local(t)
             imports == [m \in own |-> t.code[m].imports \cap own]
             covers == {S \in SUBSET own : cited \cap own \subseteq S /\ \A m \in S : imports[m] \subseteq S}
  <1>1. /\ V \in SUBSET Code /\ cited \subseteq V /\ Follows(t.code, local, V)
        /\ \A S \in SUBSET Code : cited \subseteq S /\ Follows(t.code, local, S) => V \subseteq S
    BY VisitedLeast
  <1>2. \A m \in V : t.code[m] # Missing /\ t.code[m].imports \cap own \subseteq local
    OBVIOUS
  <1>3. Depends(t, claim) = {m \in own : \A S \in covers : m \in S}
    BY DEF Depends
  <1>4. own = {m \in Code : t.code[m] # Missing} /\ own \subseteq Code
    BY DEF Local
  <1> HIDE DEF V, own, cited
  <1>5. V \subseteq own
    BY <1>1, <1>2, <1>4
  <1>6. \A m \in V : t.code[m].imports \cap own = t.code[m].imports \cap local \cap own
    BY <1>2
  <1>7. \A m \in V : t.code[m].imports \cap local \subseteq V
    BY <1>1, <1>2 DEF Follows
  <1>8. V \in covers
    <2>1. \A m \in V : imports[m] \subseteq V
      BY <1>5, <1>6, <1>7
    <2> QED BY <1>1, <1>5, <2>1
  <1>9. ASSUME NEW S \in covers PROVE V \subseteq S
    <2>1. S \subseteq own /\ cited \subseteq S /\ \A m \in S : t.code[m].imports \cap own \subseteq S
      BY <1>1, <1>5
    <2>2. cited \subseteq S \cap V /\ S \cap V \in SUBSET Code
      BY <1>1, <2>1
    <2>3. Follows(t.code, local, S \cap V)
      <3>1. ASSUME NEW m \in S \cap V PROVE t.code[m].imports \cap local \subseteq S \cap V
        <4>1. t.code[m].imports \cap local \subseteq V
          BY <1>7, <3>1
        <4>2. t.code[m].imports \cap local \subseteq t.code[m].imports \cap own
          BY <1>5, <4>1
        <4> QED BY <2>1, <3>1, <4>1, <4>2
      <3> QED BY <3>1 DEF Follows
    <2> QED BY <1>1, <2>2, <2>3
  <1> HIDE DEF covers
  <1>10. {m \in own : \A S \in covers : m \in S} = V
    BY <1>5, <1>8, <1>9
  <1> QED BY <1>3, <1>10 DEF V, cited

\* A fingerprint that two trees share, neither refused, is of all that the claim rests
\* on in each of them.
LEMMA FingerprintFresh ==
  ASSUME NEW one, NEW two, NEW claim, NEW local \in SUBSET Code, CitedModules(claim) \subseteq Code,
         SourceFingerprint(one.code, local, claim) = claim.sha,
         SourceFingerprint(two.code, local, claim) = claim.sha,
         claim.sha # << >>
  PROVE  Resting(one, claim) = Resting(two, claim)
  <1> DEFINE cited == CitedModules(claim)
             V == Visited(one.code, local, cited)
             W == Visited(two.code, local, cited)
             P == (Config \cup claim.checks) \cup V
             Q == (Config \cup claim.checks) \cup W
  <1>1. /\ claim.sha = [p \in P |-> one.code[p]]
        /\ \A p \in P : one.code[p] # Missing
        /\ \A m \in V : one.code[m].imports \subseteq local \cup Toolchain
    BY DEF SourceFingerprint
  <1>2. /\ claim.sha = [p \in Q |-> two.code[p]]
        /\ \A p \in Q : two.code[p] # Missing
        /\ \A m \in W : two.code[m].imports \subseteq local \cup Toolchain
    BY DEF SourceFingerprint
  <1>3. P = Q /\ \A p \in P : one.code[p] = two.code[p]
    <2>1. DOMAIN claim.sha = P /\ \A p \in P : claim.sha[p] = one.code[p]
      BY <1>1
    <2>2. DOMAIN claim.sha = Q /\ \A p \in Q : claim.sha[p] = two.code[p]
      BY <1>2
    <2> QED BY <2>1, <2>2
  <1>4. V = W
    <2>1. \A m \in V \cup W : one.code[m] = two.code[m]
      BY <1>3
    <2> HIDE DEF P, Q
    <2> QED BY <2>1, VisitedAgree
  <1>5. Depends(one, claim) = V
    <2>1. \A m \in V : one.code[m].imports \cap Local(one) \subseteq local
      BY <1>1, PathsAssumption DEF Local
    <2> QED BY <1>1, <2>1, VisitedIsDepends
  <1>6. Depends(two, claim) = W
    <2>1. \A m \in W : two.code[m].imports \cap Local(two) \subseteq local
      BY <1>2, PathsAssumption DEF Local
    <2> QED BY <1>2, <2>1, VisitedIsDepends
  <1>7. /\ Resting(one, claim) = [p \in (V \cup Config) \cup claim.checks |-> one.code[p]]
        /\ Resting(two, claim) = [p \in (V \cup Config) \cup claim.checks |-> two.code[p]]
    BY <1>4, <1>5, <1>6 DEF Resting
  <1>8. (V \cup Config) \cup claim.checks = P
    OBVIOUS
  <1> HIDE DEF V, P
  <1> QED BY <1>3, <1>7, <1>8
-----------------------------------------------------------------------------
(***************************************************************************)
(* The life of the repository keeps what the gate may rely on: documents   *)
(* whose texts were written, homes that are documents, anchors that keep   *)
(* their names, and reviews that keep the report of their own key.         *)
(***************************************************************************)
TreeShape(t) ==
  /\ {"docs", "code", "reports"} \subseteq DOMAIN t
  /\ DOMAIN t.docs = Documents
  /\ \A path \in Documents : t.docs[path] \in DOMAIN Rendering \cup {Missing}

ReviewShape(review, key) ==
  review.status \in {"reviewed", "qualified"} =>
    review.evidence = key /\ review.sha = <<review.sha[1]>>

ClaimKept(claim) ==
  /\ {"proofs", "checks"} \subseteq DOMAIN claim
  /\ CitedModules(claim) \cup claim.checks \subseteq Code
  /\ Named(claim) \subseteq AnchorNames
  /\ DOMAIN claim.reviews = Keys
  /\ \A key \in Keys : ReviewShape(claim.reviews[key], key)

Kept ==
  /\ TreeShape(tree)
  /\ history \in Seq(Range(history)) /\ \A r \in DOMAIN history : TreeShape(history[r])
  /\ \A path \in DOMAIN registry.aliases : registry.aliases[path] \in Documents
  /\ \A i \in DOMAIN registry.claims : ClaimKept(registry.claims[i])

EvidenceInductive == Inductive /\ Kept

\* Recording and renaming keep what a claim names and cites.
LEMMA ClaimsKept ==
  ASSUME NEW claim, ClaimShape(claim), ClaimKept(claim)
  PROVE  /\ \A t, r : ClaimKept(Recorded(t, claim, r))
         /\ \A from, to : ClaimKept(Renamed(claim, from, to))
         /\ \A key \in Keys : \A review :
              ReviewShape(review, key) => ClaimKept([claim EXCEPT !.reviews[key] = review])
  <1>1. ASSUME NEW t, NEW r PROVE ClaimKept(Recorded(t, claim, r))
    <2> DEFINE new == Recorded(t, claim, r)
    <2>1. /\ DOMAIN new = DOMAIN claim /\ new.proofs = claim.proofs /\ new.checks = claim.checks
          /\ new.reviews = claim.reviews
          /\ new.anchors = [j \in DOMAIN claim.anchors |-> Hashed(t, claim.anchors[j])]
      BY DEF ClaimShape, ClaimKept, Recorded
    <2>2. \A j \in DOMAIN claim.anchors :
            /\ Hashed(t, claim.anchors[j]).heading = claim.anchors[j].heading
            /\ Hashed(t, claim.anchors[j]).paragraph = claim.anchors[j].paragraph
      BY DEF ClaimShape, AnchorFields, Hashed
    <2> HIDE DEF new
    <2>3. Named(new) = Named(claim)
      BY <2>1, <2>2 DEF Named, Range
    <2>4. CitedModules(new) = CitedModules(claim)
      BY <2>1 DEF CitedModules
    <2>5. ClaimKept(new)
      BY <2>1, <2>3, <2>4 DEF ClaimKept
    <2> QED BY <2>5 DEF new
  <1>2. ASSUME NEW from, NEW to PROVE ClaimKept(Renamed(claim, from, to))
    <2> DEFINE new == Renamed(claim, from, to)
    <2>1. /\ DOMAIN new = DOMAIN claim /\ new.proofs = claim.proofs /\ new.checks = claim.checks
          /\ new.reviews = claim.reviews
          /\ new.anchors =
               [j \in DOMAIN claim.anchors |->
                  IF claim.anchors[j].path = from THEN [claim.anchors[j] EXCEPT !.path = to]
                                                  ELSE claim.anchors[j]]
      BY DEF ClaimShape, ClaimKept, Renamed
    <2>2. \A j \in DOMAIN claim.anchors :
            /\ [claim.anchors[j] EXCEPT !.path = to].heading = claim.anchors[j].heading
            /\ [claim.anchors[j] EXCEPT !.path = to].paragraph = claim.anchors[j].paragraph
      BY DEF ClaimShape, AnchorFields
    <2> HIDE DEF new
    <2>3. /\ DOMAIN new.anchors = DOMAIN claim.anchors
          /\ \A j \in DOMAIN claim.anchors :
               /\ new.anchors[j].heading = claim.anchors[j].heading
               /\ new.anchors[j].paragraph = claim.anchors[j].paragraph
      BY <2>1, <2>2
    <2>4. Named(new) = Named(claim)
      BY <2>3 DEF Named, Range
    <2>5. CitedModules(new) = CitedModules(claim)
      BY <2>1 DEF CitedModules
    <2>6. ClaimKept(new)
      BY <2>1, <2>4, <2>5 DEF ClaimKept
    <2> QED BY <2>6 DEF new
  <1>3. ASSUME NEW key \in Keys, NEW review, ReviewShape(review, key)
        PROVE  ClaimKept([claim EXCEPT !.reviews[key] = review])
    <2> DEFINE new == [claim EXCEPT !.reviews[key] = review]
    <2>1. /\ DOMAIN new = DOMAIN claim /\ new.proofs = claim.proofs /\ new.checks = claim.checks
          /\ new.anchors = claim.anchors
          /\ DOMAIN new.reviews = Keys
          /\ \A k \in Keys : new.reviews[k] = IF k = key THEN review ELSE claim.reviews[k]
      BY DEF ClaimShape, ClaimKept
    <2> HIDE DEF new
    <2>2. Named(new) = Named(claim) /\ CitedModules(new) = CitedModules(claim)
      BY <2>1 DEF Named, CitedModules
    <2>3. ClaimKept(new)
      BY <1>3, <2>1, <2>2 DEF ClaimKept
    <2> QED BY <2>3 DEF new
  <1> QED BY <1>1, <1>2, <1>3

LEMMA InitKept == Init => Kept
  <1> SUFFICES ASSUME Init PROVE Kept
    OBVIOUS
  <1>1. PICK start \in Registries :
          tree = start.tree /\ history = <<start.tree>> /\ registry = start.registry
    BY DEF Init
  <1>2. TreeShape(tree)
    BY <1>1, RegistriesAssumption DEF TreeShape
  <1>3. history \in Seq(Range(history)) /\ \A r \in DOMAIN history : TreeShape(history[r])
    <2>1. DOMAIN history = 1 .. 1 /\ history[1] = tree
      BY <1>1
    <2>2. history \in Seq({tree}) /\ Range(history) = {tree}
      BY <1>1, <2>1 DEF Range
    <2> QED BY <1>2, <2>1, <2>2
  <1>4. DOMAIN registry.aliases = {}
    BY <1>1, RegistriesAssumption
  <1>5. ASSUME NEW i \in DOMAIN registry.claims PROVE ClaimKept(registry.claims[i])
    <2> DEFINE claim == registry.claims[i]
    <2>1. Named(claim) \subseteq AnchorNames
      <3>1. claim \in Range(start.registry.claims)
        BY <1>1 DEF Range
      <3> HIDE DEF claim
      <3> QED BY <3>1 DEF AnchorNames
    <2>2. /\ {"proofs", "checks"} \subseteq DOMAIN claim
          /\ CitedModules(claim) \cup claim.checks \subseteq Code
          /\ DOMAIN claim.reviews = Keys
          /\ \A key \in Keys : ReviewShape(claim.reviews[key], key)
      BY <1>1, RegistriesAssumption DEF CitedModules, ReviewShape
    <2> QED BY <2>1, <2>2 DEF ClaimKept
  <1> QED BY <1>2, <1>3, <1>4, <1>5 DEF Kept

LEMMA NextKept == EvidenceInductive /\ [Next]_vars => Kept'
  <1> SUFFICES ASSUME EvidenceInductive, [Next]_vars PROVE Kept'
    OBVIOUS
  <1>0. Inductive /\ Shaped /\ Kept
    BY DEF EvidenceInductive, Inductive
  <1>1. CASE EditDocument
    <2>1. PICK path \in DOMAIN Texts : \E text \in Texts[path] :
            tree' = [tree EXCEPT !.docs[path] = text]
      BY <1>1 DEF EditDocument
    <2>2. PICK text \in Texts[path] : tree' = [tree EXCEPT !.docs[path] = text]
      BY <2>1
    <2>3. text \in DOMAIN Rendering
      BY RenderingAssumption
    <2>4. /\ DOMAIN tree' = DOMAIN tree /\ DOMAIN tree.docs' = DOMAIN tree.docs
          /\ \A p \in Documents : tree.docs'[p] = IF p = path THEN text ELSE tree.docs[p]
      BY <1>0, <2>2 DEF Kept, TreeShape
    <2>5. TreeShape(tree)'
      BY <1>0, <2>3, <2>4 DEF Kept, TreeShape
    <2> QED BY <1>0, <1>1, <2>5 DEF EditDocument, Kept
  <1>2. CASE EditSource
    <2>1. PICK path \in DOMAIN Sources : \E source \in Sources[path] :
            tree' = [tree EXCEPT !.code[path] = source]
      BY <1>2 DEF EditSource
    <2>2. DOMAIN tree' = DOMAIN tree /\ tree.docs' = tree.docs
      BY <1>0, <2>1 DEF Kept, TreeShape
    <2>3. TreeShape(tree)'
      BY <1>0, <2>2 DEF Kept, TreeShape
    <2> QED BY <1>0, <1>2, <2>3 DEF EditSource, Kept
  <1>3. CASE Commit
    <2>1. history' = Append(history, tree) /\ tree' = tree /\ registry' = registry
      BY <1>3 DEF Commit
    <2> DEFINE all == Range(history) \cup {tree}
    <2>2. history \in Seq(all)
      BY <1>0 DEF Kept
    <2>3. /\ DOMAIN history' = 1 .. Len(history) + 1 /\ history'[Len(history) + 1] = tree
          /\ \A r \in 1 .. Len(history) : history'[r] = history[r]
          /\ DOMAIN history = 1 .. Len(history) /\ Len(history) \in Nat
          /\ history' \in Seq(all)
      BY <2>1, <2>2
    <2>4. \A r \in 1 .. Len(history) + 1 : r \in 1 .. Len(history) \/ r = Len(history) + 1
      BY <2>3
    <2>5. \A r \in DOMAIN history' : TreeShape(history'[r])
      BY <1>0, <2>3, <2>4 DEF Kept
    <2>6. history' \in Seq(Range(history'))
      <3>1. /\ DOMAIN history' = 1 .. Len(history') /\ Len(history') \in Nat
            /\ history' = [r \in DOMAIN history' |-> history'[r]]
        BY <2>3
      <3>2. \A r \in DOMAIN history' : history'[r] \in Range(history')
        BY DEF Range
      <3>3. history' \in [1 .. Len(history') -> Range(history')]
        BY <3>1, <3>2
      <3> QED BY <3>1, <3>3
    <2> QED BY <1>0, <2>1, <2>5, <2>6 DEF Kept
  <1>4. CASE RecordEvidence
    <2>1. PICK i \in DOMAIN registry.claims, r \in DOMAIN history :
            registry' = [registry EXCEPT !.claims[i] = Recorded(tree, @, r)]
      BY <1>4 DEF RecordEvidence
    <2>2. /\ registry'.aliases = registry.aliases
          /\ DOMAIN registry'.claims = DOMAIN registry.claims
          /\ \A k \in DOMAIN registry.claims :
               registry'.claims[k] = IF k = i THEN Recorded(tree, registry.claims[i], r)
                                              ELSE registry.claims[k]
      BY <1>0, <2>1 DEF Shaped
    <2>3. \A k \in DOMAIN registry'.claims : ClaimKept(registry'.claims[k])
      BY <1>0, <2>2, ClaimsKept DEF Shaped, Kept
    <2> QED BY <1>0, <1>4, <2>2, <2>3 DEF RecordEvidence, Kept
  <1>5. CASE RecordReview
    <2>1. PICK i \in DOMAIN registry.claims, key \in Reviewed, r \in DOMAIN history,
               named \in DOMAIN history, status \in {"reviewed", "qualified", "not_applicable"} :
            /\ tree' = [tree EXCEPT !.reports[key] = <<named>>]
            /\ registry' = [registry EXCEPT !.claims[i] = [@ EXCEPT !.reviews[key] =
                 [status |-> status, revision |-> r, marker |-> named, evidence |-> key,
                  sha |-> <<named>>]]]
      BY <1>5 DEF RecordReview
    <2> DEFINE review == [status |-> status, revision |-> r, marker |-> named,
                          evidence |-> key, sha |-> <<named>>]
    <2>2. ReviewShape(review, key) /\ key \in Keys
      BY PathsAssumption DEF ReviewShape
    <2> HIDE DEF review
    <2> DEFINE reviewed == [registry.claims[i] EXCEPT !.reviews[key] = review]
    <2>3. registry' = [registry EXCEPT !.claims = [registry.claims EXCEPT ![i] = reviewed]]
      BY <1>0, <2>1 DEF review, Shaped
    <2>4. ClaimKept(reviewed)
      BY <1>0, <2>2, ClaimsKept DEF Shaped, Kept
    <2> HIDE DEF reviewed
    <2>5. /\ registry'.aliases = registry.aliases
          /\ DOMAIN registry'.claims = DOMAIN registry.claims
          /\ \A k \in DOMAIN registry.claims :
               registry'.claims[k] = IF k = i THEN reviewed ELSE registry.claims[k]
      BY <1>0, <2>3 DEF Shaped
    <2>6. \A k \in DOMAIN registry'.claims : ClaimKept(registry'.claims[k])
      BY <1>0, <2>4, <2>5 DEF Kept
    <2>7. DOMAIN tree' = DOMAIN tree /\ tree.docs' = tree.docs
      BY <1>0, <2>1 DEF Kept, TreeShape
    <2>8. TreeShape(tree)'
      BY <1>0, <2>7 DEF Kept, TreeShape
    <2> QED BY <1>0, <1>5, <2>5, <2>6, <2>8 DEF RecordReview, Kept
  <1>6. CASE Relocate
    <2>1. PICK from \in Documents, to \in Documents :
            /\ from # to /\ tree.docs[from] # Missing /\ tree.docs[to] = Missing
            /\ DOMAIN tree' = DOMAIN tree /\ DOMAIN tree.docs' = DOMAIN tree.docs
            /\ tree.docs'[to] = tree.docs[from] /\ tree.docs'[from] = Missing
            /\ \A p \in Documents : p # from /\ p # to => tree.docs'[p] = tree.docs[p]
            /\ registry' = Relocation(registry, from, to)
            /\ history' = history
      BY <1>0, <1>6, MoveFacts
    <2>2. \A p \in Documents : tree.docs'[p] \in DOMAIN Rendering \cup {Missing}
      BY <1>0, <2>1 DEF Kept, TreeShape
    <2>3. TreeShape(tree)'
      BY <1>0, <2>1, <2>2 DEF Kept, TreeShape
    <2>4. Original(registry, from) \in Documents
      BY <1>0 DEF Original, Kept
    <2>5. {"version", "revision", "aliases", "claims"} \subseteq DOMAIN registry
      BY <1>0 DEF Shaped
    <2>6. \A p \in DOMAIN registry'.aliases :
            \/ registry'.aliases[p] = Original(registry, from)
            \/ p \in DOMAIN registry.aliases /\ registry'.aliases[p] = registry.aliases[p]
      <3>1. CASE Original(registry, from) = to
        BY <2>1, <2>5, <3>1, AliasesMoved
      <3>2. CASE Original(registry, from) # to
        BY <2>1, <2>5, <3>2, AliasesMoved
      <3> QED BY <3>1, <3>2
    <2>7. /\ DOMAIN registry'.claims = DOMAIN registry.claims
          /\ \A i \in DOMAIN registry.claims :
               registry'.claims[i] = Renamed(registry.claims[i], from, to)
      BY <1>0, <2>1, ClaimsRenamed
    <2>8. \A i \in DOMAIN registry'.claims : ClaimKept(registry'.claims[i])
      BY <1>0, <2>7, ClaimsKept DEF Shaped, Kept
    <2> QED BY <1>0, <2>1, <2>3, <2>4, <2>6, <2>8 DEF Kept
  <1>7. CASE UNCHANGED vars
    BY <1>0, <1>7 DEF vars, Kept, TreeShape, ClaimKept, ReviewShape
  <1> QED BY <1>1, <1>2, <1>3, <1>4, <1>5, <1>6, <1>7 DEF Next

\* The gate finds the passage its author wrote, if that is what its reader reads.
LEMMA StatedIsPassage ==
  ASSUME PassagesRead, NEW t, TreeShape(t), NEW path \in Documents, NEW anchor,
         <<anchor.heading, anchor.paragraph>> \in AnchorNames
  PROVE  Stated(t, path, anchor) = Passage(Reading(t, path), anchor)
  <1> DEFINE place == [heading |-> anchor.heading, paragraph |-> anchor.paragraph]
             text == t.docs[path]
  <1>1. CASE text = Missing
    BY <1>1, NothingInNothing DEF Stated, Reading
  <1>2. CASE text # Missing
    <2>1. text \in DOMAIN Rendering /\ Reading(t, path) = Rendering[text]
      BY <1>2 DEF TreeShape, Reading
    <2>2. place.heading = anchor.heading /\ place.paragraph = anchor.paragraph
      OBVIOUS
    <2>3. Passage(Rendering[text], place) = Written(text, place)
      BY <2>1 DEF PassagesRead
    <2> HIDE DEF place, text
    <2>4. Passage(Rendering[text], anchor) = Passage(Rendering[text], place)
      BY <2>2 DEF Passage
    <2>5. Written(text, anchor) = Written(text, place)
      BY <2>2 DEF Written
    <2> QED BY <1>2, <2>1, <2>3, <2>4, <2>5 DEF Stated, text
  <1> QED BY <1>1, <1>2

\* An accepted claim finds in its commit what it finds in the working tree.
LEMMA AcceptedSame ==
  ASSUME PassagesRead, EvidenceInductive, Accepted, NEW i \in DOMAIN registry.claims
  PROVE  LET claim == registry.claims[i] IN
         /\ ClaimHolds(tree, history, registry, claim)
         /\ SameAt(ClaimRevision(registry, claim), claim)
  <1> DEFINE claim == registry.claims[i]
             r == ClaimRevision(registry, claim)
             past == history[r]
  <1>1. claim \in Range(registry.claims)
    BY DEF Range
  <1>2. ClaimHolds(tree, history, registry, claim)
    BY <1>1 DEF Accepted, Validate
  <1>3. r \in DOMAIN history
    BY <1>2 DEF ClaimHolds
  <1>4. TreeShape(tree) /\ TreeShape(past) /\ ClaimKept(claim) /\ ClaimShape(claim)
    BY <1>3 DEF EvidenceInductive, Inductive, Shaped, Kept
  <1> HIDE DEF claim, r
  <1>5. Resting(past, claim) = Resting(tree, claim)
    <2>1. Local(tree) \in SUBSET Code /\ CitedModules(claim) \subseteq Code
      BY <1>4 DEF Local, ClaimKept
    <2>2. /\ SourceFingerprint(tree.code, Local(tree), claim) = claim.sha
          /\ SourceFingerprint(past.code, Local(tree), claim) = claim.sha
          /\ claim.sha # << >>
      BY <1>2 DEF ClaimHolds, SourcesHold, r
    <2> QED BY <2>1, <2>2, FingerprintFresh
  <1>6. ASSUME NEW a \in Range(claim.anchors)
        PROVE  Stated(past, Original(registry, a.path), a) = Stated(tree, a.path, a)
    <2>1. /\ AnchorHolds(Reading(tree, a.path), a)
          /\ AnchorHolds(Reading(past, Original(registry, a.path)), a)
      BY <1>2 DEF ClaimHolds, PassagesHold, r
    <2>2. PICK j \in DOMAIN claim.anchors : a = claim.anchors[j]
      BY DEF Range
    <2>3. a.path \in Documents
      BY <1>4, <2>2 DEF ClaimShape
    <2>4. Original(registry, a.path) \in Documents
      BY <2>3 DEF Original, EvidenceInductive, Kept
    <2>5. <<a.heading, a.paragraph>> \in AnchorNames
      BY <1>4 DEF ClaimKept, Named
    <2>6. Stated(tree, a.path, a) = a.sha
      BY <1>4, <2>1, <2>3, <2>5, StatedIsPassage DEF AnchorHolds
    <2>7. Stated(past, Original(registry, a.path), a) = a.sha
      BY <1>4, <2>1, <2>4, <2>5, StatedIsPassage DEF AnchorHolds
    <2> QED BY <2>6, <2>7
  <1>7. SameAt(r, claim)
    BY <1>5, <1>6 DEF SameAt
  <1> QED BY <1>2, <1>7 DEF claim, r

LEMMA EvidenceInvariant == Spec => []EvidenceInductive
  <1>1. Init => EvidenceInductive
    BY InitHolds, InitKept DEF EvidenceInductive
  <1>2. EvidenceInductive /\ [Next]_vars => EvidenceInductive'
    BY NextHolds, NextKept DEF EvidenceInductive
  <1> QED BY <1>1, <1>2, PTL DEF Spec

\* Whatever was edited, moved, committed, recorded and reviewed: every claim the gate
\* accepts rests, in the commit it is dated with, on the sources and the passages of the
\* working tree, each of the two trees resolving its own imports.
THEOREM EvidenceAlwaysFresh ==
  ASSUME PassagesRead
  PROVE  Spec => []EvidenceFresh
  <1>1. EvidenceInductive => EvidenceFresh
    <2> SUFFICES ASSUME EvidenceInductive, Accepted, NEW claim \in Range(registry.claims)
                 PROVE  SameAt(ClaimRevision(registry, claim), claim)
      BY DEF EvidenceFresh
    <2>1. PICK i \in DOMAIN registry.claims : claim = registry.claims[i]
      BY DEF Range
    <2> QED BY <2>1, AcceptedSame
  <1> QED BY <1>1, EvidenceInvariant, PTL

\* The commit that an accepted review's report names held the sources and the passages the
\* working tree holds: a report rewritten or relabelled since is refused by its hash.
THEOREM ReviewAlwaysCurrent ==
  ASSUME PassagesRead
  PROVE  Spec => []ReviewCurrent
  <1>1. EvidenceInductive => ReviewCurrent
    <2> SUFFICES ASSUME EvidenceInductive, NEW i \in DOMAIN registry.claims, NEW key \in Keys,
                        registry.claims[i].reviews[key].status \in {"reviewed", "qualified"},
                        Accepted
                 PROVE  SameAt(tree.reports[key][1], registry.claims[i])
      BY DEF ReviewCurrent
    <2> DEFINE claim == registry.claims[i]
               r == ClaimRevision(registry, claim)
               review == claim.reviews[key]
               report == review.sha
               places == {n \in DOMAIN report : report[n] = r}
    <2>1. ClaimHolds(tree, history, registry, claim) /\ SameAt(r, claim)
      BY AcceptedSame
    <2>2. ValidateReview(tree, review, r, key)
      BY <2>1 DEF ClaimHolds, ReviewsHold
    <2>3. review.evidence = key /\ report = <<report[1]>>
      BY DEF EvidenceInductive, Kept, ClaimKept, ReviewShape
    <2>4. report = tree.reports[key] /\ Cardinality(places) = 1
      BY <2>2, <2>3 DEF ValidateReview
    <2> HIDE DEF report, r
    <2>5. places # {}
      BY <2>4, FS_EmptySet
    <2>6. PICK n \in DOMAIN report : report[n] = r
      BY <2>5
    <2>7. DOMAIN report = {1}
      BY <2>3
    <2>8. tree.reports[key][1] = r
      BY <2>4, <2>6, <2>7
    <2> QED BY <2>1, <2>8
  <1> QED BY <1>1, EvidenceInvariant, PTL
-----------------------------------------------------------------------------
(***************************************************************************)
(* Recording everything anew.  The form of the registry is never lost, and *)
(* what the gate then demands is what makes the tree complete.             *)
(***************************************************************************)
Registered ==
  /\ RegistryFormed(registry)
  /\ registry.target.revision \in DOMAIN history
  /\ Named(registry.target) \subseteq AnchorNames

RefreshInductive == EvidenceInductive /\ Registered

\* Claims changed one by one without what the form is about keep it.
LEMMA FormKept ==
  ASSUME Registered, NEW after, "target" \in DOMAIN after, after.target = registry.target,
         DOMAIN after.claims = DOMAIN registry.claims,
         after.claims = [i \in DOMAIN after.claims |-> after.claims[i]],
         \A i \in DOMAIN registry.claims :
           LET old == registry.claims[i]
               new == after.claims[i]
           IN  /\ DOMAIN new = DOMAIN old
               /\ new.id = old.id /\ new.consumers = old.consumers /\ new.proofs = old.proofs
               /\ new.anchors # << >>
  PROVE  RegistryFormed(after) /\ Ids(after.claims) = Ids(registry.claims)
  <1> DEFINE before == registry.claims
             claims == after.claims
  <1>1. before \in Seq(Range(before)) /\ before # << >>
    BY DEF Registered, RegistryFormed
  <1>2. DOMAIN before = 1 .. Len(before) /\ Len(before) \in Nat /\ Len(before) # 0
    BY <1>1
  <1>3. Ids(claims) = Ids(before)
    BY DEF Ids, Range
  <1>4. claims \in Seq(Range(claims)) /\ Len(claims) = Len(before)
    <2>1. \A i \in DOMAIN claims : claims[i] \in Range(claims)
      BY DEF Range
    <2> HIDE DEF claims, before
    <2>2. claims \in [1 .. Len(before) -> Range(claims)]
      BY <1>2, <2>1 DEF claims, before
    <2> QED BY <1>2, <2>2
  <1>5. ASSUME NEW i \in DOMAIN claims PROVE ClaimFormed(claims[i], Ids(claims))
    <2>1. ClaimFormed(before[i], Ids(before))
      BY DEF Registered, RegistryFormed
    <2> QED BY <1>3, <2>1 DEF ClaimFormed
  <1>6. claims # << >>
    BY <1>2
  <1>7. Cardinality(Ids(claims)) = Len(claims)
    BY <1>3, <1>4 DEF Registered, RegistryFormed
  <1>8. TargetFormed(after.target.anchors)
    BY DEF Registered, RegistryFormed
  <1> QED BY <1>3, <1>4, <1>5, <1>6, <1>7, <1>8 DEF RegistryFormed

LEMMA InitRegistered == RegistriesFormed /\ Init => Registered
  <1> SUFFICES ASSUME RegistriesFormed, Init PROVE Registered
    OBVIOUS
  <1>1. PICK start \in Registries :
          tree = start.tree /\ history = <<start.tree>> /\ registry = start.registry
    BY DEF Init
  <1>2. RegistryFormed(registry) /\ registry.target.revision = 1
    BY <1>1 DEF RegistriesFormed
  <1>3. DOMAIN history = {1}
    BY <1>1
  <1>4. Named(registry.target) \subseteq AnchorNames
    BY <1>1 DEF AnchorNames
  <1> QED BY <1>2, <1>3, <1>4 DEF Registered

LEMMA RecordedForm ==
  ASSUME NEW claim, ClaimShape(claim), {"id", "consumers", "proofs"} \subseteq DOMAIN claim,
         claim.anchors # << >>, NEW t, NEW r
  PROVE  LET new == Recorded(t, claim, r) IN
         /\ DOMAIN new = DOMAIN claim
         /\ new.id = claim.id /\ new.consumers = claim.consumers /\ new.proofs = claim.proofs
         /\ new.anchors # << >>
  <1> DEFINE new == Recorded(t, claim, r)
  <1>1. /\ DOMAIN new = DOMAIN claim
        /\ new.id = claim.id /\ new.consumers = claim.consumers /\ new.proofs = claim.proofs
        /\ new.anchors = [j \in DOMAIN claim.anchors |-> Hashed(t, claim.anchors[j])]
    BY DEF ClaimShape, Recorded
  <1>2. DOMAIN claim.anchors # {}
    BY DEF ClaimShape
  <1> HIDE DEF new
  <1>3. DOMAIN new.anchors # {}
    BY <1>1, <1>2
  <1>4. new.anchors # << >>
    BY <1>3
  <1> QED BY <1>1, <1>4 DEF new

LEMMA NextRegistered == RefreshInductive /\ [Next]_vars => Registered'
  <1> SUFFICES ASSUME RefreshInductive, [Next]_vars PROVE Registered'
    OBVIOUS
  <1>0. /\ Inductive /\ Shaped /\ Kept /\ Registered
        /\ "target" \in DOMAIN registry
        /\ {"version", "revision", "aliases", "claims"} \subseteq DOMAIN registry
    BY DEF RefreshInductive, EvidenceInductive, Inductive, Shaped, Registered, RegistryFormed
  <1>1. \A i \in DOMAIN registry.claims :
          /\ ClaimShape(registry.claims[i]) /\ registry.claims[i].anchors # << >>
          /\ {"id", "consumers", "proofs"} \subseteq DOMAIN registry.claims[i]
    BY <1>0 DEF Shaped, Kept, ClaimKept, Registered, RegistryFormed, ClaimFormed
  <1>2. CASE registry' = registry /\ DOMAIN history \subseteq DOMAIN history'
    BY <1>0, <1>2 DEF Registered
  <1>3. CASE Commit
    <2>1. history' = Append(history, tree) /\ registry' = registry
      BY <1>3 DEF Commit
    <2>2. history \in Seq(Range(history) \cup {tree})
      BY <1>0 DEF Kept
    <2>3. DOMAIN history \subseteq DOMAIN history'
      BY <2>1, <2>2
    <2> QED BY <1>2, <2>1, <2>3
  <1>4. CASE RecordEvidence
    <2>1. PICK i \in DOMAIN registry.claims, r \in DOMAIN history :
            registry' = [registry EXCEPT !.claims[i] = Recorded(tree, @, r)]
      BY <1>4 DEF RecordEvidence
    <2> DEFINE new == Recorded(tree, registry.claims[i], r)
    <2>2. /\ DOMAIN registry' = DOMAIN registry /\ registry'.target = registry.target
          /\ registry'.claims = [registry.claims EXCEPT ![i] = new]
      BY <1>0, <2>1
    <2>3. /\ DOMAIN new = DOMAIN registry.claims[i]
          /\ new.id = registry.claims[i].id /\ new.consumers = registry.claims[i].consumers
          /\ new.proofs = registry.claims[i].proofs /\ new.anchors # << >>
      BY <1>1, RecordedForm
    <2> HIDE DEF new
    <2>4. /\ DOMAIN registry'.claims = DOMAIN registry.claims
          /\ registry'.claims = [k \in DOMAIN registry'.claims |-> registry'.claims[k]]
          /\ \A k \in DOMAIN registry.claims :
               registry'.claims[k] = IF k = i THEN new ELSE registry.claims[k]
      BY <2>2
    <2>5. RegistryFormed(registry')
      BY <1>0, <1>1, <2>2, <2>3, <2>4, FormKept
    <2> QED BY <1>0, <1>4, <2>2, <2>5 DEF RecordEvidence, Registered
  <1>5. CASE RecordReview
    <2>1. PICK i \in DOMAIN registry.claims, key \in Reviewed, r \in DOMAIN history,
               named \in DOMAIN history, status \in {"reviewed", "qualified", "not_applicable"} :
            /\ tree' = [tree EXCEPT !.reports[key] = <<named>>]
            /\ registry' = [registry EXCEPT !.claims[i] = [@ EXCEPT !.reviews[key] =
                 [status |-> status, revision |-> r, marker |-> named, evidence |-> key,
                  sha |-> <<named>>]]]
      BY <1>5 DEF RecordReview
    <2> DEFINE review == [status |-> status, revision |-> r, marker |-> named,
                          evidence |-> key, sha |-> <<named>>]
    <2> HIDE DEF review
    <2> DEFINE new == [registry.claims[i] EXCEPT !.reviews[key] = review]
    <2>2. /\ DOMAIN registry' = DOMAIN registry /\ registry'.target = registry.target
          /\ registry'.claims = [registry.claims EXCEPT ![i] = new]
      BY <1>0, <2>1 DEF review
    <2>3. /\ DOMAIN new = DOMAIN registry.claims[i]
          /\ new.id = registry.claims[i].id /\ new.consumers = registry.claims[i].consumers
          /\ new.proofs = registry.claims[i].proofs /\ new.anchors = registry.claims[i].anchors
      BY <1>1 DEF ClaimShape
    <2> HIDE DEF new
    <2>4. /\ DOMAIN registry'.claims = DOMAIN registry.claims
          /\ registry'.claims = [k \in DOMAIN registry'.claims |-> registry'.claims[k]]
          /\ \A k \in DOMAIN registry.claims :
               registry'.claims[k] = IF k = i THEN new ELSE registry.claims[k]
      BY <2>2
    <2>5. RegistryFormed(registry')
      BY <1>0, <1>1, <2>2, <2>3, <2>4, FormKept
    <2> QED BY <1>0, <1>5, <2>2, <2>5 DEF RecordReview, Registered
  <1>6. CASE Relocate
    <2>1. PICK from \in Documents, to \in Documents :
            registry' = Relocation(registry, from, to) /\ history' = history
      BY <1>0, <1>6, MoveFacts
    <2>2. /\ DOMAIN registry' = DOMAIN registry /\ registry'.target = registry.target
          /\ registry'.claims = [i \in DOMAIN registry.claims |-> Renamed(registry.claims[i], from, to)]
      BY <1>0, <2>1 DEF Relocation
    <2>3. ASSUME NEW i \in DOMAIN registry.claims
          PROVE  LET old == registry.claims[i]
                     new == Renamed(old, from, to)
                 IN  /\ DOMAIN new = DOMAIN old
                     /\ new.id = old.id /\ new.consumers = old.consumers /\ new.proofs = old.proofs
                     /\ new.anchors # << >>
      <3> DEFINE old == registry.claims[i]
                 new == Renamed(old, from, to)
      <3>1. ClaimShape(old) /\ old.anchors # << >> /\ {"id", "consumers", "proofs"} \subseteq DOMAIN old
        BY <1>1
      <3> HIDE DEF old
      <3>2. /\ DOMAIN new = DOMAIN old
            /\ new.id = old.id /\ new.consumers = old.consumers /\ new.proofs = old.proofs
            /\ DOMAIN new.anchors = DOMAIN old.anchors
        BY <3>1 DEF ClaimShape, Renamed
      <3>3. DOMAIN new.anchors # {}
        BY <3>1, <3>2 DEF ClaimShape
      <3> HIDE DEF new
      <3>4. new.anchors # << >>
        BY <3>3
      <3> QED BY <3>2, <3>4 DEF old, new
    <2>4. /\ DOMAIN registry'.claims = DOMAIN registry.claims
          /\ registry'.claims = [k \in DOMAIN registry'.claims |-> registry'.claims[k]]
          /\ \A k \in DOMAIN registry.claims :
               registry'.claims[k] = Renamed(registry.claims[k], from, to)
      BY <2>2
    <2>5. RegistryFormed(registry')
      BY <1>0, <2>2, <2>3, <2>4, FormKept
    <2> QED BY <1>0, <2>1, <2>2, <2>5 DEF Registered
  <1> QED
    BY <1>2, <1>3, <1>4, <1>5, <1>6 DEF Next, vars, EditDocument, EditSource

\* The fingerprint of a claim in its own tree is refused exactly when a path is missing
\* or an import is neither a file nor comes with Lean.
LEMMA FingerprintComplete ==
  ASSUME NEW t, NEW claim, claim.proofs # {}, CitedModules(claim) \cup claim.checks \subseteq Code
  PROVE  SourceFingerprint(t.code, Local(t), claim) # << >>
           <=> /\ (claim.checks \cup CitedModules(claim)) \cup Config \subseteq Local(t)
               /\ \A m \in Depends(t, claim) : t.code[m].imports \subseteq Local(t) \cup Toolchain
  <1> DEFINE own == Local(t)
             cited == CitedModules(claim)
             V == Visited(t.code, own, cited)
             paths == (Config \cup claim.checks) \cup V
             print == SourceFingerprint(t.code, own, claim)
  <1>1. own \in SUBSET Code /\ cited \subseteq Code /\ own = {p \in Code : t.code[p] # Missing}
    BY DEF Local
  <1> HIDE DEF own, cited
  <1>2. /\ V \in SUBSET Code /\ cited \subseteq V /\ Follows(t.code, own, V)
        /\ \A S \in SUBSET Code : cited \subseteq S /\ Follows(t.code, own, S) => V \subseteq S
    <2>1. own \in SUBSET Code /\ cited \in SUBSET Code
      BY <1>1
    <2> QED BY <2>1, VisitedLeast
  <1>3. paths \subseteq Code /\ paths # {}
    <2>1. cited # {}
      BY DEF cited, CitedModules
    <2> QED BY <1>2, <2>1, PathsAssumption
  <1>4. print = IF \/ \E p \in paths : t.code[p] = Missing
                   \/ \E m \in V : ~ t.code[m].imports \subseteq own \cup Toolchain
                THEN << >> ELSE [p \in paths |-> t.code[p]]
    BY DEF SourceFingerprint, cited
  <1>5. V \subseteq own => Depends(t, claim) = V
    BY <1>1, VisitedIsDepends DEF own, cited
  <1> HIDE DEF V, print
  <1>6. [p \in paths |-> t.code[p]] # << >>
    <2>1. DOMAIN [p \in paths |-> t.code[p]] # DOMAIN << >>
      BY <1>3
    <2> QED BY <2>1
  <1>7. print # << >> <=> /\ paths \subseteq own
                          /\ \A m \in V : t.code[m].imports \subseteq own \cup Toolchain
    BY <1>1, <1>3, <1>4, <1>6
  <1>8. cited \subseteq own => V \subseteq own
    <2>1. Follows(t.code, own, own)
      BY DEF Follows
    <2> QED BY <1>1, <1>2, <2>1
  <1>9. paths \subseteq own <=> (claim.checks \cup cited) \cup Config \subseteq own
    BY <1>2, <1>8
  <1>10. paths \subseteq own => V \subseteq own
    OBVIOUS
  <1> HIDE DEF paths
  <1> QED BY <1>5, <1>7, <1>9, <1>10 DEF own, cited, print

\* What the refreshed registry is, claim by claim.
Reopened == [key \in Keys |-> [status |-> "pending"]]

Anew(claim) == [Recorded(tree, claim, Len(history)) EXCEPT !.reviews = Reopened]

LEMMA AnewIs ==
  ASSUME NEW claim, ClaimShape(claim), ClaimKept(claim),
         {"id", "consumers"} \subseteq DOMAIN claim, claim.anchors # << >>
  PROVE  LET new == Anew(claim) IN
         /\ DOMAIN new = DOMAIN claim
         /\ new.id = claim.id /\ new.consumers = claim.consumers
         /\ new.proofs = claim.proofs /\ new.checks = claim.checks
         /\ new.revision = Len(history)
         /\ new.anchors = [j \in DOMAIN claim.anchors |-> Hashed(tree, claim.anchors[j])]
         /\ new.anchors # << >>
         /\ new.sha = SourceFingerprint(tree.code, Local(tree), claim)
         /\ \A key \in Keys : new.reviews[key].status = "pending"
  <1> DEFINE new == Anew(claim)
  <1>1. /\ DOMAIN new = DOMAIN claim
        /\ new.id = claim.id /\ new.consumers = claim.consumers
        /\ new.proofs = claim.proofs /\ new.checks = claim.checks
        /\ new.revision = Len(history)
        /\ new.anchors = [j \in DOMAIN claim.anchors |-> Hashed(tree, claim.anchors[j])]
        /\ new.sha = SourceFingerprint(tree.code, Local(tree), claim)
        /\ new.reviews = Reopened
    BY DEF ClaimShape, ClaimKept, Recorded, Anew
  <1>2. DOMAIN claim.anchors # {}
    BY DEF ClaimShape
  <1> HIDE DEF new
  <1>3. DOMAIN new.anchors # {}
    BY <1>1, <1>2
  <1>4. new.anchors # << >>
    BY <1>3
  <1>5. \A key \in Keys : new.reviews[key].status = "pending"
    BY <1>1 DEF Reopened
  <1> QED BY <1>1, <1>4, <1>5 DEF new

LEMMA RefreshedIs ==
  ASSUME RefreshInductive
  PROVE  /\ Refreshed.version = 3 /\ Refreshed.aliases = << >>
         /\ Refreshed.revision = Len(history) /\ Refreshed.target = registry.target
         /\ DOMAIN Refreshed.claims = DOMAIN registry.claims
         /\ \A i \in DOMAIN registry.claims : Refreshed.claims[i] = Anew(registry.claims[i])
         /\ RegistryFormed(Refreshed)
         /\ Len(history) \in DOMAIN history /\ Len(history) # 0
  <1>0. /\ Shaped /\ Kept /\ Registered /\ "target" \in DOMAIN registry
        /\ {"version", "revision", "aliases", "claims"} \subseteq DOMAIN registry
    BY DEF RefreshInductive, EvidenceInductive, Inductive, Shaped, Registered, RegistryFormed
  <1>1. /\ DOMAIN Refreshed = DOMAIN registry
        /\ Refreshed.version = 3 /\ Refreshed.aliases = << >>
        /\ Refreshed.revision = Len(history) /\ Refreshed.target = registry.target
        /\ Refreshed.claims = [i \in DOMAIN registry.claims |-> Anew(registry.claims[i])]
    BY <1>0 DEF Refreshed, Anew, Reopened
  <1>2. ASSUME NEW i \in DOMAIN registry.claims
        PROVE  LET old == registry.claims[i]
                   new == Anew(registry.claims[i])
               IN  /\ DOMAIN new = DOMAIN old
                   /\ new.id = old.id /\ new.consumers = old.consumers /\ new.proofs = old.proofs
                   /\ new.anchors # << >>
    <2>1. /\ ClaimShape(registry.claims[i]) /\ ClaimKept(registry.claims[i])
          /\ {"id", "consumers"} \subseteq DOMAIN registry.claims[i]
          /\ registry.claims[i].anchors # << >>
      BY <1>0 DEF Shaped, Kept, Registered, RegistryFormed, ClaimFormed
    <2> QED BY <2>1, AnewIs
  <1>3. /\ DOMAIN Refreshed.claims = DOMAIN registry.claims
        /\ Refreshed.claims = [i \in DOMAIN Refreshed.claims |-> Refreshed.claims[i]]
        /\ \A i \in DOMAIN registry.claims : Refreshed.claims[i] = Anew(registry.claims[i])
    BY <1>1
  <1>4. RegistryFormed(Refreshed)
    BY <1>0, <1>1, <1>2, <1>3, FormKept
  <1>5. Len(history) \in DOMAIN history /\ Len(history) # 0
    <2>1. history \in Seq(Range(history)) /\ registry.target.revision \in DOMAIN history
      BY <1>0 DEF Kept, Registered
    <2>2. DOMAIN history = 1 .. Len(history) /\ Len(history) \in Nat
      BY <2>1
    <2> QED BY <2>1, <2>2
  <1> QED BY <1>1, <1>3, <1>4, <1>5

\* A claim recorded anew holds exactly when the tree gives all its evidence.
LEMMA AnewHolds ==
  ASSUME RefreshInductive, PassagesRead, Committed, NEW i \in DOMAIN registry.claims
  PROVE  LET claim == registry.claims[i] IN
         ClaimHolds(tree, history, Refreshed, Refreshed.claims[i])
           <=> /\ \A a \in Range(claim.anchors) : Stated(tree, a.path, a) # NoPassage
               /\ (claim.checks \cup CitedModules(claim)) \cup Config \subseteq Local(tree)
               /\ \A m \in Depends(tree, claim) :
                    tree.code[m].imports \subseteq Local(tree) \cup Toolchain
  <1> DEFINE claim == registry.claims[i]
             new == Refreshed.claims[i]
             last == history[Len(history)]
  <1>1. /\ ClaimShape(claim) /\ ClaimKept(claim) /\ TreeShape(tree)
        /\ ClaimFormed(claim, Ids(registry.claims))
    BY DEF RefreshInductive, EvidenceInductive, Inductive, Shaped, Kept, Registered, RegistryFormed
  <1>2. /\ Refreshed.version = 3 /\ Refreshed.aliases = << >>
        /\ Len(history) \in DOMAIN history /\ Len(history) # 0
        /\ new = Anew(claim)
    BY RefreshedIs
  <1>3. last.docs = tree.docs /\ last.code = tree.code
    BY DEF Committed
  <1> HIDE DEF claim, new, last
  <1>4. /\ new.proofs = claim.proofs /\ new.checks = claim.checks
        /\ new.revision = Len(history)
        /\ new.anchors = [j \in DOMAIN claim.anchors |-> Hashed(tree, claim.anchors[j])]
        /\ new.anchors # << >>
        /\ new.sha = SourceFingerprint(tree.code, Local(tree), claim)
        /\ \A key \in Keys : new.reviews[key].status = "pending"
    BY <1>1, <1>2, AnewIs DEF ClaimFormed
  <1>5. ClaimRevision(Refreshed, new) = Len(history)
    BY <1>2, <1>4 DEF ClaimRevision
  <1>6. ReviewsHold(tree, Refreshed, new)
    BY <1>4 DEF ReviewsHold, ValidateReview
  <1>7. SourcesHold(tree, history, Refreshed, new)
          <=> /\ (claim.checks \cup CitedModules(claim)) \cup Config \subseteq Local(tree)
              /\ \A m \in Depends(tree, claim) :
                   tree.code[m].imports \subseteq Local(tree) \cup Toolchain
    <2>1. CitedModules(new) = CitedModules(claim)
      BY <1>4 DEF CitedModules
    <2>2. SourceFingerprint(tree.code, Local(tree), new) = SourceFingerprint(tree.code, Local(tree), claim)
      BY <1>4, <2>1 DEF SourceFingerprint
    <2>3. claim.proofs # {} /\ \A proof \in claim.proofs : proof.module \in Tests <=> proof.role = "test"
      BY <1>1 DEF ClaimFormed
    <2>4. SourcesHold(tree, history, Refreshed, new) <=> new.sha # << >>
      BY <1>3, <1>4, <1>5, <2>2, <2>3 DEF SourcesHold, last
    <2>5. CitedModules(claim) \cup claim.checks \subseteq Code
      BY <1>1 DEF ClaimKept
    <2> QED BY <1>4, <2>3, <2>4, <2>5, FingerprintComplete
  <1>8. PassagesHold(tree, history, Refreshed, new)
          <=> \A a \in Range(claim.anchors) : Stated(tree, a.path, a) # NoPassage
    <2> DEFINE Found(a) == /\ AnchorHolds(Reading(tree, a.path), a)
                           /\ AnchorHolds(Reading(last, Original(Refreshed, a.path)), a)
    <2>1. ASSUME NEW j \in DOMAIN claim.anchors
          PROVE  Found(new.anchors[j])
                   <=> Stated(tree, claim.anchors[j].path, claim.anchors[j]) # NoPassage
      <3> DEFINE old == claim.anchors[j]
                 now == new.anchors[j]
                 text == Reading(tree, old.path)
      <3>1. /\ old.path \in Documents /\ AnchorFields \subseteq DOMAIN old
            /\ <<old.heading, old.paragraph>> \in AnchorNames
        BY <1>1 DEF ClaimShape, ClaimKept, Named, Range
      <3>2. /\ now.path = old.path /\ now.heading = old.heading /\ now.paragraph = old.paragraph
            /\ now.sha = Passage(text, old)
        BY <1>4, <3>1 DEF Hashed, AnchorFields
      <3>3. Original(Refreshed, now.path) = now.path
        BY <1>2 DEF Original
      <3>4. Reading(last, old.path) = text
        BY <1>3 DEF Reading
      <3> HIDE DEF old, now, text
      <3>5. Passage(text, now) = Passage(text, old)
        BY <3>2 DEF Passage
      <3>6. AnchorHolds(text, now) <=> Passage(text, old) # NoPassage
        BY <3>2, <3>5 DEF AnchorHolds
      <3>7. Stated(tree, old.path, old) = Passage(text, old)
        BY <1>1, <3>1, StatedIsPassage DEF text
      <3>8. Found(now) <=> AnchorHolds(text, now)
        BY <3>2, <3>3, <3>4 DEF text
      <3> QED BY <3>6, <3>7, <3>8 DEF old, now
    <2>2. PassagesHold(tree, history, Refreshed, new) <=> \A a \in Range(new.anchors) : Found(a)
      BY <1>4, <1>5 DEF PassagesHold, last
    <2>3. DOMAIN new.anchors = DOMAIN claim.anchors
      BY <1>4
    <2> HIDE DEF Found
    <2> QED BY <2>1, <2>2, <2>3 DEF Range
  <1>9. ClaimHolds(tree, history, Refreshed, new)
          <=> SourcesHold(tree, history, Refreshed, new) /\ PassagesHold(tree, history, Refreshed, new)
    BY <1>2, <1>5, <1>6 DEF ClaimHolds
  <1> QED BY <1>7, <1>8, <1>9 DEF claim, new

\* The target, which no one may move or date anew.
LEMMA TargetStands ==
  ASSUME RefreshInductive, PassagesRead
  PROVE  TargetHolds(tree, history, Refreshed)
           <=> \A a \in Range(registry.target.anchors),
                  t \in {tree, history[registry.target.revision]} : Stated(t, a.path, a) = a.sha
  <1> DEFINE anchors == registry.target.anchors
             past == history[registry.target.revision]
  <1>1. /\ TargetFormed(anchors) /\ Named(registry.target) \subseteq AnchorNames
        /\ registry.target.revision \in DOMAIN history
    BY DEF RefreshInductive, Registered, RegistryFormed
  <1>2. TreeShape(tree) /\ TreeShape(past)
    BY <1>1 DEF RefreshInductive, EvidenceInductive, Kept
  <1>3. Refreshed.target = registry.target
    BY RefreshedIs
  <1>4. TargetHolds(tree, history, Refreshed)
          <=> \A a \in Range(anchors) :
                AnchorHolds(Reading(tree, a.path), a) /\ AnchorHolds(Reading(past, a.path), a)
    BY <1>1, <1>3 DEF TargetHolds, TargetFormed
  <1>5. ASSUME NEW a \in Range(anchors), NEW t, TreeShape(t)
        PROVE  AnchorHolds(Reading(t, a.path), a) <=> Stated(t, a.path, a) = a.sha
    <2>1. a.path \in Documents /\ a.sha # NoPassage /\ <<a.heading, a.paragraph>> \in AnchorNames
      BY <1>1 DEF TargetFormed, Named
    <2>2. Stated(t, a.path, a) = Passage(Reading(t, a.path), a)
      BY <1>5, <2>1, StatedIsPassage
    <2> QED BY <2>1, <2>2 DEF AnchorHolds
  <1> HIDE DEF past
  <1>6. \A a \in Range(anchors) :
          (AnchorHolds(Reading(tree, a.path), a) /\ AnchorHolds(Reading(past, a.path), a))
            <=> \A t \in {tree, past} : Stated(t, a.path, a) = a.sha
    BY <1>2, <1>5
  <1> QED BY <1>4, <1>6 DEF past

\* Every link of every document, read as it was written.
LEMMA LinksStand ==
  ASSUME RefreshInductive, LinksRead
  PROVE  CheckLinks(tree)
           <=> /\ \A path \in {p \in Documents : tree.docs[p] # Missing} :
                    \A link \in WrittenLinks(tree.docs[path]) :
                      /\ tree.docs[link.path] # Missing
                      /\ link.fragment # << >> =>
                           WrittenFragment(tree.docs[link.path], link.fragment)
               /\ \A path \in Standing : tree.docs[path] # Missing
  <1> DEFINE docs == {p \in Documents : tree.docs[p] # Missing}
             Leads(path) == \A link \in Links(Reading(tree, path)) :
                              /\ tree.docs[link.path] # Missing
                              /\ link.fragment # << >> =>
                                   link.fragment \in Fragments(Reading(tree, link.path))
             Written_(path) == \A link \in WrittenLinks(tree.docs[path]) :
                                 /\ tree.docs[link.path] # Missing
                                 /\ link.fragment # << >> =>
                                      WrittenFragment(tree.docs[link.path], link.fragment)
  <1>1. \A path \in docs : tree.docs[path] \in DOMAIN Rendering /\ Reading(tree, path) = Rendering[tree.docs[path]]
    BY DEF RefreshInductive, EvidenceInductive, Kept, TreeShape, Reading
  <1>2. ASSUME NEW path \in docs PROVE Leads(path) <=> Written_(path)
    <2> DEFINE text == tree.docs[path]
    <2>1. text \in DOMAIN Rendering /\ Reading(tree, path) = Rendering[text]
      BY <1>1
    <2> HIDE DEF text
    <2>2. Links(Rendering[text]) = WrittenLinks(text)
      BY <2>1 DEF LinksRead
    <2>3. ASSUME NEW link \in WrittenLinks(text), tree.docs[link.path] # Missing, link.fragment # << >>
          PROVE  link.fragment \in Fragments(Reading(tree, link.path))
                   <=> WrittenFragment(tree.docs[link.path], link.fragment)
      <3>1. link.path \in docs
        BY <2>1, <2>3 DEF LinksRead
      <3>2. /\ tree.docs[link.path] \in DOMAIN Rendering
            /\ Reading(tree, link.path) = Rendering[tree.docs[link.path]]
        BY <1>1, <3>1
      <3> QED BY <2>1, <2>3, <3>2 DEF LinksRead
    <2> QED BY <2>1, <2>2, <2>3 DEF text
  <1>3. CheckLinks(tree) <=> \A path \in Standing \cup docs : tree.docs[path] # Missing /\ Leads(path)
    BY DEF CheckLinks
  <1>4. (\A path \in Standing : tree.docs[path] # Missing) => Standing \cup docs = docs
    BY PathsAssumption
  <1> HIDE DEF Leads, Written_
  <1>5. (\A path \in Standing \cup docs : tree.docs[path] # Missing /\ Leads(path))
          <=> /\ \A path \in docs : Written_(path)
              /\ \A path \in Standing : tree.docs[path] # Missing
    BY <1>2, <1>4
  <1> QED BY <1>3, <1>5 DEF Written_

\* Recording all evidence anew is accepted exactly when all of it can be given, whatever
\* the repository went through: nothing honest is refused for good.
THEOREM RefreshAlwaysExact ==
  ASSUME PassagesRead, LinksRead, RegistriesFormed
  PROVE  Spec => []RefreshExact
  <1>1. RefreshInductive => RefreshExact
    <2> SUFFICES ASSUME RefreshInductive, Committed
                 PROVE  Validate(tree, history, Refreshed) <=> Complete
      BY DEF RefreshExact
    <2> DEFINE claims == Refreshed.claims
    <2>1. /\ Refreshed.version = 3 /\ Refreshed.aliases = << >>
          /\ Refreshed.revision = Len(history) /\ Len(history) \in DOMAIN history
          /\ DOMAIN claims = DOMAIN registry.claims
          /\ RegistryFormed(Refreshed)
      BY RefreshedIs
    <2>2. DocumentRelocations(Refreshed)
      BY <2>1 DEF DocumentRelocations, IsInjective
    <2>3. /\ claims # << >> /\ Cardinality(Ids(claims)) = Len(claims)
          /\ \A c \in Range(claims) : c.consumers \subseteq Ids(claims) \ {c.id}
      BY <2>1 DEF RegistryFormed, ClaimFormed, Range
    <2>4. Validate(tree, history, Refreshed)
            <=> /\ \A c \in Range(claims) : ClaimHolds(tree, history, Refreshed, c)
                /\ CheckLinks(tree)
                /\ TargetHolds(tree, history, Refreshed)
      BY <2>1, <2>2, <2>3 DEF Validate, Ids
    <2>5. (\A c \in Range(claims) : ClaimHolds(tree, history, Refreshed, c))
            <=> \A i \in DOMAIN registry.claims : ClaimHolds(tree, history, Refreshed, claims[i])
      BY <2>1 DEF Range
    <2> DEFINE Given(c) ==
                 /\ \A a \in Range(c.anchors) : Stated(tree, a.path, a) # NoPassage
                 /\ (c.checks \cup CitedModules(c)) \cup Config \subseteq Local(tree)
                 /\ \A m \in Depends(tree, c) :
                      tree.code[m].imports \subseteq Local(tree) \cup Toolchain
    <2>6. \A i \in DOMAIN registry.claims :
            ClaimHolds(tree, history, Refreshed, claims[i]) <=> Given(registry.claims[i])
      BY AnewHolds
    <2> HIDE DEF claims
    <2>7. Complete
            <=> /\ \A c \in Range(registry.claims) : Given(c)
                /\ CheckLinks(tree)
                /\ TargetHolds(tree, history, Refreshed)
      BY TargetStands, LinksStand DEF Complete
    <2> HIDE DEF Given
    <2>8. (\A c \in Range(registry.claims) : Given(c)) <=> \A i \in DOMAIN registry.claims : Given(registry.claims[i])
      BY DEF Range
    <2> QED BY <2>4, <2>5, <2>6, <2>7, <2>8 DEF claims
  <1>2. Init => RefreshInductive
    BY InitHolds, InitKept, InitRegistered DEF RefreshInductive, EvidenceInductive
  <1>3. RefreshInductive /\ [Next]_vars => RefreshInductive'
    BY NextHolds, NextKept, NextRegistered DEF RefreshInductive, EvidenceInductive
  <1> QED BY <1>1, <1>2, <1>3, PTL DEF Spec
=============================================================================
