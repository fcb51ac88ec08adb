----------------------- MODULE ExpectedFailuresProofs -----------------------
(***************************************************************************)
(* The expected-failure gate for every inventory, every disk and whatever  *)
(* the compiler answers: what a passing gate has looked at.                *)
(***************************************************************************)
EXTENDS ExpectedFailures, FiniteSetTheorems, TLAPS

Sites == {Site(inventory[i]) : i \in DOMAIN inventory}

EntryType == [fixture : Paths, category : Categories, sites : Seq(Sites)]

Distinct == \A i, j \in DOMAIN entries : i # j => entries[i].fixture # entries[j].fixture

Undecided == {"inventory", "compile", "pair"}

GateType ==
  /\ inventory \in Inventories /\ disk \in Disks /\ answers \in Answers
  /\ row \in 1 .. Len(inventory) + 1
  /\ entries \in Seq(EntryType)
  /\ at \in 1 .. Len(entries) + 1
  /\ verdict = "inventory" => at = 1

\* What was verified is what was passed, in order; and once the inventory is read it
\* is the disk that is gone through.
Passed ==
  /\ verified = {entries[i].fixture : i \in 1 .. at - 1}
  /\ \A i \in 1 .. at - 1 : FixtureFailure(entries[i]) = "none"
  /\ verdict = "pair" => at \in DOMAIN entries /\ FixtureFailure(entries[at]) = "none"
  /\ verdict \in {"compile", "pair", "ok"} => disk = Listed
  /\ verdict = "ok" => at = Len(entries) + 1

Inductive == GateType /\ Distinct /\ Passed

LEMMA EntriesShape ==
  ASSUME GateType
  PROVE  /\ Len(entries) \in Nat /\ DOMAIN entries = 1 .. Len(entries)
         /\ \A i \in DOMAIN entries : entries[i].fixture \in Paths /\ entries[i].sites \in Seq(Sites)
  <1>1. entries \in Seq(EntryType)
    BY DEF GateType
  <1>2. Len(entries) \in Nat /\ DOMAIN entries = 1 .. Len(entries)
    BY <1>1
  <1>3. \A i \in DOMAIN entries : entries[i] \in EntryType
    BY <1>1
  <1> QED BY <1>2, <1>3 DEF EntryType

\* The first entry of a fixture is the only one, so that looking for it gives either
\* nothing or that entry.
LEMMA EntryOfFinds ==
  ASSUME GateType, Distinct, NEW fixture
  PROVE  /\ EntryOf(fixture) = 0 => \A i \in DOMAIN entries : entries[i].fixture # fixture
         /\ EntryOf(fixture) # 0 =>
              EntryOf(fixture) \in DOMAIN entries /\ entries[EntryOf(fixture)].fixture = fixture
  <1> DEFINE I == {i \in 1 .. Len(entries) : entries[i].fixture = fixture}
  <1>1. EntryOf(fixture) = IF I # {} THEN Min(I) ELSE 0
    BY DEF EntryOf, SelectInSeq
  <1>2. Len(entries) \in Nat /\ DOMAIN entries = 1 .. Len(entries)
    BY DEF GateType
  <1>3. \A i, j \in I : i = j
    BY <1>2 DEF Distinct
  <1>4. ASSUME NEW i \in I PROVE Min(I) = i
    <2>1. i \in I /\ \A j \in I : i =< j
      BY <1>2, <1>3
    <2>2. Min(I) \in I
      BY <2>1 DEF Min
    <2> QED BY <1>3, <2>2
  <1> QED BY <1>1, <1>2, <1>4

LEMMA RowFailures ==
  ASSUME NEW r, r.kind \in {"note", "malformed", "entry"}
  PROVE  /\ RowFailure(r) \notin {"compile", "pair", "ok", "inventory"}
         /\ RowFailure(r) = "none" /\ r.kind # "note" =>
              r.kind = "entry" /\ r.fixture \in Paths /\ r.category \in Categories
  BY DEF RowFailure

LEMMA FixtureFailures ==
  ASSUME GateType, NEW entry, entry.fixture \in Paths
  PROVE  /\ FixtureFailure(entry) \notin {"compile", "pair", "ok", "inventory"}
         /\ FixtureFailure(entry) = "none" =>
              LET answer == answers[entry.fixture] IN
              /\ answer.status = 1 /\ ~ answer.imitates
              /\ \A i \in DOMAIN answer.lines : answer.lines[i].kind \in Known
  <1>1. answers[entry.fixture].imitates \in BOOLEAN
    BY AnswersAssumption DEF GateType
  <1> QED BY <1>1 DEF FixtureFailure

\* A row read opens an entry of its fixture or joins the one there is.
LEMMA RecordedType ==
  ASSUME GateType, Distinct, NEW i \in DOMAIN inventory, inventory[i].kind = "entry",
         inventory[i].fixture \in Paths, inventory[i].category \in Categories
  PROVE  /\ Recorded(inventory[i]) \in Seq(EntryType)
         /\ Len(Recorded(inventory[i])) >= Len(entries)
         /\ \A k, l \in DOMAIN Recorded(inventory[i]) :
              k # l => Recorded(inventory[i])[k].fixture # Recorded(inventory[i])[l].fixture
  <1> DEFINE r == inventory[i]
             opened == [fixture |-> r.fixture, category |-> r.category, sites |-> <<Site(r)>>]
             n == EntryOf(r.fixture)
  <1>1. Site(r) \in Sites
    BY DEF Sites
  <1>2. entries \in Seq(EntryType) /\ DOMAIN entries = 1 .. Len(entries) /\ Len(entries) \in Nat
    BY DEF GateType
  <1>3. CASE n = 0
    <2>1. Recorded(r) = Append(entries, opened)
      BY <1>3 DEF Recorded
    <2>2. opened \in EntryType
      BY <1>1 DEF EntryType
    <2>3. \A k \in DOMAIN entries : entries[k].fixture # opened.fixture
      BY <1>3, EntryOfFinds
    <2>4. /\ Append(entries, opened) \in Seq(EntryType)
          /\ Len(Append(entries, opened)) = Len(entries) + 1
          /\ \A k \in 1 .. Len(entries) : Append(entries, opened)[k] = entries[k]
          /\ Append(entries, opened)[Len(entries) + 1] = opened
      BY <1>2, <2>2
    <2>5. ASSUME NEW k \in 1 .. Len(entries) + 1, NEW l \in 1 .. Len(entries) + 1, k # l
          PROVE  Append(entries, opened)[k].fixture # Append(entries, opened)[l].fixture
      BY <1>2, <2>3, <2>4, <2>5 DEF Distinct
    <2> QED BY <1>2, <2>1, <2>4, <2>5
  <1>4. CASE n # 0
    <2>1. n \in DOMAIN entries
      BY <1>4, EntryOfFinds
    <2> DEFINE joined == [entries[n] EXCEPT !.sites = Append(@, Site(r))]
    <2>2. Recorded(r) = [entries EXCEPT ![n] = joined]
      BY <1>4 DEF Recorded
    <2>3. entries[n] \in EntryType
      BY <1>2, <2>1
    <2>4. joined \in EntryType /\ joined.fixture = entries[n].fixture
      BY <1>1, <2>3 DEF EntryType
    <2>5. \A k \in DOMAIN entries : [entries EXCEPT ![n] = joined][k].fixture = entries[k].fixture
      BY <2>4
    <2>6. [entries EXCEPT ![n] = joined] \in Seq(EntryType)
      BY <1>2, <2>1, <2>4
    <2>7. Len([entries EXCEPT ![n] = joined]) = Len(entries)
      BY <1>2, <2>6
    <2>8. DOMAIN [entries EXCEPT ![n] = joined] = DOMAIN entries
      OBVIOUS
    <2> HIDE DEF joined
    <2> QED BY <1>2, <2>2, <2>5, <2>6, <2>7, <2>8 DEF Distinct
  <1> QED BY <1>3, <1>4

LEMMA InitHolds == Init => Inductive
  <1> SUFFICES ASSUME Init PROVE Inductive
    OBVIOUS
  <1>1. inventory \in Seq(Range(inventory))
    BY InventoriesAssumption DEF Init
  <1>2. Len(inventory) \in Nat
    BY <1>1
  <1>3. GateType
    BY <1>2 DEF Init, GateType
  <1> QED BY <1>3 DEF Init, Inductive, Distinct, Passed

\* While the inventory is read nothing has been passed yet.
LEMMA ReadRowKeeps == Inductive /\ ReadRow => Inductive'
  <1> SUFFICES ASSUME Inductive, ReadRow PROVE Inductive'
    OBVIOUS
  <1> DEFINE r == inventory[row]
  <1>1. inventory \in Seq(Range(inventory)) /\ r.kind \in {"note", "malformed", "entry"}
        /\ row \in DOMAIN inventory
    <2>1. inventory \in Seq(Range(inventory))
      BY InventoriesAssumption DEF Inductive, GateType
    <2>2. row \in DOMAIN inventory
      BY <2>1 DEF Inductive, GateType, ReadRow
    <2> QED BY <2>1, <2>2, InventoriesAssumption DEF Inductive, GateType
  <1>2. /\ entries' \in Seq(EntryType) /\ Len(entries') >= Len(entries)
        /\ \A k, l \in DOMAIN entries' : k # l => entries'[k].fixture # entries'[l].fixture
    <2>1. CASE r.kind = "note"
      BY <2>1 DEF ReadRow, Inductive, GateType, Distinct
    <2>2. CASE r.kind # "note"
      <3>1. entries' = Recorded(r)
        BY <2>2 DEF ReadRow
      <3>2. r.kind = "entry" /\ r.fixture \in Paths /\ r.category \in Categories
        BY <1>1, <2>2, RowFailures DEF ReadRow
      <3> QED BY <1>1, <3>1, <3>2, RecordedType DEF Inductive
    <2> QED BY <2>1, <2>2
  <1>3. GateType'
    <2>1. row' \in 1 .. Len(inventory) + 1
      BY <1>1 DEF ReadRow, Inductive, GateType
    <2>2. at' = 1 /\ at' \in 1 .. Len(entries') + 1
      BY <1>2 DEF ReadRow, Inductive, GateType
    <2>3. EntryType' = EntryType
      BY DEF ReadRow, inputs, EntryType, Sites
    <2> QED BY <1>2, <2>1, <2>2, <2>3 DEF ReadRow, inputs, Inductive, GateType
  <1>4. Distinct'
    BY <1>2 DEF Distinct
  <1>5. Passed'
    BY DEF Inductive, GateType, Passed, ReadRow
  <1> QED BY <1>3, <1>4, <1>5 DEF Inductive

\* Every later step leaves inventory and entries alone.
LEMMA GateKeeps ==
  ASSUME Inductive, UNCHANGED <<inputs, entries>>, row' \in 1 .. Len(inventory) + 1,
         at' \in 1 .. Len(entries) + 1, verdict' = "inventory" => at' = 1
  PROVE  GateType' /\ Distinct' /\ Listed' = Listed
         /\ \A i \in DOMAIN entries : FixtureFailure(entries[i])' = FixtureFailure(entries[i])
  <1>1. EntryType' = EntryType
    BY DEF inputs, EntryType, Sites
  <1> QED BY <1>1 DEF Inductive, GateType, Distinct, Listed, inputs, FixtureFailure, Errors

\* After ReadRow nothing is written to the entries: what remains to show of a step is
\* where it leaves the gate, and what it has passed.
LEMMA LaterKeeps == Inductive /\ Next /\ ~ ReadRow => Inductive'
  <1> SUFFICES ASSUME Inductive, Next, ~ ReadRow PROVE Inductive'
    OBVIOUS
  <1> USE DEF Inductive
  <1>2. /\ Len(entries) \in Nat /\ DOMAIN entries = 1 .. Len(entries)
        /\ \A i \in DOMAIN entries : entries[i].fixture \in Paths
    BY EntriesShape
  <1>3. at \in 1 .. Len(entries) + 1
    BY DEF GateType
  <1>4. row \in 1 .. Len(inventory) + 1
    BY DEF GateType
  <1>5. CASE RefuseRow
    <2>1. row \in DOMAIN inventory
      <3>1. inventory \in Seq(Range(inventory))
        BY InventoriesAssumption DEF GateType
      <3> QED BY <1>4, <1>5, <3>1 DEF RefuseRow
    <2>2. RowFailure(inventory[row]) \notin {"compile", "pair", "ok", "inventory"}
      BY <2>1, InventoriesAssumption, RowFailures DEF GateType
    <2>3. /\ UNCHANGED <<inputs, entries, row, at, verified>>
          /\ verdict' \notin {"compile", "pair", "ok", "inventory"}
      BY <1>5, <2>2 DEF RefuseRow, inputs
    <2>4. GateType' /\ Distinct'
          /\ \A i \in DOMAIN entries : FixtureFailure(entries[i])' = FixtureFailure(entries[i])
      BY <1>3, <1>4, <2>3, GateKeeps
    <2> QED BY <1>2, <1>3, <2>3, <2>4 DEF Passed
  <1>6. CASE EndInventory
    <2>1. /\ UNCHANGED <<inputs, entries, row, at, verified>>
          /\ verdict' \in {"empty inventory", "uninventoried fixture", "compile"}
          /\ verdict' = "compile" => disk = Listed
          /\ at = 1
      BY <1>6 DEF EndInventory, inputs, GateType
    <2>2. GateType' /\ Distinct' /\ Listed' = Listed
          /\ \A i \in DOMAIN entries : FixtureFailure(entries[i])' = FixtureFailure(entries[i])
      BY <1>3, <1>4, <2>1, GateKeeps
    <2>3. at' = at /\ verified' = verified /\ entries' = entries
      BY <2>1
    <2>4. verdict' = "compile" => disk' = Listed'
      BY <2>1, <2>2 DEF inputs
    <2>5. /\ verified' = {entries'[i].fixture : i \in 1 .. at' - 1}
          /\ \A i \in 1 .. at' - 1 : FixtureFailure(entries[i])' = "none"
      BY <1>2, <1>3, <2>2, <2>3 DEF Passed
    <2> QED BY <2>1, <2>2, <2>4, <2>5 DEF Passed
  <1>7. CASE Compile
    <2>1. /\ UNCHANGED <<inputs, entries, row, at, verified>> /\ verdict' = "pair"
          /\ verdict = "compile" /\ at \in DOMAIN entries /\ FixtureFailure(entries[at]) = "none"
      BY <1>2, <1>3, <1>7 DEF Compile, inputs
    <2>2. GateType' /\ Distinct' /\ Listed' = Listed
          /\ \A i \in DOMAIN entries : FixtureFailure(entries[i])' = FixtureFailure(entries[i])
      BY <1>3, <1>4, <2>1, GateKeeps
    <2>3. at' \in DOMAIN entries' /\ FixtureFailure(entries[at])' = "none"
      BY <2>1, <2>2
    <2>4. disk' = Listed'
      BY <2>1, <2>2 DEF Passed, inputs
    <2>5. /\ verified' = {entries'[i].fixture : i \in 1 .. at' - 1}
          /\ \A i \in 1 .. at' - 1 : FixtureFailure(entries[i])' = "none"
      BY <1>2, <1>3, <2>1, <2>2 DEF Passed
    <2> QED BY <2>1, <2>2, <2>3, <2>4, <2>5 DEF Passed
  <1>8. CASE RefuseFixture
    <2>1. at \in DOMAIN entries
      BY <1>2, <1>3, <1>8 DEF RefuseFixture
    <2>2. FixtureFailure(entries[at]) \notin {"compile", "pair", "ok", "inventory"}
      BY <1>2, <2>1, FixtureFailures
    <2>3. /\ UNCHANGED <<inputs, entries, row, at, verified>>
          /\ verdict' \notin {"compile", "pair", "ok", "inventory"}
      BY <1>8, <2>2 DEF RefuseFixture, inputs
    <2>4. GateType' /\ Distinct'
          /\ \A i \in DOMAIN entries : FixtureFailure(entries[i])' = FixtureFailure(entries[i])
      BY <1>3, <1>4, <2>3, GateKeeps
    <2> QED BY <1>2, <1>3, <2>3, <2>4 DEF Passed
  <1>12. CASE TimeOut
    <2>1. /\ UNCHANGED <<inputs, entries, row, at, verified>>
          /\ verdict' \notin {"compile", "pair", "ok", "inventory"}
      BY <1>12 DEF TimeOut, inputs
    <2>2. GateType' /\ Distinct'
          /\ \A i \in DOMAIN entries : FixtureFailure(entries[i])' = FixtureFailure(entries[i])
      BY <1>3, <1>4, <2>1, GateKeeps
    <2> QED BY <1>2, <1>3, <2>1, <2>2 DEF Passed
  <1>9. CASE Pair \/ RefusePair
    <2>1. /\ UNCHANGED <<inputs, entries, row, at, verified>>
          /\ verdict = "pair" /\ verdict' \in {"pair", "site mismatch"}
      BY <1>9 DEF Pair, RefusePair, inputs
    <2>2. GateType' /\ Distinct' /\ Listed' = Listed
          /\ \A i \in DOMAIN entries : FixtureFailure(entries[i])' = FixtureFailure(entries[i])
      BY <1>3, <1>4, <2>1, GateKeeps
    <2>3. /\ disk' = Listed'
          /\ at' \in DOMAIN entries' /\ FixtureFailure(entries[at])' = "none"
      BY <2>1, <2>2 DEF Passed, inputs
    <2>4. at' = at /\ verified' = verified /\ entries' = entries
      BY <2>1
    <2>5. /\ verified' = {entries'[i].fixture : i \in 1 .. at' - 1}
          /\ \A i \in 1 .. at' - 1 : FixtureFailure(entries[i])' = "none"
      BY <1>2, <1>3, <2>2, <2>4 DEF Passed
    <2> QED BY <2>1, <2>2, <2>3, <2>5 DEF Passed
  <1>10. CASE Verify
    <2>1. /\ UNCHANGED <<inputs, entries, row>> /\ at' = at + 1
          /\ verified' = verified \cup {entries[at].fixture}
          /\ verdict = "pair" /\ verdict' = "compile"
          /\ at \in DOMAIN entries /\ FixtureFailure(entries[at]) = "none"
      BY <1>10 DEF Verify, inputs, Passed
    <2>2. GateType' /\ Distinct' /\ Listed' = Listed
          /\ \A i \in DOMAIN entries : FixtureFailure(entries[i])' = FixtureFailure(entries[i])
      BY <1>2, <1>3, <1>4, <2>1, GateKeeps
    <2>3. 1 .. at' - 1 = (1 .. at - 1) \cup {at}
      BY <1>2, <1>3, <2>1
    <2>4. verified' = {entries[i].fixture : i \in 1 .. at' - 1}
      BY <2>1, <2>3 DEF Passed
    <2> QED BY <1>2, <1>3, <2>1, <2>2, <2>3, <2>4 DEF Passed, inputs
  <1>11. CASE Accept
    <2>1. /\ UNCHANGED <<inputs, entries, row, at, verified>>
          /\ verdict = "compile" /\ verdict' = "ok" /\ at = Len(entries) + 1
      BY <1>2, <1>3, <1>11 DEF Accept, inputs
    <2>2. GateType' /\ Distinct' /\ Listed' = Listed
          /\ \A i \in DOMAIN entries : FixtureFailure(entries[i])' = FixtureFailure(entries[i])
      BY <1>3, <1>4, <2>1, GateKeeps
    <2> QED BY <1>2, <1>3, <2>1, <2>2 DEF Passed, inputs
  <1> QED BY <1>5, <1>6, <1>7, <1>8, <1>9, <1>10, <1>11, <1>12 DEF Next

LEMMA UnchangedKeeps == Inductive /\ UNCHANGED vars => Inductive'
  <1> SUFFICES ASSUME Inductive, UNCHANGED vars PROVE Inductive'
    OBVIOUS
  <1>1. /\ UNCHANGED <<inputs, entries, row, at, verified, verdict>>
        /\ row \in 1 .. Len(inventory) + 1 /\ at \in 1 .. Len(entries) + 1
        /\ verdict = "inventory" => at = 1
    BY DEF vars, inputs, Inductive, GateType
  <1>2. GateType' /\ Distinct' /\ Listed' = Listed
        /\ \A i \in DOMAIN entries : FixtureFailure(entries[i])' = FixtureFailure(entries[i])
    BY <1>1, GateKeeps
  <1>3. Len(entries) \in Nat /\ DOMAIN entries = 1 .. Len(entries)
    BY EntriesShape DEF Inductive
  <1> QED BY <1>1, <1>2, <1>3 DEF Inductive, Passed, inputs

\* From every inventory, disk and compiler: the gate passes fixtures in the order of
\* the inventory, each once, and compares the inventory with the disk before any.
LEMMA GateInductive == Spec => []Inductive
  <1>1. Inductive /\ [Next]_vars => Inductive'
    BY ReadRowKeeps, LaterKeeps, UnchangedKeeps
  <1> QED BY <1>1, InitHolds, PTL DEF Spec

\* Rows and fixtures in turn stay within the inventory, and no fixture has two entries,
\* however its rows are scattered.
THEOREM EntriesTyped == Spec => []TypeOK
  <1>1. Inductive => TypeOK
    <2> SUFFICES ASSUME Inductive PROVE TypeOK
      OBVIOUS
    <2>1. entries \in Seq(EntryType) /\ at \in 1 .. Len(entries) + 1
      BY DEF Inductive, GateType
    <2>2. verified \subseteq Listed
      BY <2>1 DEF Inductive, Passed, Listed
    <2> QED BY <2>1, <2>2 DEF Inductive, GateType, Distinct, TypeOK
  <1> QED BY <1>1, GateInductive, PTL

\* A passing gate has compiled every fixture on disk, and the compiler refused each with
\* nothing but errors and information: no fixture added later, no time limit and no
\* warning slips through, whatever the order of the rows.
THEOREM GateComplete == Spec => []AcceptComplete
  <1>1. Inductive => AcceptComplete
    <2> SUFFICES ASSUME Inductive, verdict = "ok"
                 PROVE  /\ verified = disk
                        /\ \A fixture \in disk :
                             /\ answers[fixture].status = 1 /\ ~ answers[fixture].imitates
                             /\ \A i \in DOMAIN answers[fixture].lines :
                                  answers[fixture].lines[i].kind \in Known
      BY DEF AcceptComplete
    <2>2. /\ DOMAIN entries = 1 .. Len(entries) /\ Len(entries) \in Nat
          /\ \A i \in DOMAIN entries : entries[i].fixture \in Paths
      BY EntriesShape DEF Inductive
    <2>3. 1 .. at - 1 = DOMAIN entries
      BY <2>2 DEF Inductive, Passed
    <2>4. verified = Listed /\ disk = Listed
      BY <2>3 DEF Inductive, Passed, Listed
    <2>5. \A i \in DOMAIN entries : FixtureFailure(entries[i]) = "none"
      BY <2>3 DEF Inductive, Passed
    <2>6. ASSUME NEW i \in DOMAIN entries
          PROVE  LET answer == answers[entries[i].fixture] IN
                 /\ answer.status = 1 /\ ~ answer.imitates
                 /\ \A j \in DOMAIN answer.lines : answer.lines[j].kind \in Known
      BY <2>2, <2>5, FixtureFailures DEF Inductive
    <2> QED BY <2>4, <2>6 DEF Listed
  <1> QED BY <1>1, GateInductive, PTL
-----------------------------------------------------------------------------
(***************************************************************************)
(* The pairing.  An entry lists the rows of its fixture in their order,    *)
(* and at each site all pairings of the sites before it are one.           *)
(***************************************************************************)
Lists(entry, n) ==
  \E rows \in Bijection(DOMAIN entry.sites, RowsOf(entry.fixture) \cap (1 .. n)) :
    \A k \in DOMAIN entry.sites : entry.sites[k] = Site(inventory[rows[k]])

Listing ==
  /\ \A i \in 1 .. row - 1 : inventory[i].kind = "entry" => inventory[i].fixture \in Listed
  /\ \A j \in DOMAIN entries : Lists(entries[j], row - 1)
  /\ verdict \in {"compile", "pair"} => row = Len(inventory) + 1

\* A diagnostic of its own for each of the first n sites.
Gives(given, lines, sites, n) ==
  /\ given \in [1 .. n -> Errors(lines)]
  /\ \A k, l \in 1 .. n : k # l => given[k] # given[l]
  /\ \A k \in 1 .. n : Matches(lines[given[k]], sites[k])

\* There is one such pairing, and left is what it leaves.
PairsOnly(lines, sites, n, left) ==
  \E given :
    /\ Gives(given, lines, sites, n)
    /\ left = Errors(lines) \ {given[k] : k \in 1 .. n}
    /\ \A other : Gives(other, lines, sites, n) => other = given

Pairing ==
  verdict = "pair" =>
    /\ site \in 1 .. Len(entries[at].sites) + 1
    /\ PairsOnly(answers[entries[at].fixture].lines, entries[at].sites, site - 1, pending)

Exact == Inductive /\ Listing /\ Pairing /\ VerifiedExactly

LEMMA NothingPaired ==
  ASSUME NEW lines, NEW sites
  PROVE  PairsOnly(lines, sites, 0, Errors(lines))
  <1> DEFINE none == [k \in 1 .. 0 |-> 0]
  <1>1. Gives(none, lines, sites, 0)
    BY DEF Gives
  <1>2. Errors(lines) = Errors(lines) \ {none[k] : k \in 1 .. 0}
    OBVIOUS
  <1>3. \A other : Gives(other, lines, sites, 0) => other = none
    BY DEF Gives
  <1> QED BY <1>1, <1>2, <1>3 DEF PairsOnly

\* A site that one of the remaining diagnostics matches is paired with it in every
\* pairing: the others are taken, whoever took them.
LEMMA OneMore ==
  ASSUME NEW lines, NEW sites, NEW n \in Nat, NEW left, PairsOnly(lines, sites, n, left),
         NEW m, {i \in left : Matches(lines[i], sites[n + 1])} = {m}
  PROVE  PairsOnly(lines, sites, n + 1, left \ {m})
  <1>1. PICK given :
          /\ Gives(given, lines, sites, n)
          /\ left = Errors(lines) \ {given[k] : k \in 1 .. n}
          /\ \A other : Gives(other, lines, sites, n) => other = given
    BY DEF PairsOnly
  <1> DEFINE more == [k \in 1 .. n + 1 |-> IF k = n + 1 THEN m ELSE given[k]]
  <1>2. /\ m \in Errors(lines) /\ Matches(lines[m], sites[n + 1])
        /\ \A k \in 1 .. n : given[k] # m
    BY <1>1
  <1>3. \A k \in 1 .. n + 1 : k = n + 1 \/ k \in 1 .. n
    OBVIOUS
  <1>4. /\ more[n + 1] = m /\ \A k \in 1 .. n : more[k] = given[k]
        /\ DOMAIN more = 1 .. n + 1 /\ more = [k \in 1 .. n + 1 |-> more[k]]
    OBVIOUS
  <1> HIDE DEF more
  <1>5. Gives(more, lines, sites, n + 1)
    <2>1. \A k \in 1 .. n + 1 : more[k] \in Errors(lines) /\ Matches(lines[more[k]], sites[k])
      BY <1>1, <1>2, <1>3, <1>4 DEF Gives
    <2>2. \A k, l \in 1 .. n + 1 : k # l => more[k] # more[l]
      BY <1>1, <1>2, <1>3, <1>4 DEF Gives
    <2>3. more \in [1 .. n + 1 -> Errors(lines)]
      BY <1>4, <2>1
    <2> QED BY <2>1, <2>2, <2>3 DEF Gives
  <1>6. left \ {m} = Errors(lines) \ {more[k] : k \in 1 .. n + 1}
    <2>0. n + 1 \in 1 .. n + 1 /\ \A k \in 1 .. n : k \in 1 .. n + 1
      OBVIOUS
    <2>1. \A k \in 1 .. n + 1 : more[k] \in {given[l] : l \in 1 .. n} \cup {m}
      BY <1>3, <1>4
    <2>2. \A k \in 1 .. n : given[k] \in {more[l] : l \in 1 .. n + 1}
      BY <1>4, <2>0
    <2>3. m \in {more[l] : l \in 1 .. n + 1}
      BY <1>4, <2>0
    <2>4. {more[k] : k \in 1 .. n + 1} = {given[k] : k \in 1 .. n} \cup {m}
      BY <2>1, <2>2, <2>3
    <2> QED BY <1>1, <2>4
  <1>7. ASSUME NEW other, Gives(other, lines, sites, n + 1) PROVE other = more
    <2> DEFINE first == [k \in 1 .. n |-> other[k]]
    <2>1. Gives(first, lines, sites, n)
      BY <1>7 DEF Gives
    <2>2. \A k \in 1 .. n : other[k] = given[k]
      BY <1>1, <2>1
    <2>3. other[n + 1] \in Errors(lines) /\ \A k \in 1 .. n : other[n + 1] # other[k]
      BY <1>7 DEF Gives
    <2>4. other[n + 1] \in left /\ Matches(lines[other[n + 1]], sites[n + 1])
      BY <1>1, <1>7, <2>2, <2>3 DEF Gives
    <2>5. other[n + 1] = m
      BY <2>4
    <2>6. other = [k \in 1 .. n + 1 |-> other[k]]
      BY <1>7 DEF Gives
    <2>7. \A k \in 1 .. n + 1 : other[k] = more[k]
      BY <1>3, <1>4, <2>2, <2>5
    <2> QED BY <1>4, <2>6, <2>7
  <1> QED BY <1>5, <1>6, <1>7 DEF PairsOnly

\* When every site is paired, the rows of the fixture are paired in one way.
LEMMA AllPaired ==
  ASSUME NEW fixture, NEW sites, NEW left, Len(sites) \in Nat, DOMAIN sites = 1 .. Len(sites),
         NEW rows \in Bijection(DOMAIN sites, RowsOf(fixture)),
         \A k \in DOMAIN sites : sites[k] = Site(inventory[rows[k]]),
         PairsOnly(answers[fixture].lines, sites, Len(sites), left),
         Cardinality(ErrorsOf(fixture)) = Len(sites)
  PROVE  /\ Cardinality(RowsOf(fixture)) = Cardinality(ErrorsOf(fixture))
         /\ Cardinality(Pairings(fixture)) = 1
  <1> DEFINE lines == answers[fixture].lines
             N == Len(sites)
             R == RowsOf(fixture)
  <1>1. PICK given :
          /\ Gives(given, lines, sites, N)
          /\ \A other : Gives(other, lines, sites, N) => other = given
    BY DEF PairsOnly
  <1>2. Cardinality(R) = N
    <2>1. ExistsBijection(1 .. N, R)
      BY DEF ExistsBijection
    <2>2. IsFiniteSet(1 .. N) /\ Cardinality(1 .. N) = N
      <3>1. 1 \in Int /\ N \in Nat /\ N \in Int
        OBVIOUS
      <3> HIDE DEF N
      <3>2. IsFiniteSet(1 .. N) /\ Cardinality(1 .. N) = IF 1 > N THEN 0 ELSE N - 1 + 1
        BY <3>1, FS_Interval
      <3> QED BY <3>1, <3>2
    <2> QED BY <2>1, <2>2, FS_Bijection
  <1>3. /\ rows \in [1 .. N -> R]
        /\ \A k, l \in 1 .. N : k # l => rows[k] # rows[l]
        /\ \A r \in R : \E k \in 1 .. N : rows[k] = r
    BY DEF Bijection, Injection, Surjection, IsInjective
  <1> DEFINE place == [r \in R |-> CHOOSE k \in 1 .. N : rows[k] = r]
  <1>4. \A r \in R : place[r] \in 1 .. N /\ rows[place[r]] = r
    BY <1>3
  <1>5. \A k \in 1 .. N : place[rows[k]] = k
    BY <1>3, <1>4
  <1> HIDE DEF place
  <1> DEFINE pairing == [r \in R |-> given[place[r]]]
  <1>6. pairing \in Pairings(fixture)
    <2>1. pairing \in [R -> ErrorsOf(fixture)]
      BY <1>1, <1>4 DEF Gives, ErrorsOf
    <2>2. \A i, j \in R : i # j => pairing[i] # pairing[j]
      BY <1>1, <1>4 DEF Gives
    <2>3. \A i \in R : Matches(lines[pairing[i]], Site(inventory[i]))
      BY <1>1, <1>4 DEF Gives
    <2> QED BY <2>1, <2>2, <2>3 DEF Pairings
  <1>7. ASSUME NEW p \in Pairings(fixture) PROVE p = pairing
    <2> DEFINE other == [k \in 1 .. N |-> p[rows[k]]]
    <2>1. /\ p \in [R -> Errors(lines)]
          /\ \A i, j \in R : i # j => p[i] # p[j]
          /\ \A i \in R : Matches(lines[p[i]], Site(inventory[i]))
      BY DEF Pairings, ErrorsOf
    <2>2. Gives(other, lines, sites, N)
      <3>1. other \in [1 .. N -> Errors(lines)]
        BY <1>3, <2>1
      <3>2. \A k, l \in 1 .. N : k # l => other[k] # other[l]
        BY <1>3, <2>1
      <3>3. \A k \in 1 .. N : Matches(lines[other[k]], sites[k])
        BY <1>3, <2>1
      <3> HIDE DEF other
      <3> QED BY <3>1, <3>2, <3>3 DEF Gives
    <2>3. other = given
      BY <1>1, <2>2
    <2>4. \A r \in R : p[r] = given[place[r]]
      BY <1>4, <2>3
    <2> QED BY <2>1, <2>4
  <1>8. Pairings(fixture) = {pairing}
    BY <1>6, <1>7
  <1>9. Cardinality({pairing}) = 1
    BY FS_Singleton
  <1> QED BY <1>2, <1>8, <1>9

\* A row of another fixture leaves an entry as it is.
LEMMA ListsSame ==
  ASSUME row \in Nat \ {0}, NEW entry, Lists(entry, row - 1), row \notin RowsOf(entry.fixture)
  PROVE  Lists(entry, row)
  <1>1. \A i \in 1 .. row : i = row \/ i \in 1 .. row - 1
    OBVIOUS
  <1>2. RowsOf(entry.fixture) \cap (1 .. row) = RowsOf(entry.fixture) \cap (1 .. row - 1)
    BY <1>1
  <1> QED BY <1>2 DEF Lists

\* A row of the fixture comes last among its sites.
LEMMA ListsMore ==
  ASSUME row \in Nat \ {0}, NEW entry, Lists(entry, row - 1), row \in RowsOf(entry.fixture),
         NEW longer, longer.fixture = entry.fixture, entry.sites \in Seq(Sites),
         Site(inventory[row]) \in Sites,
         longer.sites = Append(entry.sites, Site(inventory[row]))
  PROVE  Lists(longer, row)
  <1> DEFINE R == RowsOf(entry.fixture)
             L == Len(entry.sites)
  <1>1. PICK rows \in Bijection(DOMAIN entry.sites, R \cap (1 .. row - 1)) :
          \A k \in DOMAIN entry.sites : entry.sites[k] = Site(inventory[rows[k]])
    BY DEF Lists
  <1>2. /\ L \in Nat /\ DOMAIN entry.sites = 1 .. L /\ DOMAIN longer.sites = 1 .. L + 1
        /\ \A k \in 1 .. L : longer.sites[k] = entry.sites[k]
        /\ longer.sites[L + 1] = Site(inventory[row])
    OBVIOUS
  <1>3. /\ rows \in [1 .. L -> R \cap (1 .. row - 1)]
        /\ \A k, l \in 1 .. L : rows[k] = rows[l] => k = l
        /\ \A i \in R \cap (1 .. row - 1) : \E k \in 1 .. L : rows[k] = i
    BY <1>1, <1>2 DEF Bijection, Injection, Surjection, IsInjective
  <1> HIDE DEF L
  <1> DEFINE more == [k \in 1 .. L + 1 |-> IF k = L + 1 THEN row ELSE rows[k]]
  <1>4. /\ more[L + 1] = row /\ \A k \in 1 .. L : more[k] = rows[k]
        /\ DOMAIN more = 1 .. L + 1 /\ more = [k \in 1 .. L + 1 |-> more[k]]
    BY <1>2
  <1> HIDE DEF more, R
  <1>5. \A k \in 1 .. L + 1 : k = L + 1 \/ k \in 1 .. L
    BY <1>2
  <1>6. \A i \in R \cap (1 .. row) : i = row \/ i \in R \cap (1 .. row - 1)
    OBVIOUS
  <1>7. more \in [1 .. L + 1 -> R \cap (1 .. row)]
    <2>0. row \in R \cap (1 .. row) /\ R \cap (1 .. row - 1) \subseteq R \cap (1 .. row)
      BY DEF R
    <2>1. \A k \in 1 .. L + 1 : more[k] \in R \cap (1 .. row)
      BY <1>3, <1>4, <1>5, <2>0
    <2> QED BY <1>4, <2>1
  <1>8. \A k, l \in 1 .. L + 1 : more[k] = more[l] => k = l
    <2>1. row \notin R \cap (1 .. row - 1)
      OBVIOUS
    <2>2. \A k \in 1 .. L : rows[k] # row
      BY <1>3, <2>1
    <2> SUFFICES ASSUME NEW k \in 1 .. L + 1, NEW l \in 1 .. L + 1, more[k] = more[l]
                 PROVE  k = l
      OBVIOUS
    <2>3. CASE k = L + 1 /\ l = L + 1
      BY <2>3
    <2>4. CASE k \in 1 .. L /\ l \in 1 .. L
      BY <1>3, <1>4, <2>4
    <2>5. CASE k = L + 1 /\ l \in 1 .. L
      BY <1>4, <2>2, <2>5
    <2>6. CASE l = L + 1 /\ k \in 1 .. L
      BY <1>4, <2>2, <2>6
    <2> QED BY <1>5, <2>3, <2>4, <2>5, <2>6
  <1>9. \A i \in R \cap (1 .. row) : \E k \in 1 .. L + 1 : more[k] = i
    <2>1. L + 1 \in 1 .. L + 1 /\ \A k \in 1 .. L : k \in 1 .. L + 1
      BY <1>2
    <2> QED BY <1>3, <1>4, <1>6, <2>1
  <1>10. more \in Bijection(1 .. L + 1, R \cap (1 .. row))
    BY <1>7, <1>8, <1>9 DEF Bijection, Injection, Surjection, IsInjective
  <1>11. \A k \in 1 .. L + 1 : longer.sites[k] = Site(inventory[more[k]])
    BY <1>1, <1>2, <1>4, <1>5
  <1> QED BY <1>2, <1>10, <1>11 DEF Lists, R

\* The first row of a fixture is the only one of its entry.
LEMMA ListsFirst ==
  ASSUME row \in Nat \ {0}, NEW entry, RowsOf(entry.fixture) \cap (1 .. row) = {row},
         entry.sites = <<Site(inventory[row])>>
  PROVE  Lists(entry, row)
  <1> DEFINE rows == [k \in {1} |-> row]
  <1>1. DOMAIN entry.sites = {1} /\ entry.sites[1] = Site(inventory[row])
    OBVIOUS
  <1>2. rows \in Bijection({1}, {row}) /\ rows[1] = row
    BY DEF Bijection, Injection, Surjection, IsInjective
  <1> QED BY <1>1, <1>2 DEF Lists

\* Reading a row, the entries list what was read.
LEMMA ReadRowLists == Inductive /\ Listing /\ ReadRow => Listing'
  <1> SUFFICES ASSUME Inductive, Listing, ReadRow PROVE Listing'
    OBVIOUS
  <1> DEFINE r == inventory[row]
             n == EntryOf(r.fixture)
  <1>1. /\ row \in Nat \ {0} /\ row' = row + 1 /\ inventory' = inventory /\ verdict' = "inventory"
        /\ row \in DOMAIN inventory /\ row \in 1 .. Len(inventory)
    <2>1. inventory \in Seq(Range(inventory)) /\ row \in 1 .. Len(inventory) + 1
      BY InventoriesAssumption DEF Inductive, GateType
    <2> QED BY <2>1 DEF ReadRow, inputs
  <1>2. /\ entries \in Seq(EntryType) /\ Len(entries) \in Nat /\ DOMAIN entries = 1 .. Len(entries)
        /\ \A j \in DOMAIN entries : entries[j] \in EntryType
    BY DEF Inductive, GateType
  <1>3. \A i \in 1 .. row : i = row \/ i \in 1 .. row - 1
    BY <1>1
  <1>4. row' - 1 = row
    BY <1>1
  <1>5. \A j \in DOMAIN entries : Lists(entries[j], row - 1)
    BY DEF Listing
  <1>6. SUFFICES /\ \A i \in 1 .. row : inventory[i].kind = "entry" => inventory[i].fixture \in Listed'
                 /\ \A j \in DOMAIN entries' : Lists(entries'[j], row)
    <2>1. ASSUME NEW j \in DOMAIN entries', Lists(entries'[j], row)
          PROVE  Lists(entries[j], row - 1)'
      BY <1>1, <1>4, <2>1 DEF Lists, RowsOf
    <2>2. verdict' \notin {"compile", "pair"}
      BY <1>1
    <2> QED BY <1>1, <1>4, <2>1, <2>2 DEF Listing
  <1>7. CASE r.kind = "note"
    <2>1. entries' = entries /\ Listed' = Listed
      BY <1>7 DEF ReadRow, Listed
    <2>2. \A fixture : row \notin RowsOf(fixture)
      BY <1>7 DEF RowsOf
    <2>3. \A j \in DOMAIN entries' : Lists(entries'[j], row)
      BY <1>1, <1>5, <2>1, <2>2, ListsSame
    <2>4. \A i \in 1 .. row - 1 : inventory[i].kind = "entry" => inventory[i].fixture \in Listed'
      BY <2>1 DEF Listing
    <2> QED BY <1>3, <1>7, <2>3, <2>4
  <1>8. CASE r.kind # "note"
    <2>1. entries' = Recorded(r) /\ r.kind = "entry"
      <3>1. r.kind \in {"note", "malformed", "entry"}
        BY <1>1, InventoriesAssumption DEF Inductive, GateType
      <3> QED BY <1>8, <3>1, RowFailures DEF ReadRow
    <2>2. \A fixture : row \in RowsOf(fixture) <=> fixture = r.fixture
      BY <1>1, <2>1 DEF RowsOf
    <2>3. Site(r) \in Sites
      BY <1>1 DEF Sites
    <2>4. CASE n = 0
      <3> DEFINE opened == [fixture |-> r.fixture, category |-> r.category, sites |-> <<Site(r)>>]
      <3>1. entries' = Append(entries, opened)
        BY <2>1, <2>4 DEF Recorded
      <3>2. \A j \in DOMAIN entries : entries[j].fixture # r.fixture
        BY <2>4, EntryOfFinds DEF Inductive
      <3>3. /\ DOMAIN entries' = 1 .. Len(entries) + 1 /\ entries'[Len(entries) + 1] = opened
            /\ \A j \in 1 .. Len(entries) : entries'[j] = entries[j]
        BY <1>2, <3>1
      <3>4. opened.fixture = r.fixture /\ opened.sites = <<Site(r)>>
        OBVIOUS
      <3> HIDE DEF opened
      <3>5. RowsOf(r.fixture) \cap (1 .. row) = {row}
        <4>1. \A i \in 1 .. row - 1 : i \notin RowsOf(r.fixture)
          BY <3>2 DEF Listing, Listed, RowsOf
        <4> QED BY <1>1, <1>3, <2>2, <4>1
      <3>6. Lists(opened, row)
        BY <1>1, <3>4, <3>5, ListsFirst
      <3>7. \A j \in 1 .. Len(entries) : Lists(entries[j], row)
        BY <1>1, <1>2, <1>5, <2>2, <3>2, ListsSame
      <3>8. \A j \in 1 .. Len(entries) + 1 : j = Len(entries) + 1 \/ j \in 1 .. Len(entries)
        BY <1>2
      <3>9. \A j \in DOMAIN entries' : Lists(entries'[j], row)
        BY <3>3, <3>6, <3>7, <3>8
      <3>10. Listed \subseteq Listed' /\ r.fixture \in Listed'
        <4>1. Len(entries) + 1 \in DOMAIN entries' /\ DOMAIN entries \subseteq DOMAIN entries'
          BY <1>2, <3>3
        <4> QED BY <1>2, <3>3, <3>4, <4>1 DEF Listed
      <3> QED BY <1>3, <3>9, <3>10 DEF Listing
    <2>5. CASE n # 0
      <3>1. n \in DOMAIN entries /\ entries[n].fixture = r.fixture
        BY <2>5, EntryOfFinds DEF Inductive
      <3> DEFINE joined == [entries[n] EXCEPT !.sites = Append(@, Site(r))]
      <3>2. entries' = [entries EXCEPT ![n] = joined]
        BY <2>1, <2>5 DEF Recorded
      <3>3. /\ joined.fixture = entries[n].fixture
            /\ joined.sites = Append(entries[n].sites, Site(r)) /\ entries[n].sites \in Seq(Sites)
        BY <1>2, <3>1 DEF EntryType
      <3> HIDE DEF n, joined
      <3>4. Lists(joined, row)
        BY <1>1, <1>5, <2>2, <2>3, <3>1, <3>3, ListsMore
      <3>5. ASSUME NEW j \in DOMAIN entries, j # n PROVE Lists(entries[j], row)
        BY <1>1, <1>5, <2>2, <3>1, <3>5, ListsSame DEF Inductive, Distinct
      <3>6. \A j \in DOMAIN entries' : Lists(entries'[j], row)
        BY <3>2, <3>4, <3>5
      <3>7. Listed' = Listed
        <4>1. DOMAIN entries' = DOMAIN entries /\ \A j \in DOMAIN entries : entries'[j].fixture = entries[j].fixture
          BY <3>2, <3>3
        <4> QED BY <4>1 DEF Listed
      <3> QED BY <1>3, <3>1, <3>6, <3>7 DEF Listing, Listed
    <2> QED BY <2>4, <2>5
  <1> QED BY <1>7, <1>8

\* After the inventory the entries and what they list stay.
LEMMA ListingStays ==
  ASSUME Listing, UNCHANGED <<inputs, row, entries>>,
         verdict' \in {"compile", "pair"} => row = Len(inventory) + 1
  PROVE  Listing'
  <1>1. inventory' = inventory /\ row' = row /\ entries' = entries
    BY DEF inputs
  <1>2. ASSUME NEW j \in DOMAIN entries PROVE Lists(entries[j], row - 1)'
    <2>1. RowsOf(entries[j].fixture)' = RowsOf(entries[j].fixture)
      BY <1>1 DEF RowsOf
    <2>2. PICK rows \in Bijection(DOMAIN entries[j].sites,
                                  RowsOf(entries[j].fixture) \cap (1 .. row - 1)) :
            \A k \in DOMAIN entries[j].sites : entries[j].sites[k] = Site(inventory[rows[k]])
      BY DEF Listing, Lists
    <2>3. \A k \in DOMAIN entries'[j].sites : entries'[j].sites[k] = Site(inventory'[rows[k]])
      BY <1>1, <2>2
    <2>4. rows \in Bijection(DOMAIN entries'[j].sites,
                             RowsOf(entries[j].fixture)' \cap (1 .. row' - 1))
      BY <1>1, <2>1, <2>2
    <2> QED BY <2>3, <2>4 DEF Lists
  <1>3. Listed' = Listed
    BY <1>1 DEF Listed
  <1> QED BY <1>1, <1>2, <1>3 DEF Listing

LEMMA AnswersStay ==
  ASSUME UNCHANGED inputs
  PROVE  \A fixture :
           /\ RowsOf(fixture)' = RowsOf(fixture)
           /\ ErrorsOf(fixture)' = ErrorsOf(fixture)
           /\ Pairings(fixture)' = Pairings(fixture)
  <1>1. inventory' = inventory /\ answers' = answers
    BY DEF inputs
  <1>2. ASSUME NEW fixture PROVE RowsOf(fixture)' = RowsOf(fixture) /\ ErrorsOf(fixture)' = ErrorsOf(fixture)
    BY <1>1 DEF RowsOf, ErrorsOf
  <1>3. ASSUME NEW fixture PROVE Pairings(fixture)' = Pairings(fixture)
    BY <1>1, <1>2 DEF Pairings
  <1> QED BY <1>2, <1>3

LEMMA ErrorsFinite ==
  ASSUME GateType, NEW fixture \in Paths
  PROVE  IsFiniteSet(Errors(answers[fixture].lines))
  <1> DEFINE lines == answers[fixture].lines
  <1>1. lines \in Seq(Range(lines))
    BY AnswersAssumption DEF GateType
  <1>2. Len(lines) \in Nat /\ DOMAIN lines = 1 .. Len(lines)
    BY <1>1
  <1>3. IsFiniteSet(1 .. Len(lines))
    <2>1. 1 \in Int /\ Len(lines) \in Int
      BY <1>2
    <2> QED BY <2>1, FS_Interval
  <1>4. Errors(lines) \subseteq 1 .. Len(lines)
    BY <1>2 DEF Errors
  <1> QED BY <1>3, <1>4, FS_Subset

\* A site that one diagnostic matches takes that one.
LEMMA PairKeeps == Exact /\ Pair => Pairing'
  <1> SUFFICES ASSUME Exact, Pair PROVE Pairing'
    OBVIOUS
  <1> DEFINE lines == answers[entries[at].fixture].lines
             sites == entries[at].sites
  <1>1. PICK m \in Found(sites[site]) : pending' = pending \ {m}
    BY DEF Pair
  <1>2. /\ verdict = "pair" /\ site' = site + 1 /\ site <= Len(sites)
        /\ Cardinality(Found(sites[site])) = 1
        /\ UNCHANGED <<answers, entries, at>>
    BY DEF Pair, inputs
  <1>3. /\ at \in DOMAIN entries /\ entries[at].fixture \in Paths
        /\ entries \in Seq(EntryType)
    BY <1>2, EntriesShape DEF Exact, Inductive, Passed, GateType
  <1>4. sites \in Seq(Sites)
    BY <1>3, EntriesShape DEF Exact, Inductive
  <1>5. /\ Len(sites) \in Nat /\ site \in 1 .. Len(sites) + 1
        /\ PairsOnly(lines, sites, site - 1, pending)
    BY <1>2, <1>4 DEF Exact, Pairing
  <1>6. IsFiniteSet(Found(sites[site]))
    <2>1. pending \subseteq Errors(lines)
      BY <1>5 DEF PairsOnly
    <2>2. Found(sites[site]) \subseteq Errors(lines)
      BY <2>1 DEF Found
    <2> QED BY <1>3, <2>2, ErrorsFinite, FS_Subset DEF Exact, Inductive
  <1>7. PICK x : Found(sites[site]) = {x}
    BY <1>2, <1>6, FS_Singleton
  <1>8. {i \in pending : Matches(lines[i], sites[site])} = {m}
    BY <1>1, <1>7 DEF Found
  <1>9. site - 1 \in Nat /\ (site - 1) + 1 = site /\ site' - 1 = site
    BY <1>2, <1>5
  <1> HIDE DEF lines, sites
  <1>10. PairsOnly(lines, sites, (site - 1) + 1, pending \ {m})
    BY <1>5, <1>8, <1>9, OneMore
  <1>11. PairsOnly(lines, sites, site' - 1, pending')
    BY <1>1, <1>9, <1>10
  <1>12. site' \in 1 .. Len(sites) + 1
    BY <1>2, <1>5
  <1>13. lines' = lines /\ sites' = sites
    BY <1>2 DEF lines, sites
  <1> QED BY <1>2, <1>11, <1>12 DEF Pairing, lines, sites

\* A fixture whose sites are all paired is verified exactly.
LEMMA VerifyKeeps == Exact /\ Verify => VerifiedExactly'
  <1> SUFFICES ASSUME Exact, Verify PROVE VerifiedExactly'
    OBVIOUS
  <1> DEFINE fixture == entries[at].fixture
             sites == entries[at].sites
  <1>1. /\ verdict = "pair" /\ site > Len(sites) /\ verified' = verified \cup {fixture}
        /\ UNCHANGED <<inventory, answers>>
    BY DEF Verify, inputs
  <1>2. /\ at \in DOMAIN entries /\ fixture \in Paths
        /\ entries \in Seq(EntryType) /\ FixtureFailure(entries[at]) = "none"
    BY <1>1, EntriesShape DEF Exact, Inductive, Passed, GateType
  <1>3. sites \in Seq(Sites)
    BY <1>2, EntriesShape DEF Exact, Inductive
  <1>4. /\ Len(sites) \in Nat /\ DOMAIN sites = 1 .. Len(sites)
        /\ PairsOnly(answers[fixture].lines, sites, Len(sites), pending)
    <2>1. /\ site \in 1 .. Len(sites) + 1
          /\ PairsOnly(answers[fixture].lines, sites, site - 1, pending)
      BY <1>1 DEF Exact, Pairing
    <2>2. Len(sites) \in Nat /\ DOMAIN sites = 1 .. Len(sites)
      BY <1>3
    <2>3. site - 1 = Len(sites)
      BY <1>1, <2>1, <2>2
    <2> QED BY <2>1, <2>2, <2>3
  <1>5. Cardinality(ErrorsOf(fixture)) = Len(sites)
    <2>1. answers[fixture].imitates \in BOOLEAN
      BY <1>2, AnswersAssumption DEF Exact, Inductive, GateType
    <2> QED BY <1>2, <2>1 DEF FixtureFailure, ErrorsOf
  <1>6. PICK rows \in Bijection(DOMAIN sites, RowsOf(fixture)) :
          \A k \in DOMAIN sites : sites[k] = Site(inventory[rows[k]])
    <2>1. row = Len(inventory) + 1 /\ Lists(entries[at], row - 1)
      BY <1>1, <1>2 DEF Exact, Listing
    <2>2. inventory \in Seq(Range(inventory))
      BY InventoriesAssumption DEF Exact, Inductive, GateType
    <2>3. RowsOf(fixture) \cap (1 .. row - 1) = RowsOf(fixture)
      BY <2>1, <2>2 DEF RowsOf
    <2> QED BY <2>1, <2>3 DEF Lists
  <1> HIDE DEF fixture, sites
  <1>7. /\ Cardinality(RowsOf(fixture)) = Cardinality(ErrorsOf(fixture))
        /\ Cardinality(Pairings(fixture)) = 1
    BY <1>4, <1>5, <1>6, AllPaired
  <1>8. \A some \in verified' :
          /\ Cardinality(RowsOf(some)) = Cardinality(ErrorsOf(some))
          /\ Cardinality(Pairings(some)) = 1
    BY <1>1, <1>7 DEF Exact, VerifiedExactly
  <1>9. UNCHANGED inputs
    BY DEF Verify
  <1> QED BY <1>8, <1>9, AnswersStay DEF VerifiedExactly

LEMMA ExactInductive == Exact /\ [Next]_vars => Exact'
  <1> SUFFICES ASSUME Exact, [Next]_vars PROVE Exact'
    OBVIOUS
  <1>1. Inductive'
    <2>1. CASE Next
      BY <2>1, ReadRowKeeps, LaterKeeps DEF Exact
    <2>2. CASE UNCHANGED vars
      BY <2>2, UnchangedKeeps DEF Exact
    <2> QED BY <2>1, <2>2
  <1>2. ASSUME UNCHANGED <<inputs, verified>> PROVE VerifiedExactly'
    BY <1>2, AnswersStay DEF Exact, VerifiedExactly
  <1>3. CASE ReadRow
    <2>1. Pairing'
      BY <1>3 DEF ReadRow, Pairing
    <2>2. Listing'
      BY <1>3, ReadRowLists DEF Exact
    <2>3. VerifiedExactly'
      BY <1>2, <1>3 DEF ReadRow
    <2> QED BY <1>1, <2>1, <2>2, <2>3 DEF Exact
  <1>4. CASE RefuseRow \/ RefuseFixture \/ TimeOut \/ RefusePair \/ Accept
    <2>1. /\ UNCHANGED <<inputs, row, entries, verified>>
          /\ verdict' \notin {"compile", "pair"}
      <3>1. CASE RefuseRow
        <4>1. row \in DOMAIN inventory
          <5>1. inventory \in Seq(Range(inventory)) /\ row \in 1 .. Len(inventory) + 1
            BY InventoriesAssumption DEF Exact, Inductive, GateType
          <5> QED BY <3>1, <5>1 DEF RefuseRow
        <4>2. RowFailure(inventory[row]) \notin {"compile", "pair"}
          BY <4>1, InventoriesAssumption, RowFailures DEF Exact, Inductive, GateType
        <4> QED BY <3>1, <4>2 DEF RefuseRow
      <3>2. CASE RefuseFixture
        <4>1. at \in DOMAIN entries /\ entries[at].fixture \in Paths
          BY <3>2, EntriesShape DEF Exact, Inductive, GateType, RefuseFixture
        <4>2. FixtureFailure(entries[at]) \notin {"compile", "pair"}
          BY <4>1, FixtureFailures DEF Exact, Inductive
        <4> QED BY <3>2, <4>2 DEF RefuseFixture
      <3>3. CASE RefusePair
        BY <3>3 DEF RefusePair
      <3>4. CASE Accept
        BY <3>4 DEF Accept
      <3>5. CASE TimeOut
        BY <3>5 DEF TimeOut
      <3> QED BY <1>4, <3>1, <3>2, <3>3, <3>4, <3>5
    <2>2. Listing'
      BY <2>1, ListingStays DEF Exact
    <2> QED BY <1>1, <1>2, <2>1, <2>2 DEF Exact, Pairing
  <1>5. CASE EndInventory
    <2>1. UNCHANGED <<inputs, row, entries, verified>> /\ verdict' # "pair"
      BY <1>5 DEF EndInventory
    <2>2. row = Len(inventory) + 1
      <3>1. inventory \in Seq(Range(inventory)) /\ row \in 1 .. Len(inventory) + 1
        BY InventoriesAssumption DEF Exact, Inductive, GateType
      <3>2. Len(inventory) \in Nat
        BY <3>1
      <3>3. row > Len(inventory)
        BY <1>5 DEF EndInventory
      <3> QED BY <3>1, <3>2, <3>3
    <2>3. Listing'
      BY <2>1, <2>2, ListingStays DEF Exact
    <2> QED BY <1>1, <1>2, <2>1, <2>3 DEF Exact, Pairing
  <1>6. CASE Compile
    <2>1. /\ UNCHANGED <<inputs, row, entries, at, verified>> /\ verdict = "compile"
          /\ pending' = Errors(answers[entries[at].fixture].lines) /\ site' = 1
          /\ at \in DOMAIN entries
      BY <1>6, EntriesShape DEF Compile, Exact, Inductive, GateType
    <2>2. Listing'
      BY <2>1, ListingStays DEF Exact, Listing
    <2>3. Pairing'
      <3>1. site' \in 1 .. Len(entries[at].sites) + 1
        <4>1. entries[at].sites \in Seq(Sites)
          BY <2>1, EntriesShape DEF Exact, Inductive
        <4>2. Len(entries[at].sites) \in Nat
          BY <4>1
        <4> QED BY <2>1, <4>2
      <3>2. PairsOnly(answers[entries[at].fixture].lines, entries[at].sites, site' - 1, pending')
        BY <2>1, NothingPaired
      <3> QED BY <2>1, <3>1, <3>2 DEF Pairing, inputs
    <2> QED BY <1>1, <1>2, <2>1, <2>2, <2>3 DEF Exact
  <1>7. CASE Pair
    <2>1. UNCHANGED <<inputs, row, entries, verified>> /\ verdict' = verdict
      BY <1>7 DEF Pair
    <2>2. Listing'
      BY <2>1, ListingStays DEF Exact, Listing
    <2> QED BY <1>1, <1>2, <1>7, <2>1, <2>2, PairKeeps DEF Exact
  <1>8. CASE Verify
    <2>1. UNCHANGED <<inputs, row, entries>> /\ verdict = "pair" /\ verdict' = "compile"
      BY <1>8 DEF Verify
    <2>2. Listing'
      BY <2>1, ListingStays DEF Exact, Listing
    <2> QED BY <1>1, <1>8, <2>1, <2>2, VerifyKeeps DEF Exact, Pairing
  <1>9. CASE UNCHANGED vars
    <2>1. UNCHANGED <<inputs, row, entries, at, pending, site, verified, verdict>>
      BY <1>9 DEF vars, inputs
    <2>2. Listing'
      BY <2>1, ListingStays DEF Exact, Listing
    <2>3. Pairing'
      BY <2>1 DEF Exact, Pairing, inputs
    <2> QED BY <1>1, <1>2, <2>1, <2>2, <2>3 DEF Exact
  <1> QED BY <1>3, <1>4, <1>5, <1>6, <1>7, <1>8, <1>9 DEF Next

\* What the gate reports as failing as expected fails exactly so, for every inventory,
\* compiler and order of rows and diagnostics: rows and errors of the fixture pair off
\* completely, and in one way.
THEOREM VerifiedAlwaysExact == Spec => []VerifiedExactly
  <1>1. Init => Exact
    <2> SUFFICES ASSUME Init PROVE Exact
      OBVIOUS
    <2>1. Inductive
      BY InitHolds
    <2>2. 1 .. row - 1 = {} /\ DOMAIN entries = {} /\ verdict = "inventory" /\ verified = {}
      BY DEF Init
    <2> QED BY <2>1, <2>2 DEF Exact, Listing, Pairing, VerifiedExactly
  <1>2. Exact => VerifiedExactly
    BY DEF Exact
  <1> QED BY <1>1, <1>2, ExactInductive, PTL DEF Spec
=============================================================================
