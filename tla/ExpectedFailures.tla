-------------------------- MODULE ExpectedFailures --------------------------
(***************************************************************************)
(* The expected-failure gate (scripts/expected_failure_diagnostics.py):    *)
(* read an inventory of error sites, check it against the fixtures on      *)
(* disk, compile every fixture, and pair its diagnostics with its sites    *)
(* one by one.  The compiler is external: what it answers is an input.     *)
(* The read-only inventory mode is left out.                               *)
(***************************************************************************)
EXTENDS Naturals, FiniteSets, SequencesExt

CONSTANTS
  Paths,        \* well-formed fixture paths
  Categories,
  Inventories,  \* sequences of rows: a note, a malformed row, or an entry
                \* with fixture, category, pos and needle
  Disks,        \* the sets of fixtures that may be on disk
  Answers       \* what the compiler may answer, by fixture: imitates, status,
                \* lines; a status of Silent is no answer, ever
CONSTANT Silent

ASSUME FixturesAssumption == \A some \in Disks : some \subseteq Paths

ASSUME InventoriesAssumption ==
  \A rows \in Inventories :
    /\ rows \in Seq(Range(rows))
    /\ \A i \in DOMAIN rows : rows[i].kind \in {"note", "malformed", "entry"}

ASSUME AnswersAssumption ==
  \A answer \in Answers : \A fixture \in Paths :
    /\ answer[fixture].imitates \in BOOLEAN
    /\ answer[fixture].lines \in Seq(Range(answer[fixture].lines))

VARIABLES
  inventory, disk, answers,  \* the inputs
  row,       \* the next row of the inventory
  entries,   \* [fixture, category, sites], in the order of their first rows
  at,        \* the fixture in turn
  pending,   \* its errors not paired yet: which lines of the answer they are
  site,      \* its next site
  verified,  \* the fixtures reported as failing as expected
  verdict    \* "inventory", "compile", "pair", or how the gate ended

vars == <<inventory, disk, answers, row, entries, at, pending, site, verified, verdict>>
inputs == <<inventory, disk, answers>>

Init ==
  /\ inventory \in Inventories /\ disk \in Disks /\ answers \in Answers
  /\ row = 1 /\ entries = << >> /\ at = 1 /\ pending = {} /\ site = 1
  /\ verified = {} /\ verdict = "inventory"
-----------------------------------------------------------------------------
Site(entry) == [pos |-> entry.pos, needle |-> entry.needle]

EntryOf(fixture) == SelectInSeq(entries, LAMBDA e : e.fixture = fixture)

\* The first reason to refuse a row, in the order the code looks for one.
RowFailure(r) ==
  CASE r.kind = "malformed" -> "invalid row"
    [] r.kind = "entry" ->
         IF r.fixture \notin Paths THEN "invalid path"
         ELSE IF r.category \notin Categories THEN "unknown category"
         ELSE IF r.fixture \notin disk THEN "orphan entry"
         ELSE IF EntryOf(r.fixture) # 0
                 /\ \/ entries[EntryOf(r.fixture)].category # r.category
                    \/ Contains(entries[EntryOf(r.fixture)].sites, Site(r))
              THEN "duplicate" ELSE "none"
    [] r.kind = "note" -> "none"

\* Fault: every row opens an entry of its own.
RecordedApart(r) ==
  Append(entries, [fixture |-> r.fixture, category |-> r.category, sites |-> <<Site(r)>>])

Recorded(r) ==
  IF EntryOf(r.fixture) = 0
    THEN Append(entries, [fixture |-> r.fixture, category |-> r.category,
                          sites |-> <<Site(r)>>])
    ELSE [entries EXCEPT ![EntryOf(r.fixture)].sites = Append(@, Site(r))]

ReadRow ==
  /\ verdict = "inventory" /\ row <= Len(inventory)
  /\ LET r == inventory[row] IN
       /\ RowFailure(r) = "none"
       /\ entries' = IF r.kind = "note" THEN entries ELSE Recorded(r)
  /\ row' = row + 1
  /\ UNCHANGED <<inputs, at, pending, site, verified, verdict>>

RefuseRow ==
  /\ verdict = "inventory" /\ row <= Len(inventory)
  /\ RowFailure(inventory[row]) # "none"
  /\ verdict' = RowFailure(inventory[row])
  /\ UNCHANGED <<inputs, row, entries, at, pending, site, verified>>

Listed == {entries[i].fixture : i \in DOMAIN entries}

EndInventory ==
  /\ verdict = "inventory" /\ row > Len(inventory)
  /\ verdict' = IF entries = << >> THEN "empty inventory"
                ELSE IF disk # Listed THEN "uninventoried fixture" ELSE "compile"
  /\ UNCHANGED <<inputs, row, entries, at, pending, site, verified>>
-----------------------------------------------------------------------------
\* Which lines are errors.
Errors(lines) == {i \in DOMAIN lines : lines[i].kind = "error"}

Known == {"blank", "information", "error"}

\* Fault: warnings are passed over.
LenientFailure(entry) ==
  LET answer == answers[entry.fixture]
      found == Errors(answer.lines)
  IN  CASE answer.imitates -> "imitation"
        [] ~ answer.imitates /\ answer.status = 0 -> "compiled"
        [] ~ answer.imitates /\ answer.status # 0 ->
             IF answer.status # 1 THEN "interrupted"
             ELSE IF \E i \in found : entry.category \notin answer.lines[i].classes
                    THEN "error class"
             ELSE IF Cardinality(found) # Len(entry.sites) THEN "error count" ELSE "none"

\* The first reason to refuse a fixture before its sites are looked at: its source
\* prints, the compiler compiled it, died, printed something else, or the errors are of
\* another class or in another number.
FixtureFailure(entry) ==
  LET answer == answers[entry.fixture]
      found == Errors(answer.lines)
  IN  CASE answer.imitates -> "imitation"
        [] ~ answer.imitates /\ answer.status = 0 -> "compiled"
        [] ~ answer.imitates /\ answer.status # 0 ->
             IF answer.status # 1 THEN "interrupted"
             ELSE IF \E i \in DOMAIN answer.lines : answer.lines[i].kind \notin Known
                    THEN "output"
             ELSE IF \E i \in found : entry.category \notin answer.lines[i].classes
                    THEN "error class"
             ELSE IF Cardinality(found) # Len(entry.sites) THEN "error count" ELSE "none"

Compile ==
  /\ verdict = "compile" /\ at <= Len(entries)
  /\ FixtureFailure(entries[at]) = "none"
  /\ pending' = Errors(answers[entries[at].fixture].lines)
  /\ site' = 1
  /\ verdict' = "pair"
  /\ UNCHANGED <<inputs, row, entries, at, verified>>

\* The compiler is asked about a fixture whose source was let through.
Asked(entry) == ~ answers[entry.fixture].imitates

RefuseFixture ==
  /\ verdict = "compile" /\ at <= Len(entries)
  /\ Asked(entries[at]) => answers[entries[at].fixture].status # Silent
  /\ FixtureFailure(entries[at]) # "none"
  /\ verdict' = FixtureFailure(entries[at])
  /\ UNCHANGED <<inputs, row, entries, at, pending, site, verified>>

\* Fault: the compiler is given no limit.
KeepWaiting ==
  /\ verdict = "compile" /\ at <= Len(entries)
  /\ Asked(entries[at])
  /\ UNCHANGED vars

\* The limit of 90 seconds passes, whether or not an answer was on its way.
TimeOut ==
  /\ verdict = "compile" /\ at <= Len(entries)
  /\ Asked(entries[at])
  /\ verdict' = "timed out"
  /\ UNCHANGED <<inputs, row, entries, at, pending, site, verified>>

\* A diagnostic of this fixture, at the place and with the text recorded.
Matches(record, s) == record.here /\ record.pos = s.pos /\ s.needle \in record.needles

Found(s) == {i \in pending : Matches(answers[entries[at].fixture].lines[i], s)}

\* Fault: a paired diagnostic may be paired again.
PairKeeping ==
  /\ verdict = "pair" /\ site <= Len(entries[at].sites)
  /\ Cardinality(Found(entries[at].sites[site])) = 1
  /\ pending' = pending
  /\ site' = site + 1
  /\ UNCHANGED <<inputs, row, entries, at, verified, verdict>>

Pair ==
  /\ verdict = "pair" /\ site <= Len(entries[at].sites)
  /\ Cardinality(Found(entries[at].sites[site])) = 1
  /\ \E i \in Found(entries[at].sites[site]) : pending' = pending \ {i}
  /\ site' = site + 1
  /\ UNCHANGED <<inputs, row, entries, at, verified, verdict>>

RefusePair ==
  /\ verdict = "pair" /\ site <= Len(entries[at].sites)
  /\ Cardinality(Found(entries[at].sites[site])) # 1
  /\ verdict' = "site mismatch"
  /\ UNCHANGED <<inputs, row, entries, at, pending, site, verified>>

Verify ==
  /\ verdict = "pair" /\ site > Len(entries[at].sites)
  /\ verified' = verified \cup {entries[at].fixture}
  /\ at' = at + 1
  /\ verdict' = "compile"
  /\ UNCHANGED <<inputs, row, entries, pending, site>>

Accept ==
  /\ verdict = "compile" /\ at > Len(entries)
  /\ verdict' = "ok"
  /\ UNCHANGED <<inputs, row, entries, at, pending, site, verified>>

Next ==
  \/ ReadRow \/ RefuseRow \/ EndInventory
  \/ Compile \/ RefuseFixture \/ TimeOut \/ Pair \/ RefusePair \/ Verify \/ Accept

\* One sequential program, which takes its next step whenever it has one.  The
\* compiler owes nothing: that it is not waited for without end is TimeOut's doing.
Spec == Init /\ [][Next]_vars /\ WF_vars(Next)
-----------------------------------------------------------------------------
TypeOK ==
  /\ row \in 1 .. Len(inventory) + 1
  /\ at \in 1 .. Len(entries) + 1
  /\ verified \subseteq Listed
  /\ \A i, j \in DOMAIN entries : i # j => entries[i].fixture # entries[j].fixture

RowsOf(fixture) ==
  {i \in DOMAIN inventory : inventory[i].kind = "entry" /\ inventory[i].fixture = fixture}

ErrorsOf(fixture) == Errors(answers[fixture].lines)

\* Every way to give each row of a fixture a diagnostic of its own.
Pairings(fixture) ==
  {p \in [RowsOf(fixture) -> ErrorsOf(fixture)] :
     /\ \A i, j \in RowsOf(fixture) : i # j => p[i] # p[j]
     /\ \A i \in RowsOf(fixture) :
          Matches(answers[fixture].lines[p[i]], Site(inventory[i]))}

\* A fixture reported as verified is one whose errors and inventory rows correspond
\* one to one, and in one way only: no diagnostic answers for two rows and none is
\* left over, whatever order rows and diagnostics come in.
VerifiedExactly ==
  \A fixture \in verified :
    /\ Cardinality(RowsOf(fixture)) = Cardinality(ErrorsOf(fixture))
    /\ Cardinality(Pairings(fixture)) = 1

\* A passing gate compiled every fixture on disk, listed or added later, each was
\* refused by the compiler alone, and it printed no warning beside its errors.
AcceptComplete ==
  verdict = "ok" =>
    /\ verified = disk
    /\ \A fixture \in disk :
         /\ answers[fixture].status = 1 /\ ~ answers[fixture].imitates
         /\ \A i \in DOMAIN answers[fixture].lines : answers[fixture].lines[i].kind \in Known

\* Every inventory is decided, whatever the compiler fails to answer.
Terminates == <>(verdict \notin {"inventory", "compile", "pair"})
=============================================================================
