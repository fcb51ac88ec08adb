# Relational perimeter: TLA+ models, model checks and proofs

The repository is a Lean 4 development with, beside its mathematics, two kinds of
programs: executable machines written in Lean (`RelationalPerimeter/Computation`), and the
scripts that decide whether a commit may be trusted (`scripts/`): import boundaries,
expected failures, and analyses of the C that Lean emits. Lean proves many facts about the
machines one request at a time. The models here say what happens over *sequences* of
requests, in any order, from any memory that can be received; and they say of the scripts,
about which nothing is proved anywhere, what a passing verdict means.

## 1. Inventory

### 1.1 Machines

| part | state | operations | talks to |
|---|---|---|---|
| Connected fabric (`Machine/Fabric.lean`, `CanonicalMemory.lean`) | none: gates, signals, the bank of two inlets | fire, sense, configure, drive, normalise | used by every machine |
| SAT contexts (`ConstitutiveSearch/SAT`) | none: contexts with formula and decisions | child, restriction, flip, the flip relation | the engine, the frontier search |
| Live discovery engine (`ConstitutiveFeedback.lean`, `LiveResourceContinuation.lean`, ...) | depth, target, seed, assignment, decisions, provenance | one production: open, search, flip, read the decision, feed back | called by each advance |
| Reconfigurable (rich) machine (`ReconfigurableMachine.lean`) | live state, gates, bank | advance, sample, pulse | the engine below, a client above |
| Reduced live machine (`ReducedLiveExecution.lean`) | the same with the assignment projected on a scope | advance, sample, pulse | stands in for the rich machine |
| Frontier search and circuits (`AcceptedFrontierNormalization.lean`, `FrontierCircuit.lean`, `VariableMasterExecution.lean`) | none: a frontier in, a reduced frontier and a circuit out | open, normalise, lower, fire | called by the master's advance |
| Master runtime and contract (`MasterRuntime.lean`, `MasterContract.lean`) | the reduced memory, the retained frontier, the installed circuit, the last routed packet | advance, sample, pulse, route, sample the problem | composes the reduced machine and the problem |

A machine is sequential: it answers one request before it takes the next. What is hard is
the *order*: an advance replaces wiring, circuit and frontier at once, and anything kept
from before (a packet, a reading, a wiring) may silently name something that is gone. It is
also hard that two paths compute the same thing (seed and target, admission and answer, rich
and reduced memory) and must never part, however long the history.

Correctness of each part: readings keep the width of the scope; wiring is that of the stage
just executed; the bank is in normal form; a routed packet names a live context; no stage
loses or invents a solution; admission equals answer; the reduced machine answers as the
rich one.

### 1.2 Gates

| part | state | operations | talks to |
|---|---|---|---|
| Import boundary (`check-import-boundaries.py`) | manifest position, root, forbidden set, queue, paths | read a row, read headers, visit, meet, refuse, accept | the header reader, the tree |
| Header reader (`lean_imports.py`) | position in the text, nesting of comments | lex, parse the header | text of a Lean file; read by the import boundary and the stratification |
| Documentation gate (`check-scientific-docs.py`) | none between two runs: a registry and reports kept in the repository | check anchors, fingerprints, reviews, relocations, links, the target; refresh | working tree and commits |
| Expected failures (`expected_failure_diagnostics.py`) | inventory position, entries, remaining diagnostics, site | read a row, compare with the disk, compile a fixture, pair | the compiler, the disk |
| Integrated machine analysis (`integrated_machine_analysis.py`, `integrated_machine_checks.py`) | symbolic heap, path, facts, borrow frames, calls | walk, evaluate, call, write check, operation contracts, runner check | emitted C |
| Unified analysis (`unified_codegen_analysis.py`, `check-unified-codegen.py`) | symbolic heap, stack, memo of summaries, loop states | run, walk, join, widen; count of static routes | emitted C |
| Its other askers (`check-agent-codegen.py`, `check-variable-master-codegen.py`) | none of their own: a target, a producer to cut, helpers to unfold, calls that end a chain | subclass the unified analysis and override what a call means; remember calls by the structure of their arguments | emitted C |
| Stratification (`check-stratification.sh`) | listing position, strata, modules still to walk from, queue, modules met | read a row, compare with the files, walk from each module, reach from the public roots | the header reader, the tree |
| Pipeline (`verify.sh`) | text | see section 8 | not modelled |

The documentation gate is the one whose input has a *life*: evidence is recorded at one
commit and judged at another, after documents were edited or moved, sources changed and
reviews written. What is accepted must not rest on a passage, a source or a review of some
other commit.

What is hard in all of them: a checker that is wrong passes silently. Its worklists, memos, joins,
aliasing symbolic objects and early exits are where it can be wrong, and a self-test only
tries the shapes its author thought of.

### 1.3 Mathematics

Constitution layer, arithmetic instance, agents, root theory files: definitions and theorems
checked by Lean, with nothing executed and no state. Listed in `PROJECT.json`, not modelled.

## 2. Modules

```
Fabric   SatContexts   LiveContinuation   Contract
   \________|______________|_________________/
            |                       |
   ReconfigurableMachine ==> ReducedMachine, SourceMachine      (==> implements)
            |
   FrontierSearch    ProblemRouting
            \            |
             MasterMachine  (composes ReducedMachine and ProblemRouting)
                  ^
             RichMaster ==> MasterMachine

   LeanHeader -> SourceGates (composes the reader with) ImportBoundary, Stratification
   MarkdownText -> ScientificDocs        ExpectedFailures        ReferenceGraph

   EmittedCode -> SymbolicStore -> FlowAnalysis -> FlowProvenance -> RunnerCheck -> MachineContracts
        |                    \-> UnifiedAnalysis -> UnifiedCheck
        \-> EmittedRunners, EmittedOperations     (the bodies that are checked)
```

| module | models | its state and actions in the code |
|---|---|---|
| `Fabric` | gates, banks, routes | pure operators, one per definition of `Fabric.lean` |
| `SatContexts` | contexts and their flips | pure operators |
| `LiveContinuation` | the engine's production | `Discover`, `ReadDecision`, `ProduceNext`: one stage |
| `Contract` | requests and events | the constructors of the requests and events |
| `ReconfigurableMachine` | rich machine | `Advance`, `Sample`, `PulseDriven`, `PulseRefused`: the cases of `perform` with their admission |
| `ReducedMachine` | projected machine | same actions; search is a parameter |
| `SourceMachine` | contract: interpret the selected address anew at each pulse | abstract specification |
| `FrontierSearch` | opening, accepted normalisation, lowering to a circuit | recursive functions on the endings of a frontier; a circuit is the flat list of the instructions of the code's tree (section 8) |
| `ProblemRouting` | problem memory and routing requests | `InstallProblem`, `PacketRouted`, `RouteRefused`, `SampleProblem` |
| `MasterMachine` | concrete master | `Advance` = production + installation in the core + opening of the problem; search, reduction and circuits are parameters, `MCMaster` gives the concrete ones and checks what the theorems suppose of them (`MCSearchAssumption`) |
| `RichMaster` | the master over the rich core | same requests, refined to `MasterMachine` |
| `ImportBoundary` | `check_graph` | one action per row, per visited module and per import met |
| `LeanHeader` | `lean_imports.py` | `Lexed`: what the lexer stands in (`Step`) and shows, symbol by symbol; `HeaderFrom`: the loop over the imports, one `Turn` each; a generator of texts (`Text`) with what each of them means (`Meant`) and which are well written (`Written`) |
| `Stratification` | `check-stratification.sh` | one action per row, per start, per module taken from the queue and per import of it; the next start is any, as the shell enumerates its table in no order of its own |
| `SourceGates` | both gates started from files | `SourceSpec`: either gate, by itself, on the headers the reader returns |
| `MarkdownText` | headings, listings and paragraphs of a document | `Passage`: the passage an anchor names; a generator of lines from the structure meant |
| `ScientificDocs` | the documentation gate and the repository it reads | `EditDocument`, `EditSource`, `Commit`, `RecordEvidence`, `RecordReview`, `Relocate`; the gate is `Accepted`, evaluated in every state |
| `ExpectedFailures` | `main`, `errors`, `matches` | one action per row, fixture and site; `TimeOut`, the limit on the compiler |
| `ReferenceGraph` | `producer_routes`, `reachable` | recursion as frames: `Enter`, `Advance`, `Answer`, `Leave`, `Refuse` |
| `EmittedCode` | *external*: emitted C and the runtime operations the analyses recognise | a concrete interpreter over a heap of cells; the module's static objects are cells that are there before the run, neither exclusive nor writable (`Load`) |
| `SymbolicStore` | what the analyses share: object stores, references between functions | |
| `FlowAnalysis` | class `Flow` | `Evaluate`, `Call`, `Walk`: every path of a body on its own copy of the heap |
| `FlowProvenance` | an analysis and a run of the same body | `Analyse`, then `Start`; the analysis (`Inspect`) and the semantics (`Outcome`) are parameters |
| `RunnerCheck` | `MachineChecks.runner` | what the check demands of each path, for the live machine and for the master, whose admission reads a field of the memory |
| `MachineContracts` | `MachineChecks.check` | `Forms`: for each operation, the calls every path must show, their arguments, and where the value comes from |
| `EmittedRunners`, `EmittedOperations` | *external*: emitted bodies of runners and operations | every honest form, and each with one thing wrong |
| `UnifiedAnalysis` | class `Analysis` and the subclasses of its askers | `Call`, `Settle`, `Walk`, `Join`, `Widened`; a question (`Retention`, `Count`, `Agent`, `RecursiveTail`, `LocalChain`) says what a call means; `Recall` is the memo by structure, `GlobalValue` what a static name stands for |
| `UnifiedCheck` | an analysis and a run of the same body, for one of the questions | `Analyse`, then `Start`; same parameters |
| `DataLemmas` | | facts about sequences, least elements and recursive functions that the proofs share |
| `FabricProofs` | | theorems on `Fabric`, `SatContexts` and `FrontierSearch` |
| `ImportGatesProofs` | | theorems on the gates that walk a graph, `ImportBoundary`, `Stratification` and `ReferenceGraph`, and on the reader that gives two of them their graph, `LeanHeader` and `SourceGates` |
| `*Proofs` | | theorems on the module they name |
| `MC*` | small instances | |

`map` in `PROJECT.json` gives the lines of every definition. Operators that end in a bug's
name (`InstallStale`, `GetUnwritten`, `JoinFirst`, ...) are faults: plausible bugs put in the
place of a definition to see that a property notices.

## 3. Runs

| run | what is checked |
|---|---|
| `reconfigurable` | rich machine, every interleaving of advances, samples and pulses to depth 4; implements the reduced machine (`ReducedSpec`) and the contract (`SourceSpec`); coherence, normal bank and current wiring (`Inductive`), convergence, seed and target agree, fresh selection, the whole history still satisfied |
| `master` | master over seven received frontiers and the concrete search; a routed packet is current and lands on a live context; the circuit carries *every* continuation (`RouteExact`) of every opened context to where the reduction transported it; satisfiability preserved; decisions never repeated; reduction leaves nothing to relate; admission equals answer |
| `rich_master` | the rich master implements the master through the projection |
| `import_boundary` | from the texts of the files: every header is read as it was written, or refused where it must be; acceptance closed under import with an exact count (`AcceptExact`), refusals with a shortest path, termination; an accepted stratification lets no chain of imports climb, return to a ranked stratum, end in a test or leave a file unreached (`AcceptStratified`) |
| `expected_failures` | a fixture is verified exactly when its sites and the diagnostics can be paired in row order; a passing gate has looked at every fixture; termination |
| `flow` | every run of an accepted body is told by one symbolic path (calls, order, arguments, value); helpers that write what they are given are refused; a runner that passes its check keeps its frame, an operation that passes its contract does what the contract says *when it runs*; every honest form passes |
| `scientific_docs` | whatever was edited, changed, moved, committed, refreshed or reviewed before: an accepted claim stands on the sources and passages of its commit (`EvidenceFresh`) and on reviews of that same state (`ReviewCurrent`); a refresh records what it should and no more (`RefreshExact`); moving a document loses no evidence (`MoveKeepsEvidence`) |
| `unified` | for each question: the number of applications a run performs of what the question counts (a producer, a producer under a cut, with helpers unfolded, in the tail of a recursion, along a chain of local calls) lies within the reported bounds; an archive cell inside the value returned is reported, in the field where it is |
| `reference_graph` | the route count passes exactly when routes are finite and as many as expected; memo sound; termination |
| `flow_nested`, `unified_pick`, `unified_swap` | **violations**, section 6 |

Bounds, and why they are enough:

* `MaxDepth` 4 (3 for the masters): every stage is built the same way from the one before;
  the first received stage, a stage after a flip and a stage whose provenance has more than
  one variable all occur by depth 3. Scope `<<14, 12>>`: one variable the engine selects
  first, one it selects next, so that wiring changes at each stage. Pulses one bit short and
  one bit long. Public input 0: other inputs shift every variable.
* `MaxSlot` 3 (2): the widest opening has four contexts; one slot beyond the retained
  frontier and one beyond the opening both occur.
* Frontiers: empty; one child already grouped; one kept apart; two; a symmetric problem
  whose children flip into each other; one with the variable decided before; a
  contradiction.
* Import gate: five names of which four are local, the root importing two at most and the
  others one: cycles, diamonds, self imports, an unreadable header, manifests that are empty,
  doubled, without root and malformed. The root file is written in every way the reader
  knows: nested and unclosed comments, an import inside a comment or a string, escaped
  quotes, `module`, `prelude`, `public`, `meta`, `all`, and forms it refuses.
* Stratification: three production modules, one test and one library; the root importing two
  at most and the others one, with cycles; listings over letters, agents and machines, among
  them equal ranks, a rank that climbs, and the letters whose relation is not transitive;
  listings that lack a module, name one without a file, repeat one, are malformed, not
  enforced or of no known stratum. Every way the gate can end occurs.
* Documentation gate: one or two claims, a registry of version 1 and one of version 3; a
  document in two languages, the standing target document, a home to move to and one that
  does not exist; documents with a listing that contains a heading, or with the same heading
  twice; two modules that may import each other, one that may import a module found nowhere, one
  whose header may become unreadable, and a toolchain module. `MaxRevisions` 3 and
  `MaxChanges` 4: recording, editing, moving and recording again takes four changes.
* Expected failures: two fixtures; every pair of 16 diagnostics for the first, so that both
  orders of an ambiguous pairing occur; every status, a compiler that never answers, one that
  is too slow, and a source that prints what imitates a diagnostic.
* Flow: bodies of up to four free statements (allocation, write, call, projection, closure)
  with a branch, a condition read twice or a loop, around twelve helpers (producer,
  projection, record, two-path adapter, direct, deep, wrapped and tag writers, opaque large
  ones, one defined twice). Inputs take each branch, owned and shared. Operations: one body
  per contract and each with one call, argument, projection or result wrong; their arguments
  are records of either tag. Runners: one request or none. Statics: one closure, one record, one
  alias and one constant computed at initialisation.
* Unified: three or four free statements around the helpers; runs may repeat a statement twice
  (`Repeats`), so that lists of one and two cells are walked. Chains: a body that calls
  itself on a field of its argument, or on what another helper made of it.
* Route count: two boundaries, counts of 1 and 2, one cached constant with its initialiser,
  bodies with up to three mentions.

`Repeats`, `MaxDepth`, `MaxSlot`, `MaxRevisions` and `MaxChanges` are the only bounds of the models; the code has none of
them, except the 32 loop summaries (`MaxLoops`) and the 4 rounds (`Rounds`) of the unified
analysis, which are the code's. In the bodies of the runs a widened state repeats long before the
32nd summary: what the runs exercise is the widening, not the refusal at that limit.

`CHECK_DEADLOCK FALSE` is set for the gates and the analyses only: they end.

## 4. Fairness and liveness

The gates and the route count are sequential programs started once: `WF_vars(Next)` says
the process is not killed, and takes its next step when it has one. The only thing they wait
for is the compiler, which owes no answer: it may be silent for ever. That the gate ends all the
same is the doing of `TimeOut`, an action of its own, enabled from the moment the compiler is asked
(time is not measured, so it may come before an answer); without the limit of 90 seconds
`Terminates` fails (`KeepWaiting`). `GatesTerminate` for the two gates on the tree and `CountEnds`
for the route count need no such help. A
repository is edited by people and owes no progress: `ScientificDocs` has no fairness. The
machines answer requests and promise nothing by themselves, so they have no fairness and no
liveness property; what they promise at each request is safety.

## 5. Proofs

All theorems are checked by TLAPS for every value of the constants.

### Fabric, contexts and the frontier search (`FabricProofs`)

* `ConfigureExact`, `ConfiguredActionExact`: firing the gates compiled for a selected variable
  is the action that interprets its address. `Fire` is an involution and routing reads back.
* `ProductionExact`: for any scope, variable and frontier, one production opens every parent
  that has not decided the variable, leaves no two contexts the search could still relate
  (`Irreducible`), repeats no decision, keeps a solution exactly when there was one
  (`Solvable`), and its circuit carries every continuation of the opening to a retained context
  it continues (`Routes`). The argument is compositional. `Routes` holds of the empty circuit,
  is closed under composition and under prepending a context, and holds of each of the three
  instructions: for an absorption this is the flip (`FlipCarries`): a continuation of one
  context, flipped, continues the context it is related to. `InsertRoutes` and
  `NormalizeRoutes` then go by induction over the ending of the frontier already treated, and
  the opening is followed member by member.

### Rich and reduced machine (`ReconfigurableProofs`)

* `MachineInvariant`: `Inductive == TypeOK /\ Coherent /\ BankNormal /\ WiringIsCurrent`.
  None is inductive alone: a pulse keeps the readings' width only because the wiring covers
  the scope, the wiring covers the scope because it is that of the current seed, and the
  contract needs the bank in normal form to recover a pulse's input. It is the invariant the
  run checks; from it `MachineCoherent`, `AdvanceConvergesAlways` and `ImplementsReduced`.
* `ImplementsSource`: the input a frame remembers is recovered from the bank by firing the
  wiring once more, which is why involution is needed.
* `DiscoverySound`: `LiveSound` says what the executed discoveries have left behind. Each
  decided one even variable, none above the seed; the odd variables, which hold the anchors of
  later formulas, and variable 0, which their decoys hold, are still true; the even ones ahead
  are still false. It is stronger than any of the checked properties, and none of them is
  inductive: that the search stops at the constituted variable rests on what earlier stages
  did *not* flip. Over it: `DiscoversSplit` (the search over a stage's formula, filtered by any
  provenance that avoids its split, returns the split), `ProductionSound` (a stage keeps
  `LiveSound`) and `StartSound` (so does the public master's own run, of any length). From it
  `SeedAlwaysFollows`, `SelectionAlwaysFresh` and `AssignmentAlwaysAccepted`.

### Master (`MasterProofs`, `RichMasterProofs`)

* `MasterCoherent`, `MasterAdmission`, `RoutedAlwaysCurrent` hold for *any* search and circuit;
  `RoutedAlwaysLive` for any circuits that land in the frontier retained (`SearchLands`).
* With the search the code has (`ComposedSearch`), `ProductionExact` discharges `SearchLands`,
  which gives `ComposedRoutedLive`. `FrontierInvariant` (typed contexts, no decision repeated,
  nothing left to relate under the last variable) is inductive over all requests; from it and
  `ProductionExact` at each advance: `RetainedAlwaysIrreducible`, `DecisionsAlwaysFresh`,
  `ViabilityAlwaysPreserved`, `RouteAlwaysExact`.
* `RichImplementsMaster` is the refinement the run `rich_master` checks, for any search. The
  only fact about reachable states it needs is `AssignmentTotal`, that the projected assignment
  covers the scope: `ProblemRouting` reads it at every variable it routes.
  `RichCoherentAlways` carries the invariant of the core machine over the problem requests.

### Gates

* `ImportGatesProofs`, boundary: `Inductive == TypeOK /\ WorklistCovers /\ PathsReal /\
  MetReachable /\ Stopped`, over any graph and any manifest. `WorklistCovers` is the heart: every
  module met is queued, being walked, or has had all its imports met. From it `GateSound` (a
  passing boundary is closed), `GateCountExact`, together `GateExact`, and `GateRefusalReal`.
  `GateRefusalShortest` needs more, `BreadthFirst`: the queue is in the order of the lengths of
  the paths, which differ by one at most, and whatever a module already walked imports was met
  on a path at most one longer. So no chain of imports reaches a forbidden name earlier than
  the one printed.
* `ImportGatesProofs`, stratification: `StrataInductive == StrataTypeOK /\ EndsCompared /\ ReachReal`.
  The gate compares the two ends of each import only; that chains never climb
  (`StrataGateSound`) follows from the ranks of the strata along a chain, one import after
  another, and that no file is left out from the second walk having closed what the public
  roots reach.
* `ImportGatesProofs`, routes: the reference counts chains of at most as many mentions as there
  are functions (`RoutesWithin`), the code counts by depth first with a memo and stops early; the
  argument lies between. `CountInductive` says of every number held, in the memo or half summed
  in a frame, that it counts the chains of *every* length from the number of remembered names
  up, or is already too large and no larger than the true count (`Measures`): a name is
  remembered after those it leads to, so no chain through remembered names is longer than they
  are many, and one more name makes one more step of room. Acyclicity cannot come from numbers:
  what was not cut short leads, on the way to the producer, only to what was not cut short
  either, and not back to itself (`MemoCloses`, `FrameCloses`); a frame's own name is not
  remembered while it is open, so when it closes nothing remembered can lead to it. The frames
  are a chain of mentions from the start (`Stacked`), so a name refused lies on a real loop. Once
  the total is too large nothing is said of loops, which is right, since the check fails on
  the number. From it `RoutesMemoSound` and `RoutesAcceptedExactly`, both ways.
* `ImportGatesProofs`, headers: `HeaderMeant` says that the reader answers what the author of any
  well-written file meant, whatever its length and number of imports; over it `HeadersRead` is one
  invariant of both gates, the graph being what was read before they start. A file is put together
  from pieces, and each piece is judged alone, so the theorem is about what happens where they meet.
  The lexer looks one symbol ahead, so a piece that is silent by itself might begin a mark with the
  first symbol of the next: it cannot, because a silent piece ends in no half mark
  (`LastSilent`); hence from a place where nothing is open the rest reads as it would alone
  (`SilentPlaced`, `Onward`). Tokens are named by places, so that the token after a place is the
  same in a text and in its end (`TokenShifts`), and so is the whole loop (`RefusedShifts`). Then
  `ImportsRead`, by induction over the imports: after `k` turns the loop is at the `k+1`-st import with
  `k` names, in their order. A name ends there only because what comes next is neither a mark of
  names nor against it (`NextToken`), which is where a gap that is not empty and a tail that does
  not begin with such a mark are needed.
* `ExpectedFailuresProofs`: `Inductive == GateType /\ Distinct /\ Passed`. What was
  verified is exactly the rows passed so far (`Passed`), and no two rows name one fixture
  (`Distinct`), so that in `GateComplete` the row that answers for a fixture is its only one.
  `VerifiedAlwaysExact` adds `Listing` (an entry lists the rows of its fixture, in their order)
  and `Pairing`: for the sites passed there is one way of giving each a diagnostic of its own,
  and what is left over is the rest. A site is passed only when exactly one of the remaining
  diagnostics matches it, so another pairing would have to differ at an earlier site.
* `ScientificDocsProofs`: `Inductive == Shaped /\ NoChains`. The registry maps the present name of a
  moved document to the name it had in the commits cited, and the gate looks a name up once.
  That is enough only because a home is never itself the name of a document that moved
  (`NoChains`), however many moves there were: with that, `MovesKeepEvidence`, that no move
  costs a claim its evidence.
* `ScientificDocsProofs`, evidence: the gate compares two fingerprints, and asks the *working* tree
  which imports are local even while it reads a commit, so what it visits in a commit is not
  what the commit's own imports reach. `VisitedLeast`: the walk is the least set that contains
  the cited modules and the local imports of its members (a round adds a module or ends, and the
  code is finite). `VisitedAgree`: two trees that agree on what is visited are walked alike.
  Hence equal fingerprints, with the working tree's answers, mean equal closures with each
  tree's own (`FingerprintFresh`). Over `EvidenceInductive == Inductive /\ Kept` (`Kept`: whatever
  was recorded still names modules and documents of the repository, and a favourable review names
  the report that stands for it) this gives `EvidenceAlwaysFresh` and `ReviewAlwaysCurrent`.
* `ScientificDocsProofs`, refreshing: `RefreshInductive == EvidenceInductive /\ Registered` adds the
  form of the registry, which no operation may break: claims with distinct names, consumers among
  them, anchors and proofs present, the four paragraphs of the target under one heading. Then
  evidence recorded anew meets every demand that is not about the tree (`AnewHolds`), a hash just
  taken is refused only where the passage, the source or the link is missing
  (`FingerprintComplete`, `TargetStands`, `LinksStand`), and `RefreshAlwaysExact` follows both ways.

### Assumptions

The scope is a sequence of variables the received assignment covers; requests
carry Boolean sequences; a received master memory covers the scope; the header of a module
is a sequence of names or unreadable; the rich start covers the scope; inventories and the
compiler's answers, registries and the homes of documents have the shape their parsers
enforce; the code is finite, the functions of an artifact are, and a report names one commit. Files are
well written (`Written`): the words of each import are followed by a gap that is not empty, every
piece that counts as sound is silent by itself, and one that does not is not closed or continues a name
in a way the reader has no support for. Of a lead that is unsound it is supposed that the text stays
unclosed, of such a tail that it is refused by itself: that they stay so behind the header is
proved for the tail. These are `ASSUME`s, evaluated by
every run. Beside them, some hypotheses are written in the theorems that need them:

* `FromMaster` (the discovery theorems): the machine starts from a live state the public master
  hands over, before the bound on depth, with an assignment of every variable up to it.
* `ComposedSearch` (the frontier theorems): the parameters of `MasterMachine` are the operators
  of `FrontierSearch`. It is what `MCMaster.cfg` substitutes.
* `FrontiersReceived` and `DiscoveryStays(Fronts)`: received contexts speak of the variables of
  the instance and have decided none twice, and so does the discovery up to the bound, for some
  set of fronts. Nothing is supposed of *which* variables are discovered. `MCMaster` evaluates
  both on its instance, with the concrete discovery.
* `PassagesRead` and `LinksRead` (evidence, reviews and refreshing): in each text the gate's reader
  of Markdown finds the passage its author wrote under each registered heading, and the links and
  fragments that were written. `EvidenceFresh` compares *written* passages, so a reader that cut
  one at the wrong line would falsify it: that is what the first hypothesis excludes, and one
  that closes a listing at any marker already fails it on the instance. `RegistriesFormed`
  (refreshing): the first registry has the form the gate demands. `MCScientificDocs` evaluates all
  three on its texts, with listings that hold what looks like a heading, a link or a closing fence.

### Only model-checked

All liveness (and the absence of deadlock where it is checked), since it needs `ENABLED`. Everything
that reaches a `RECURSIVE` operator, which the prover cannot treat: the analyses of emitted code
(`FlowAnalysis`, `UnifiedAnalysis`, `EmittedCode`, `RunnerCheck`, `MachineContracts`), where the
reference definitions are recursive over trees of any depth. The
library's induction theorems take an operator as a parameter, which no installed prover can
instantiate; what is proved here by induction over data (sequences, frontiers, chains of imports
or mentions, recursive functions) goes through a set of numbers
instead (`BySet` and `RecursionUpTo` in `DataLemmas`), which needs the recursion to be a function on an
interval. Of the documentation gate, that the
reader of Markdown reads what was written (`PassagesRead`, `LinksRead`): evaluated on the texts of
the instance, supposed by the theorems.

## 6. Findings

Each is a run that TLC must find violated.

1. `flow_nested` (`integrated_machine_analysis.py:295`). The comment says the tuple is copied
   to preserve aliases on each branch; the loop copies nothing. For
   `lean_ctor_set(p, 0, h(x))` with a followed helper of two paths, both continuations end up
   with the second path's value. The same happens in the program.
2. `unified_pick` (`unified_codegen_analysis.py:42`). `join` drops the function of closures
   that differ. `apply(pick(x), x)` is then reported as (0, 0) applications, though one path
   applies the producer, where the module says that what it does not support fails closed.
   (Applying the joined closure *directly* does fail closed.)
3. `unified_swap` (`unified_codegen_analysis.py:208`). A recursion is answered from the
   summary of a call with the same tags. When the recursion moves the archive to another
   field of an argument the tags do not change, the summary of the *other* arrangement is
   used, and a function that returns the archive is reported to retain nothing, although the
   comment above speaks of an approximation checked to a fixed point.

None of the three shapes is known to occur in the code Lean emits for this repository today:
what they limit is what a passing gate says of code emitted tomorrow.

## 7. Observations made while modelling

* The flip relation is an involution on contexts: the branch of the normaliser that keeps the
  second of a pair related only backwards is never taken by it (`AbsorbSecond`).
* A memory received from the public master has no gates, so a pulse before the first advance
  is admitted and its transformed inlet reads nothing; `CoherentOnceConfigured` says what holds
  instead, and the next advance restores coherence.
* The root of an import boundary is itself never compared with the forbidden names; the
  property is about what the root *imports*.
* Pairing sites with diagnostics is greedy in row order. It may refuse a fixture for which
  another order would succeed; it never verifies one wrongly.
* The strata's relation is not transitive: `X` may read `R`, `R` may read `F`, `X` may not read
  `F`, and the gate accepts the chain though it names it a path when it refuses one. What holds
  of chains is that they never climb the order in which strata are listed. Modules of one
  lettered stratum may import each other in a circle as far as this gate is concerned. The two
  versions of the gate split a row differently: the shell joins adjacent tabs and refuses a
  fifth field, PowerShell refuses an empty field and takes a fifth as part of the fourth.
* `count` follows `_init_` only for a name without a body while `reachable` follows both.
  The difference is modelled; it can refuse or count less, never loop.
* Header reader: a `'"'` character literal opens a string, so that a file with an odd number
  of them is refused; never is an import missed.
* Documentation gate: the table of relocations is one for all claims, though claims are
  dated separately in version 3. When `X` was moved to `Y` and another claim already speaks
  of `Y`, both are read from `Y`'s commit path. Whether an import is local is judged from the working tree, even for
  the fingerprint of an older commit. Adding an anchor to a reviewed claim without dating it
  anew keeps its review. Two and three blank lines split paragraphs alike.
* In the unified analysis a constant computed by a module initialiser is never looked up by
  `global_value`'s own branch for it (`:178-187`), because `evaluate` asks only for names that
  are functions (`:301-304`): the value is blank. A closure held in such a constant and handed
  to a helper is counted (0, 0), applied directly it fails closed: the same root as finding 2.
  The same holds of a recursion that is cut, or unfolded, and returns a closure which is then
  handed to a helper; the bodies of the counting runs have no such shape.

## 8. What is abstracted, and what is not modelled

* A circuit is a tree in Lean, of which the code's lowering makes only compositions and
  prependings of the instructions; the model keeps the list of instructions, each with the number of
  contexts prepended to it. A slot below that number passes it unchanged, as `FrontierCircuit.fire`
  does by descending.
* What remains of a fixture's diagnostics is the set of their places in the compiler's
  output: the code removes one from a list and asks only which are left.
* Contexts carry formula and decisions, not the certificates that Lean attaches; archived
  histories and measured costs decide nothing and are left out.
* Emitted code is a graph of statements: parsing, labels, declarations, casts and reference
  counts are not in the models. Scalar fields are slots. `EmittedCode` assumes that the
  compiler writes in place only cells referred to once (`emitted`), which is Lean's
  convention; two reads of `lean_is_exclusive` of one object are then one fact.
* A field never written gives a new symbolic object at each read, as in the code. The runs
  include bodies that read a field twice and write below one of the two reads: such a write
  is refused, because a cell read out of another is never the frame's own.
* Static objects: closures, records, aliases of other names and constants computed by a
  module initialiser are cells that exist before the run. A static closure that captures and
  a cycle of static objects are not in the models.
* In the contracts a scalar field is slot 3, and the operation `selected` is taken as inlined
  everywhere, as the emitted code has it.
* In `UnifiedAnalysis` a remembered summary is a value of its own, where the program may hand
  out the same object twice. Helpers that write what they receive are left out of the runs
  compared (`Executed`).
* `CountSound` is checked on bodies in which each place holds one closure. Where two paths bring two
  (`pick`), and for the computed constants of section 7, what holds is what the findings say.
* A source whose header cannot be read imports `Unreadable` and nothing else: the documentation
  gate raises there, as for an import that is found nowhere, and refuses.
* Header reader: a dotted name is one word; byte order marks and the command line are out.
* Documentation gate: a hash is what it is the hash of; the shapes of JSON fields, code spans
  and reference definitions inside Markdown, the calls to git and the self-tests are out.
  `lean_check` (`:381-405`) asks Lean whether the cited names exist through the root module,
  not through the cited one; what Lean answers is out of the model.
* Stratification: names and rows are values, a stratum is a letter or a rank; the path printed
  with a refusal is left out, and so are the self-test and the PowerShell version.
* The pipeline runs the gates in order and stops at the first that fails; the text searches it
  makes itself are not modelled. Of `check-agent-codegen.py` and
  `check-variable-master-codegen.py` the analyses they run are modelled; their lists of
  names and patterns, and the other `check-*-codegen.py`, which have only such lists, are not.
* The inventory-only mode of the expected-failure gate prints and decides nothing.
* Mathematics (constitution, arithmetic, agents): no behaviour to model.

## 9. Plan

Done, in this order: fabric and engine; rich and reduced machine, contract; master, problem,
rich master; import gate; expected-failure gate; emitted-code analyses; route count; operation
contracts and the master's runner; header reader composed with the import gate; documentation
gate; static objects, and the questions of the agent and variable-master checks; stratification;
the proofs of section 5, last of them those of the discovery, of the frontier search with its
circuits, of shortest refusals, of the stratification, of the pairing of diagnostics, of the
documentation gate's evidence, of the route count and of the header reader, the last two with
functions on an interval and least sets in the place of recursive operators.

Next, in this order:

1. `VariableMaster`: the resource cursor of `VariableMasterExecution.lean` iterated, refined
   to `FrontierSearch`'s single opening.
2. `PassagesRead` for every document whose fences are closed, as a theorem on `MarkdownText`
   instead of a hypothesis.
