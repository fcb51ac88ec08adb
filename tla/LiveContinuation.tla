-------------------------- MODULE LiveContinuation --------------------------
(***************************************************************************)
(* The live discovery engine: one stage searches the root formula its seed *)
(* names, flips the discovered variable in the assignment it carries, and  *)
(* hands decision and seed to the next stage.  `live' is the record that   *)
(* LiveResourceContinuation.lean keeps; the archives it drops are absent.  *)
(***************************************************************************)
EXTENDS Naturals, Sequences, SatContexts

\* The endpoint of a history of `depth' generations sits at depth + 3.
OperationalIndex(depth) == depth + 3

SearchIndex(depth) == 2 * OperationalIndex(depth)

SplitVar(index) == index + 2

AnchorVar(index) == index + 3

\* distinctDecoyClause (index + 1): +index, ..., +1, +0.
DecoyClause(index) == [i \in 1 .. index + 1 |-> Literal(index + 1 - i, TRUE)]

StageFormula(index) ==
  <<DecoyClause(index),
    <<Literal(SplitVar(index), TRUE), Literal(AnchorVar(index), TRUE)>>,
    <<Literal(SplitVar(index), FALSE), Literal(AnchorVar(index), TRUE)>>>>

\* Every literal of the formula, clause after clause, names a candidate.
Candidates(formula) ==
  FlattenSeq([i \in DOMAIN formula |->
                [j \in DOMAIN formula[i] |-> formula[i][j].var]])

FilterByProvenance(provenance, candidates) ==
  Keep(candidates, ToSet(candidates) \ ToSet(provenance))

\* tryMeasuredCandidate: freshness first, then the two children and the search.
CandidateWorks(root, candidate) ==
  /\ Avoids(candidate, root.decisions)
  /\ FlipRelated(candidate, Child(root, candidate, FALSE),
                            Child(root, candidate, TRUE))

\* The candidates the search gets to try.
Explored(seed, provenance) ==
  FilterByProvenance(provenance, Candidates(StageFormula(seed)))

\* exploreRecordedCandidates stops at the first candidate that works: its
\* position, 0 when every candidate fails.
FoundAt(seed, provenance) ==
  LET root == RootContext(StageFormula(seed))
  IN  SelectInSeq(Explored(seed, provenance),
                  LAMBDA candidate : CandidateWorks(root, candidate))

Discover(seed, provenance) == Explored(seed, provenance)[FoundAt(seed, provenance)]

Selected(live) == Discover(live.seed, live.provenance)

\* stageSelectedVar: the variable stage `depth' is constituted to split on.
StageSelectedVar(depth) == SplitVar(SearchIndex(depth))

\* Fault: the generator is not advanced with the search.
SameTarget(live) == live.target

NextTarget(live) == live.target + 1

NextDepth(live) == live.depth + 1

\* Fault: the decision is recorded under the variable of the stage before.
ReadLateDecision(live, output) ==
  LET stage == StageSelectedVar(live.depth) IN Decision(stage, output[stage])

\* Fault: the decision is read before the flip.
ReadInputDecision(live, output) ==
  LET stage == StageSelectedVar(live.depth + 1)
  IN  Decision(stage, live.assignment[stage])

\* The decision is read off the produced output, under the stage's own variable.
ReadDecision(live, output) ==
  LET stage == StageSelectedVar(live.depth + 1) IN Decision(stage, output[stage])

\* One production.  The target comes from the generator, the seed and the
\* provenance from the executed discovery, the decision from the produced output.
ProduceNext(live) ==
  LET selected == Selected(live)
      output == FlipAt(selected, live.assignment)
  IN  [depth |-> NextDepth(live),
       assignment |-> output,
       target |-> NextTarget(live),
       seed |-> selected,
       decisions |-> <<ReadDecision(live, output)>> \o live.decisions,
       provenance |-> <<selected>> \o live.provenance]

\* alternatingAssignmentBit: true at 0, then true exactly at the odd variables.
InitialAssignment(vars) == [query \in vars |-> query = 0 \/ query % 2 = 1]

OriginLive(depth, vars) ==
  [depth |-> depth, assignment |-> InitialAssignment(vars),
   target |-> OperationalIndex(depth + 1), seed |-> SearchIndex(depth + 1),
   decisions |-> << >>, provenance |-> << >>]

\* The public master starts at depth `input' and executes input + 1 stages.
PublicLive(input, vars) ==
  LET after[n \in Nat] == IF n = 0 THEN OriginLive(input, vars)
                                   ELSE ProduceNext(after[n - 1])
  IN  after[input + 1]
=============================================================================
